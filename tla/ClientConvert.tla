--------------------------- MODULE ClientConvert ---------------------------
(***************************************************************************)
(* client_convert.c: the objects that the client makes of what the parser  *)
(* built, and what it prints of an answer.  A list of the parser is a      *)
(* sequence, a pointer that is null the model value Null, and a union the  *)
(* record with the member that was set.  Enumerators go into an object as  *)
(* the number they have in the parser.                                     *)
(***************************************************************************)
EXTENDS ThriftObjects

-----------------------------------------------------------------------------
(* db_model.h, query.h *)

ValueType == <<"VT_INTEGER", "VT_STRING", "VT_FLOATING", "VT_BOOLEAN">>
LinkType == <<"LT_TO", "LT_FROM", "LT_BOTH", "LT_ANY">>
Comparation == <<"CMP_GT", "CMP_LT", "CMP_GE", "CMP_LE", "CMP_EQ", "CMP_NEQ", "CMP_CONTAINS">>
ComparableType == <<"CMPT_FIELD", "CMPT_VALUE">>
PredicateType == <<"PT_TERM", "PT_OR", "PT_AND">>
QueryType ==
    <<"SCHEMA_CREATE", "SCHEMA_GET", "SCHEMA_GET_ALL", "SCHEMA_DELETE",
      "NODE_CREATE", "NODE_UPDATE", "NODE_DELETE", "NODE_MATCH",
      "LINK_CREATE", "LINK_DELETE", "MATCH">>

\* The trees that the parser builds of them.  Of a union the member is there
\* that the type says; a list is a sequence.
IsValue(v) == v.vt \in ToSet(ValueType) /\ (v.vt = "VT_STRING" => v.string # Null)
IsProperty(p) == p.field # Null /\ IsValue(p.value)
IsAttribute(a) == a.name # Null /\ a.vt \in ToSet(ValueType)
IsTerm(t) ==
    /\ t.left.type = "CMPT_FIELD" /\ t.left.field_name # Null
    /\ t.compare.cmp \in ToSet(Comparation)
    /\ t.compare.with.type = "CMPT_VALUE" /\ IsValue(t.compare.with.value)

\* Bound: an and or an or is in a has, and in it once more.
IsPredicateOf(IsInner(_), p) ==
    \/ p.type = "PT_TERM" /\ IsTerm(p.term)
    \/ p.type = "PT_OR" /\ IsListOf(IsInner, p.or)
    \/ p.type = "PT_AND" /\ IsListOf(IsInner, p.and)
IsInnermostPredicate(p) == p.type = "PT_TERM" /\ IsTerm(p.term)
IsInnerPredicate(p) == IsPredicateOf(IsInnermostPredicate, p)
IsPredicate(p) == IsPredicateOf(IsInnerPredicate, p)

IsCondition(c) == c # Null => IsListOf(IsPredicate, c.predicates)
IsMatchCondition(c) ==
    /\ IsCondition(c.node_first_condition)
    /\ IsCondition(c.node_second_condition)
    /\ IsCondition(c.node_cross_condition)
    /\ c.link_condition.link_type \in {"LT_TO", "LT_FROM", "LT_BOTH"}
    /\ c.link_condition.link_name # Null
IsQuery(q) ==
    /\ q.type \in ToSet(QueryType)
    /\ q.type = "SCHEMA_CREATE" =>
          q.schema.name # Null /\ IsListOf(IsAttribute, q.schema.attributes)
    /\ q.type = "NODE_CREATE" => IsListOf(IsProperty, q.node.properties)
    /\ q.type = "NODE_UPDATE" => IsListOf(IsProperty, q.properties)
    /\ q.type \in {"NODE_UPDATE", "NODE_DELETE", "NODE_MATCH"} => IsCondition(q.condition)
    /\ q.type = "LINK_CREATE" =>
          /\ q.name # Null /\ q.link_type \in {"LT_TO", "LT_FROM", "LT_BOTH"}
          /\ IsCondition(q.first) /\ IsCondition(q.second)
    /\ q.type \in {"LINK_DELETE", "MATCH"} => IsMatchCondition(q.condition)

-----------------------------------------------------------------------------
(* Queries *)

\* ARR_CONVERTER
ListOf(convert(_), list) == [i \in DOMAIN list |-> convert(list[i])]

convert_value(value) ==
    Make(I_Value, [
        type |-> Code(ValueType, value.vt),
        value |-> Make(I_uValue,
            CASE value.vt = "VT_INTEGER" -> [integer |-> value.integer]
              [] value.vt = "VT_STRING" -> [string_ |-> value.string]
              [] value.vt = "VT_FLOATING" -> [floating |-> value.floating]
              [] value.vt = "VT_BOOLEAN" -> [boolean |-> value.boolean])])

convert_attribute(attribute) ==
    Make(I_Attribute, [name |-> attribute.name, vt |-> Code(ValueType, attribute.vt)])

convert_property(property) ==
    Make(I_Property, [field |-> property.field, value |-> convert_value(property.value)])

\* each is put before those that were converted
convert_property_list(properties) == Reverse(ListOf(convert_property, properties))

convert_schema(schema) ==
    Make(I_Schema, [name |-> schema.name,
                      attributes |-> ListOf(convert_attribute, schema.attributes)])

convert_node(node) ==
    Make(I_Node, [name |-> node.name,
                    properties |-> convert_property_list(node.properties)])

convert_comparable(comparable) ==
    Make(I_Comparable, [
        type |-> Code(ComparableType, comparable.type),
        comparable |-> Make(I_uComparable,
            CASE comparable.type = "CMPT_FIELD" -> [field_name |-> comparable.field_name]
              [] comparable.type = "CMPT_VALUE" -> [value |-> convert_value(comparable.value)])])

convert_compare(compare) ==
    Make(I_Compare, [cmp |-> Code(Comparation, compare.cmp),
                       with_ |-> convert_comparable(compare.with)])

convert_condition_compare(condition) ==
    Make(I_ConditionCompare, [left |-> convert_comparable(condition.left),
                                compare |-> convert_compare(condition.compare)])

convert_predicateOf(inner(_), predicate) ==
    Make(I_Predicate, [
        type |-> Code(PredicateType, predicate.type),
        predicate |-> Make(I_uPredicate,
            CASE predicate.type = "PT_TERM" -> [term |-> convert_condition_compare(predicate.term)]
              [] predicate.type = "PT_OR" -> [or_ |-> ListOf(inner, predicate.or)]
              [] predicate.type = "PT_AND" -> [and_ |-> ListOf(inner, predicate.and)])])

\* Bound: an and or an or is in a has, and in it once more.
convert_innermost_predicate(predicate) ==
    convert_predicateOf(LAMBDA p : New(I_Predicate), predicate)
convert_inner_predicate(predicate) ==
    convert_predicateOf(convert_innermost_predicate, predicate)
convert_predicate(predicate) == convert_predicateOf(convert_inner_predicate, predicate)
convert_predicates(predicates) == ListOf(convert_predicate, predicates)

\* A condition that is not there has only its flag set.
convert_node_condition(condition) ==
    IF condition = Null
    THEN Make(I_NodeCondition, [is_null |-> TRUE])
    ELSE Make(I_NodeCondition, [is_null |-> condition.is_null,
                                  schema |-> condition.schema,
                                  predicates |-> convert_predicates(condition.predicates)])

convert_link_condition(condition) ==
    Make(I_LinkCondition, [is_null |-> condition.is_null,
                             link_type |-> Code(LinkType, condition.link_type),
                             link_name |-> condition.link_name])

convert_match_condition(condition) ==
    Make(I_MatchCondition, [
        is_null |-> condition.is_null,
        node_first_condition |-> convert_node_condition(condition.node_first_condition),
        node_second_condition |-> convert_node_condition(condition.node_second_condition),
        node_cross_condition |-> convert_node_condition(condition.node_cross_condition),
        link_condition |-> convert_link_condition(condition.link_condition)])

convert_schema_create_query(query) ==
    Make(I_SchemaCreateQuery, [schema |-> convert_schema(query.schema)])
convert_schema_get_query(query) ==
    Make(I_SchemaGetQuery, [schema_name |-> query.schema_name])
convert_schema_delete_query(query) ==
    Make(I_SchemaDeleteQuery, [schema_name |-> query.schema_name])
convert_node_create_query(query) ==
    Make(I_NodeCreateQuery, [schema_name |-> query.schema_name,
                               node |-> convert_node(query.node)])
convert_node_update_query(query) ==
    Make(I_NodeUpdateQuery, [condition |-> convert_node_condition(query.condition),
                               properties |-> convert_property_list(query.properties)])
convert_node_delete_query(query) ==
    Make(I_NodeDeleteQuery, [condition |-> convert_node_condition(query.condition)])
convert_node_match_query(query) ==
    Make(I_NodeMatchQuery, [condition |-> convert_node_condition(query.condition)])
convert_link_create_query(query) ==
    Make(I_LinkCreateQuery, [link_name |-> query.name,
                               link_type |-> Code(LinkType, query.link_type),
                               first |-> convert_node_condition(query.first),
                               second |-> convert_node_condition(query.second)])
convert_link_delete_query(query) ==
    Make(I_LinkDeleteQuery, [condition |-> convert_match_condition(query.condition)])
convert_match_query(query) ==
    Make(I_MatchQuery, [condition |-> convert_match_condition(query.condition)])

\* the member of the union that the type of the query has
Member(query) ==
    CASE query.type = "SCHEMA_CREATE" -> [schema_create_query |-> convert_schema_create_query(query)]
      [] query.type = "SCHEMA_GET" -> [schema_get_query |-> convert_schema_get_query(query)]
      [] query.type = "SCHEMA_GET_ALL" -> [schema_get_all_query |-> New(I_SchemaGetAllQuery)]
      [] query.type = "SCHEMA_DELETE" -> [schema_delete_query |-> convert_schema_delete_query(query)]
      [] query.type = "NODE_CREATE" -> [node_create_query |-> convert_node_create_query(query)]
      [] query.type = "NODE_UPDATE" -> [node_update_query |-> convert_node_update_query(query)]
      [] query.type = "NODE_DELETE" -> [node_delete_query |-> convert_node_delete_query(query)]
      [] query.type = "NODE_MATCH" -> [node_match_query |-> convert_node_match_query(query)]
      [] query.type = "LINK_CREATE" -> [link_create_query |-> convert_link_create_query(query)]
      [] query.type = "LINK_DELETE" -> [link_delete_query |-> convert_link_delete_query(query)]
      [] query.type = "MATCH" -> [match_query |-> convert_match_query(query)]
convert_query(query) ==
    Make(I_Query, [type |-> Code(QueryType, query.type),
                     query |-> Make(I_uQuery, Member(query))])

-----------------------------------------------------------------------------
(* Answers: the parts of a print, in their order *)

print_attribute(attribute) ==
    [name |-> attribute.is.name, type |-> NameOf(I_ValueType, attribute.is.vt)]

print_schema(schema) ==
    [name |-> schema.is.name, attributes |-> ListOf(print_attribute, schema.is.attributes)]

print_value(value) ==
    LET u == value.is.value.is
        type == NameOf(I_ValueType, value.is.type)
    IN  CASE type = "VT_INTEGER" -> [integer |-> u.integer]
          [] type = "VT_STRING" -> [text |-> u.string_]
          [] type = "VT_FLOATING" -> [floating |-> u.floating]
          [] type = "VT_BOOLEAN" -> [boolean |-> u.boolean]

\* without the names of the properties
print_property(property) == print_value(property.is.value)
print_node(node) ==
    [name |-> node.is.name, values |-> ListOf(print_property, node.is.properties)]

print_link(link) ==
    LET type == link.is.type
    IN  [back |-> type \in {Code(LinkType, "LT_FROM"), Code(LinkType, "LT_BOTH")},
         name |-> link.is.name,
         forth |-> type \in {Code(LinkType, "LT_TO"), Code(LinkType, "LT_BOTH")}]

print_result_itemLinkLast(item) ==
    IF "schema" \in item.set THEN <<print_schema(item.is.schema)>>
    ELSE (IF "first" \in item.set THEN <<print_node(item.is.first)>> ELSE <<>>)
         \o (IF "second" \in item.set THEN <<print_node(item.is.second)>> ELSE <<>>)
         \o (IF "link" \in item.set THEN <<print_link(item.is.link)>> ELSE <<>>)
print_result_item(item) ==
    IF "schema" \in item.set THEN <<print_schema(item.is.schema)>>
    ELSE (IF "first" \in item.set THEN <<print_node(item.is.first)>> ELSE <<>>)
         \o (IF "link" \in item.set THEN <<print_link(item.is.link)>> ELSE <<>>)
         \o (IF "second" \in item.set THEN <<print_node(item.is.second)>> ELSE <<>>)

print_items(items) == ListOf(print_result_item, items)

print_result(result) ==
    LET u == result.is.result.is
        type == NameOf(I_QueryResultType, result.is.type)
    IN  [message |-> result.is.message,
         items |-> CASE type = "RESULT_SCHEMA" -> <<<<print_schema(u.schema)>>>>
                     [] type = "RESULT_GENERATOR" -> print_items(u.items)
                     [] type = "RESULT_NONE" -> <<>>]
=============================================================================
