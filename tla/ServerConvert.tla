--------------------------- MODULE ServerConvert ---------------------------
(***************************************************************************)
(* server_convert.c: the query that the server makes of an object, and the *)
(* object it makes of a result.  A conversion is the set of what it can    *)
(* give: nothing if the server does not survive it, and more than one      *)
(* where memory is read that nobody wrote.                                 *)
(***************************************************************************)
EXTENDS ThriftObjects

-----------------------------------------------------------------------------
(* The enumerations of the database *)

DataType == <<"DT_INTEGER", "DT_STRING", "DT_FLOATING", "DT_BOOLEAN">>
LinkType == <<"LT_DIRECTED_TO", "LT_DIRECTED_FROM", "LT_DIRECTED_BOTH", "LT_ANY">>
ComparableType == <<"CMPT_FIELD_NAME", "CMPT_VALUE">>
QueryType ==
    <<"SCHEMA_CREATE", "SCHEMA_GET", "SCHEMA_GET_ALL", "SCHEMA_DELETE",
      "NODE_CREATE", "NODE_UPDATE", "NODE_DELETE", "NODE_MATCH",
      "LINK_CREATE", "LINK_DELETE", "MATCH">>
QueryResultType == <<"RESULT_SCHEMA", "RESULT_GENERATOR", "RESULT_NONE">>
RESULT_CODES ==
    <<"RC_OK", "RC_DATABASE_EXISTS", "RC_DATABASE_CREATED", "RC_DATABASE_CANNOT_CREATE",
      "RC_DATABASE_WRITE_DATABASE_HEADER_ERROR", "RC_DATABASE_CANNOT_OPEN",
      "RC_DATABASE_READ_DATABASE_HEADER_ERROR", "RC_DATABASE_CANNOT_CLOSE",
      "RC_DATABASE_NO_SUCH_SCHEMA", "RC_DATA_TYPES_ARE_NOT_EQUAL",
      "RC_DATABASE_ATTRIBUTE_NOT_FOUND", "RC_SCHEMA_NAME_CANT_BE_NULL">>

\* what the database gives back: schemas, nodes and links
IsAttribute(a) == a.data_type \in ToSet(DataType)
IsSchema(s) == s # Null /\ IsListOf(IsAttribute, s.attributes)
IsValue(v) == v.data_type \in ToSet(DataType)
IsNode(n) == IsListOf(IsValue, n.values)
IsLink(l) == l.type \in {"LT_DIRECTED_TO", "LT_DIRECTED_FROM", "LT_DIRECTED_BOTH"}

-----------------------------------------------------------------------------
(* Queries *)

\* CONVERT_ARRAY: what the elements can become, together
AllOf(convert(_), list) ==
    {s \in [DOMAIN list -> UNION {convert(list[i]) : i \in DOMAIN list}] :
        \A i \in DOMAIN list : s[i] \in convert(list[i])}

\* strlen of a null pointer
convert_string(text) == IF text = Null THEN {} ELSE {text}

convert_value(value) ==
    LET u == value.is.value.is
        type == NameOf(I_ValueType, value.is.type)
        data_type == NameOf(DataType, value.is.type)
    IN  CASE type = "VT_INTEGER" -> {[data_type |-> data_type, integer |-> u.integer]}
          [] type = "VT_STRING" ->
                {[data_type |-> data_type, string |-> s] : s \in convert_string(u.string_)}
          [] type = "VT_FLOATING" -> {[data_type |-> data_type, floating |-> u.floating]}
          [] type = "VT_BOOLEAN" -> {[data_type |-> data_type, boolean |-> u.boolean]}

convert_attribute(attribute) ==
    {[name |-> n, data_type |-> NameOf(DataType, attribute.is.vt)] :
        n \in convert_string(attribute.is.name)}

convert_property(property) == convert_value(property.is.value)

convert_schema(schema) ==
    {[name |-> n, attributes |-> as] :
        n \in convert_string(schema.is.name), as \in AllOf(convert_attribute, schema.is.attributes)}

\* without its name and those of its properties
convert_nodeWithName(node) ==
    {[values |-> vs] : n \in convert_string(node.is.name),
                       vs \in AllOf(convert_property, node.is.properties)}
convert_node(node) == {[values |-> vs] : vs \in AllOf(convert_property, node.is.properties)}

convert_comparable(comparable) ==
    LET type == NameOf(ComparableType, comparable.is.type)
        u == comparable.is.comparable.is
    IN  IF type = "CMPT_VALUE"
        THEN {[type |-> type, value |-> v] : v \in convert_value(u.value)}
        ELSE {[type |-> type, field_name |-> u.field_name]}

ConditionCmp ==
    [CMP_GT |-> "CMP_GREATER", CMP_GE |-> "CMP_GREATER",
     CMP_LT |-> "CMP_LESS", CMP_LE |-> "CMP_LESS", CMP_EQ |-> "CMP_EQUAL",
     CMP_CONTAINS |-> "CMP_UNDEFINED", CMP_NEQ |-> "CMP_UNDEFINED"]

\* of any predicate the term, also if it is no term
convert_predicate(predicate) ==
    LET term == predicate.is.predicate.is.term.is
        compare == term.compare.is
    IN  {[left |-> l, cmp |-> ConditionCmp[NameOf(I_Comparation, compare.cmp)], right |-> r] :
            l \in convert_comparable(term.left), r \in convert_comparable(compare.with_)}

\* the first predicate counts
TermsOf(predicates) ==
    IF Len(predicates) = 0 THEN <<>>
    ELSE LET type == NameOf(I_PredicateType, predicates[1].is.type)
         IN  CASE type = "PT_TERM" -> <<predicates[1]>>
               [] type = "PT_AND" -> predicates[1].is.predicate.is.and_
               [] type = "PT_OR" -> <<>>
convert_node_condition(condition) ==
    {[is_null |-> condition.is.is_null, schema_name |-> condition.is.schema,
      compare_conditions |-> cs] :
        cs \in AllOf(convert_predicate, TermsOf(condition.is.predicates))}

convert_link_condition(condition) ==
    {[is_null |-> condition.is.is_null, link_name |-> n,
      link_type |-> NameOf(LinkType, condition.is.link_type)] :
        n \in convert_string(condition.is.link_name)}

convert_match_conditionTwoSwapped(condition) ==
    {[is_null |-> condition.is.is_null, link_condition |-> l,
      node_first_condition |-> first, node_second_condition |-> second,
      node_cross_condition |-> cross] :
        l \in convert_link_condition(condition.is.link_condition),
        first \in convert_node_condition(condition.is.node_second_condition),
        second \in convert_node_condition(condition.is.node_first_condition),
        cross \in convert_node_condition(condition.is.node_cross_condition)}
convert_match_condition(condition) ==
    {[is_null |-> condition.is.is_null, link_condition |-> l,
      node_first_condition |-> first, node_second_condition |-> second,
      node_cross_condition |-> cross] :
        l \in convert_link_condition(condition.is.link_condition),
        first \in convert_node_condition(condition.is.node_first_condition),
        second \in convert_node_condition(condition.is.node_second_condition),
        cross \in convert_node_condition(condition.is.node_cross_condition)}

convert_schema_create_query(query) ==
    {[schema |-> s] : s \in convert_schema(query.is.schema)}
convert_schema_get_query(query) == {[schema_name |-> query.is.schema_name]}
convert_schema_delete_query(query) == {[schema_name |-> query.is.schema_name]}
convert_node_create_query(query) ==
    {[schema_name |-> query.is.schema_name, node |-> n] : n \in convert_node(query.is.node)}

\* the name and the value of each property
convert_update(property) ==
    {[attribute |-> property.is.field, value |-> v] : v \in convert_property(property)}
convert_node_update_query(query) ==
    {[condition |-> c, updates |-> us] :
        c \in convert_node_condition(query.is.condition),
        us \in AllOf(convert_update, query.is.properties)}
convert_node_delete_query(query) ==
    {[condition |-> c] : c \in convert_node_condition(query.is.condition)}
convert_node_match_query(query) ==
    {[condition |-> c] : c \in convert_node_condition(query.is.condition)}
convert_link_create_query(query) ==
    {[link |-> [name |-> n, type |-> NameOf(LinkType, query.is.link_type)],
      first |-> first, second |-> second] :
        n \in convert_string(query.is.link_name),
        first \in convert_node_condition(query.is.first),
        second \in convert_node_condition(query.is.second)}
convert_link_delete_query(query) ==
    {[condition |-> c] : c \in convert_match_condition(query.is.condition)}
convert_match_query(query) ==
    {[condition |-> c] : c \in convert_match_condition(query.is.condition)}

convert_query(query) ==
    LET type == NameOf(QueryType, query.is.type)
        u == query.is.query.is
        as(members) == {[type |-> type, query |-> m] : m \in members}
    IN  CASE type = "SCHEMA_CREATE" -> as(convert_schema_create_query(u.schema_create_query))
          [] type = "SCHEMA_GET" -> as(convert_schema_get_query(u.schema_get_query))
          [] type = "SCHEMA_GET_ALL" -> as({<<>>})
          [] type = "SCHEMA_DELETE" -> as(convert_schema_delete_query(u.schema_delete_query))
          [] type = "NODE_CREATE" -> as(convert_node_create_query(u.node_create_query))
          [] type = "NODE_UPDATE" -> as(convert_node_update_query(u.node_update_query))
          [] type = "NODE_DELETE" -> as(convert_node_delete_query(u.node_delete_query))
          [] type = "NODE_MATCH" -> as(convert_node_match_query(u.node_match_query))
          [] type = "LINK_CREATE" -> as(convert_link_create_query(u.link_create_query))
          [] type = "LINK_DELETE" -> as(convert_link_delete_query(u.link_delete_query))
          [] type = "MATCH" -> as(convert_match_query(u.match_query))

-----------------------------------------------------------------------------
(* Results *)

\* What follows the letters of the name in memory belongs to it as well, up to
\* the first zero.
RunOn(text) == {text, text \o "?"}
get_attribute(attribute) ==
    {Make(I_Attribute, [name |-> n, vt |-> Code(DataType, attribute.data_type)]) :
        n \in RunOn(attribute.name)}

\* A schema that was not found is a pointer that nobody set.
get_schema(schema) ==
    IF schema = Null THEN {}
    ELSE {Make(I_Schema, [name |-> schema.name, attributes |-> as]) :
            as \in AllOf(get_attribute, schema.attributes)}

get_value(value) ==
    Make(I_Value, [
        type |-> Code(DataType, value.data_type),
        value |-> Make(I_uValue,
            CASE value.data_type = "DT_INTEGER" -> [integer |-> value.integer]
              [] value.data_type = "DT_STRING" -> [string_ |-> value.string]
              [] value.data_type = "DT_FLOATING" -> [floating |-> value.floating]
              [] value.data_type = "DT_BOOLEAN" -> [boolean |-> value.boolean])])

get_node(node) ==
    Make(I_Node, [properties |->
        [i \in DOMAIN node.values |-> Make(I_Property, [value |-> get_value(node.values[i])])]])

get_link(link) ==
    Make(I_Link, [name |-> link.name, type |-> Code(LinkType, link.type)])

\* one element, by the type of the query
get_item(found, q_type) ==
    CASE q_type = "SCHEMA_GET_ALL" -> {Make(I_Result, [schema |-> s]) : s \in get_schema(found)}
      [] q_type = "NODE_MATCH" -> {Make(I_Result, [first |-> get_node(found)])}
      [] q_type = "MATCH" -> {Make(I_Result, [first |-> get_node(found.first),
                                               second |-> get_node(found.second),
                                               link |-> get_link(found.link)])}
get_items(generator, q_type) ==
    LET get(found) == get_item(found, q_type) IN AllOf(get, generator)

\* u_query is filled by the type of the query, and the client reads it by the
\* type of the result
convert_result(found, q_type) ==
    LET answer(u) == Make(I_QueryResult, [
                        type |-> Code(QueryResultType, found.type),
                        message |-> RESULT_CODES[found.status + 1],
                        result |-> u])
    IN  CASE q_type = "SCHEMA_GET" ->
                {answer(Make(I_uQueryResult, [schema |-> s])) : s \in get_schema(found.schema)}
          [] q_type \in {"NODE_MATCH", "MATCH", "SCHEMA_GET_ALL"} ->
                {answer(Make(I_uQueryResult, [items |-> is])) :
                    is \in get_items(found.generator, q_type)}
          [] OTHER -> {answer(New(I_uQueryResult))}
=============================================================================
