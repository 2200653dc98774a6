--------------------------- MODULE MessageContent ---------------------------
(***************************************************************************)
(* What is said, apart from the code that carries it: what the server has  *)
(* to execute of what was typed, what the objects that are read have to    *)
(* hold of what was sent, and what is printed of what was found.           *)
(***************************************************************************)
EXTENDS ThriftObjects

Client == INSTANCE ClientConvert
Server == INSTANCE ServerConvert

DataTypeOf == [VT_INTEGER |-> "DT_INTEGER", VT_STRING |-> "DT_STRING",
               VT_FLOATING |-> "DT_FLOATING", VT_BOOLEAN |-> "DT_BOOLEAN"]
LinkTypeOf == [LT_TO |-> "LT_DIRECTED_TO", LT_FROM |-> "LT_DIRECTED_FROM",
               LT_BOTH |-> "LT_DIRECTED_BOTH"]

Map(Op(_), list) == [i \in DOMAIN list |-> Op(list[i])]

-----------------------------------------------------------------------------
(* What a query says, from what was typed alone *)

SaysValue(v) ==
    CASE v.vt = "VT_INTEGER" -> [data_type |-> "DT_INTEGER", integer |-> v.integer]
      [] v.vt = "VT_STRING" -> [data_type |-> "DT_STRING", string |-> v.string]
      [] v.vt = "VT_FLOATING" -> [data_type |-> "DT_FLOATING", floating |-> v.floating]
      [] v.vt = "VT_BOOLEAN" -> [data_type |-> "DT_BOOLEAN", boolean |-> v.boolean]
SaysTerm(p) ==
    [left |-> [type |-> "CMPT_FIELD_NAME", field_name |-> p.term.left.field_name],
     cmp |-> CASE p.term.compare.cmp \in {"CMP_GT", "CMP_GE"} -> "CMP_GREATER"
               [] p.term.compare.cmp \in {"CMP_LT", "CMP_LE"} -> "CMP_LESS"
               [] p.term.compare.cmp = "CMP_EQ" -> "CMP_EQUAL"
               [] OTHER -> "CMP_UNDEFINED",
     right |-> [type |-> "CMPT_VALUE", value |-> SaysValue(p.term.compare.with.value)]]
\* the terms of the first predicate
TermsSaid(predicates) ==
    IF predicates = <<>> THEN <<>>
    ELSE IF predicates[1].type = "PT_AND" THEN predicates[1].and ELSE <<predicates[1]>>
SaysCondition(c) ==
    IF c = Null
    THEN [is_null |-> TRUE, schema_name |-> Null, compare_conditions |-> <<>>]
    ELSE [is_null |-> c.is_null, schema_name |-> c.schema,
          compare_conditions |-> Map(SaysTerm, TermsSaid(c.predicates))]
SaysLink(c) ==
    [is_null |-> c.is_null, link_name |-> c.link_name, link_type |-> LinkTypeOf[c.link_type]]
SaysMatch(c) ==
    [is_null |-> c.is_null,
     link_condition |-> SaysLink(c.link_condition),
     node_first_condition |-> SaysCondition(c.node_first_condition),
     node_second_condition |-> SaysCondition(c.node_second_condition),
     node_cross_condition |-> SaysCondition(c.node_cross_condition)]

\* the parser has the properties in the reverse of the order they were typed
SaysProperty(p) == [attribute |-> p.field, value |-> SaysValue(p.value)]
SaysWithoutName(p) == SaysValue(p.value)
SaysAttribute(a) == [name |-> a.name, data_type |-> DataTypeOf[a.vt]]

SaysMember(q) ==
    CASE q.type = "SCHEMA_CREATE" ->
            [schema |-> [name |-> q.schema.name, attributes |-> Map(SaysAttribute, q.schema.attributes)]]
      [] q.type \in {"SCHEMA_GET", "SCHEMA_DELETE"} -> [schema_name |-> q.schema_name]
      [] q.type = "SCHEMA_GET_ALL" -> <<>>
      [] q.type = "NODE_CREATE" ->
            [schema_name |-> q.schema_name,
             node |-> [values |-> Map(SaysWithoutName, Reverse(q.node.properties))]]
      [] q.type = "NODE_UPDATE" ->
            [condition |-> SaysCondition(q.condition),
             updates |-> Map(SaysProperty, Reverse(q.properties))]
      [] q.type \in {"NODE_DELETE", "NODE_MATCH"} -> [condition |-> SaysCondition(q.condition)]
      [] q.type = "LINK_CREATE" ->
            [link |-> [name |-> q.name, type |-> LinkTypeOf[q.link_type]],
             first |-> SaysCondition(q.first), second |-> SaysCondition(q.second)]
      [] q.type \in {"LINK_DELETE", "MATCH"} -> [condition |-> SaysMatch(q.condition)]
Says(q) == [type |-> q.type, query |-> SaysMember(q)]

-----------------------------------------------------------------------------
(* The texts of a query: those without letters are Blank.  Sets of the texts *)
(* that name a schema or a field of a condition, and of the others.          *)

ValueTexts(v) == IF v.vt = "VT_STRING" THEN {v.string} ELSE {}
\* of a predicate, of one in it, and of one in that
TermsInOne(Inner(_), p) ==
    CASE p.type = "PT_TERM" -> {p.term}
      [] p.type = "PT_AND" -> UNION {Inner(p.and[i]) : i \in DOMAIN p.and}
      [] p.type = "PT_OR" -> UNION {Inner(p.or[i]) : i \in DOMAIN p.or}
InnermostTerms(p) == {p.term}
InnerTerms(p) == TermsInOne(InnermostTerms, p)
TermsInAny(p) == TermsInOne(InnerTerms, p)
TermsIn(c) ==
    IF c = Null THEN {} ELSE UNION {TermsInAny(c.predicates[i]) : i \in DOMAIN c.predicates}

ConditionsOf(q) ==
    CASE q.type \in {"NODE_UPDATE", "NODE_DELETE", "NODE_MATCH"} -> {q.condition}
      [] q.type = "LINK_CREATE" -> {q.first, q.second}
      [] q.type \in {"LINK_DELETE", "MATCH"} ->
            {q.condition.node_first_condition, q.condition.node_second_condition,
             q.condition.node_cross_condition}
      [] OTHER -> {}
PropertiesOf(q) ==
    CASE q.type = "NODE_CREATE" -> ToSet(q.node.properties)
      [] q.type = "NODE_UPDATE" -> ToSet(q.properties)
      [] OTHER -> {}

FieldNames(c) == {t.left.field_name : t \in TermsIn(c)}
GivenIn(c) == UNION {ValueTexts(t.compare.with.value) : t \in TermsIn(c)}

Looked(q) ==
    (UNION {FieldNames(c) : c \in ConditionsOf(q)})
    \union {c.schema : c \in ConditionsOf(q) \ {Null}}
    \union {p.field : p \in PropertiesOf(q)}
    \union (IF q.type \in {"SCHEMA_GET", "SCHEMA_DELETE", "NODE_CREATE"} THEN {q.schema_name} ELSE {})
Given(q) ==
    (UNION {GivenIn(c) : c \in ConditionsOf(q)})
    \union (UNION {ValueTexts(p.value) : p \in PropertiesOf(q)})
    \union (CASE q.type = "SCHEMA_CREATE" -> {q.schema.name} \union {a.name : a \in ToSet(q.schema.attributes)}
              [] q.type = "LINK_CREATE" -> {q.name}
              [] q.type \in {"LINK_DELETE", "MATCH"} -> {q.condition.link_condition.link_name}
              [] OTHER -> {})

\* conditions of one term, or of an and of terms
Simple(c) ==
    c # Null => \/ c.predicates = <<>>
                \/ /\ Len(c.predicates) = 1
                   /\ \/ c.predicates[1].type = "PT_TERM"
                      \/ /\ c.predicates[1].type = "PT_AND"
                         /\ \A i \in DOMAIN c.predicates[1].and : c.predicates[1].and[i].type = "PT_TERM"

-----------------------------------------------------------------------------
(* What the object that is read has to hold of the query that was typed, also *)
(* of what nobody converts: names of nodes and of their properties, an or, an  *)
(* and in an and                                                               *)

HoldsList(Holds(_, _), objects, list) ==
    /\ DOMAIN objects = DOMAIN list
    /\ \A i \in DOMAIN list : Holds(objects[i], list[i])

HoldsValue(obj, v) ==
    LET u == obj.is.value.is
    IN  /\ obj.is.type = Code(I_ValueType, v.vt)
        /\ v.vt = "VT_INTEGER" => u.integer = v.integer
        /\ v.vt = "VT_STRING" => u.string_ = ReadText(v.string)
        /\ v.vt = "VT_FLOATING" => u.floating = v.floating
        /\ v.vt = "VT_BOOLEAN" => u.boolean = v.boolean
HoldsProperty(obj, p) == obj.is.field = ReadText(p.field) /\ HoldsValue(obj.is.value, p.value)
HoldsAttribute(obj, a) ==
    obj.is.name = ReadText(a.name) /\ obj.is.vt = Code(I_ValueType, a.vt)
HoldsSchema(obj, s) ==
    /\ obj.is.name = ReadText(s.name)
    /\ HoldsList(HoldsAttribute, obj.is.attributes, s.attributes)
HoldsNode(obj, n) ==
    /\ obj.is.name = ReadText(n.name)
    /\ HoldsList(HoldsProperty, obj.is.properties, Reverse(n.properties))

HoldsTerm(obj, t) ==
    LET with == obj.is.compare.is.with_
    IN  /\ obj.is.left.is.type = Code(I_ComparableType, "CMPT_FIELD")
        /\ obj.is.left.is.comparable.is.field_name = ReadText(t.left.field_name)
        /\ obj.is.compare.is.cmp = Code(I_Comparation, t.compare.cmp)
        /\ with.is.type = Code(I_ComparableType, "CMPT_VALUE")
        /\ HoldsValue(with.is.comparable.is.value, t.compare.with.value)
HoldsPredicateOf(HoldsInner(_, _), obj, p) ==
    LET u == obj.is.predicate.is
    IN  /\ obj.is.type = Code(I_PredicateType, p.type)
        /\ IF p.type = "PT_TERM" THEN HoldsTerm(u.term, p.term) ELSE u.term = New(I_ConditionCompare)
        /\ IF p.type = "PT_AND" THEN HoldsList(HoldsInner, u.and_, p.and) ELSE u.and_ = <<>>
        /\ IF p.type = "PT_OR" THEN HoldsList(HoldsInner, u.or_, p.or) ELSE u.or_ = <<>>
HoldsInnermostPredicate(obj, p) == HoldsPredicateOf(LAMBDA x, y : FALSE, obj, p)
HoldsInnerPredicate(obj, p) == HoldsPredicateOf(HoldsInnermostPredicate, obj, p)
HoldsPredicate(obj, p) == HoldsPredicateOf(HoldsInnerPredicate, obj, p)

HoldsCondition(obj, c) ==
    IF c = Null
    THEN obj.is.is_null = TRUE /\ obj.is.schema = Null /\ obj.is.predicates = <<>>
    ELSE /\ obj.is.is_null = c.is_null
         /\ obj.is.schema = ReadText(c.schema)
         /\ HoldsList(HoldsPredicate, obj.is.predicates, c.predicates)
HoldsLink(obj, c) ==
    /\ obj.is.is_null = c.is_null
    /\ obj.is.link_type = Code(I_LinkType, c.link_type)
    /\ obj.is.link_name = ReadText(c.link_name)
HoldsMatch(obj, c) ==
    /\ obj.is.is_null = c.is_null
    /\ HoldsLink(obj.is.link_condition, c.link_condition)
    /\ HoldsCondition(obj.is.node_first_condition, c.node_first_condition)
    /\ HoldsCondition(obj.is.node_second_condition, c.node_second_condition)
    /\ HoldsCondition(obj.is.node_cross_condition, c.node_cross_condition)

HoldsMember(u, q) ==
    CASE q.type = "SCHEMA_CREATE" -> HoldsSchema(u.schema_create_query.is.schema, q.schema)
      [] q.type = "SCHEMA_GET" -> u.schema_get_query.is.schema_name = ReadText(q.schema_name)
      [] q.type = "SCHEMA_GET_ALL" -> TRUE
      [] q.type = "SCHEMA_DELETE" -> u.schema_delete_query.is.schema_name = ReadText(q.schema_name)
      [] q.type = "NODE_CREATE" ->
            /\ u.node_create_query.is.schema_name = ReadText(q.schema_name)
            /\ HoldsNode(u.node_create_query.is.node, q.node)
      [] q.type = "NODE_UPDATE" ->
            /\ HoldsCondition(u.node_update_query.is.condition, q.condition)
            /\ HoldsList(HoldsProperty, u.node_update_query.is.properties, Reverse(q.properties))
      [] q.type = "NODE_DELETE" -> HoldsCondition(u.node_delete_query.is.condition, q.condition)
      [] q.type = "NODE_MATCH" -> HoldsCondition(u.node_match_query.is.condition, q.condition)
      [] q.type = "LINK_CREATE" ->
            /\ u.link_create_query.is.link_name = ReadText(q.name)
            /\ u.link_create_query.is.link_type = Code(I_LinkType, q.link_type)
            /\ HoldsCondition(u.link_create_query.is.first, q.first)
            /\ HoldsCondition(u.link_create_query.is.second, q.second)
      [] q.type = "LINK_DELETE" -> HoldsMatch(u.link_delete_query.is.condition, q.condition)
      [] q.type = "MATCH" -> HoldsMatch(u.match_query.is.condition, q.condition)
\* and nothing of a query of another type
HoldsQuery(obj, q) ==
    /\ obj.is.type = Code(I_QueryType, q.type)
    /\ obj.is.query.set = DOMAIN Client!Member(q)
    /\ HoldsMember(obj.is.query.is, q)

-----------------------------------------------------------------------------
(* What an answer has to hold of what was found *)

ValueTypeOf == [DT_INTEGER |-> "VT_INTEGER", DT_STRING |-> "VT_STRING",
                DT_FLOATING |-> "VT_FLOATING", DT_BOOLEAN |-> "VT_BOOLEAN"]
LinkTypeFound == [LT_DIRECTED_TO |-> "LT_TO", LT_DIRECTED_FROM |-> "LT_FROM",
                  LT_DIRECTED_BOTH |-> "LT_BOTH"]

Generated == {"SCHEMA_GET_ALL", "NODE_MATCH", "MATCH"}

HoldsFoundValue(obj, v) ==
    LET u == obj.is.value.is
    IN  /\ obj.is.type = Code(I_ValueType, ValueTypeOf[v.data_type])
        /\ v.data_type = "DT_INTEGER" => u.integer = v.integer
        /\ v.data_type = "DT_STRING" => u.string_ = ReadText(v.string)
        /\ v.data_type = "DT_FLOATING" => u.floating = v.floating
        /\ v.data_type = "DT_BOOLEAN" => u.boolean = v.boolean
HoldsFoundProperty(obj, v) == obj.is.field = Null /\ HoldsFoundValue(obj.is.value, v)
HoldsFoundNode(obj, n) ==
    obj.is.name = Null /\ HoldsList(HoldsFoundProperty, obj.is.properties, n.values)
HoldsFoundLink(obj, l) ==
    obj.is.name = ReadText(l.name) /\ obj.is.type = Code(I_LinkType, LinkTypeFound[l.type])
\* of the name of an attribute the beginning is what it was
HoldsFoundAttribute(obj, a) ==
    /\ obj.is.vt = Code(I_ValueType, ValueTypeOf[a.data_type])
    /\ \E name \in Server!RunOn(a.name) : obj.is.name = ReadText(name)
HoldsFoundSchema(obj, s) ==
    /\ obj.is.name = ReadText(s.name)
    /\ HoldsList(HoldsFoundAttribute, obj.is.attributes, s.attributes)

HoldsItem(obj, type, f) ==
    /\ obj.set = {"return_items"}
                 \union (CASE type = "SCHEMA_GET_ALL" -> {"schema"}
                           [] type = "NODE_MATCH" -> {"first"}
                           [] type = "MATCH" -> {"first", "link", "second"})
    /\ type = "SCHEMA_GET_ALL" => HoldsFoundSchema(obj.is.schema, f)
    /\ type = "NODE_MATCH" => HoldsFoundNode(obj.is.first, f)
    /\ type = "MATCH" => /\ HoldsFoundNode(obj.is.first, f.first)
                         /\ HoldsFoundLink(obj.is.link, f.link)
                         /\ HoldsFoundNode(obj.is.second, f.second)
\* the elements in their order, and none of an earlier answer
HoldsResult(obj, type, found) ==
    LET u == obj.is.result.is
        Item(item, f) == HoldsItem(item, type, f)
    IN  /\ obj.is.type = Code(I_QueryResultType, found.type)
        /\ obj.is.message = Server!RESULT_CODES[found.status + 1]
        /\ type = "SCHEMA_GET" => HoldsFoundSchema(u.schema, found.schema)
        /\ IF type \in Generated THEN HoldsList(Item, u.items, found.generator) ELSE u.items = <<>>

-----------------------------------------------------------------------------
(* What is printed of it *)

PrintedValue(v) ==
    CASE v.data_type = "DT_INTEGER" -> [integer |-> v.integer]
      [] v.data_type = "DT_STRING" -> [text |-> ReadText(v.string)]
      [] v.data_type = "DT_FLOATING" -> [floating |-> v.floating]
      [] v.data_type = "DT_BOOLEAN" -> [boolean |-> v.boolean]
PrintedNode(n) == [name |-> Null, values |-> Map(PrintedValue, n.values)]
PrintedLink(l) ==
    [back |-> l.type \in {"LT_DIRECTED_FROM", "LT_DIRECTED_BOTH"}, name |-> ReadText(l.name),
     forth |-> l.type \in {"LT_DIRECTED_TO", "LT_DIRECTED_BOTH"}]
PrintedSchema(p, s) ==
    /\ p.name = ReadText(s.name)
    /\ DOMAIN p.attributes = DOMAIN s.attributes
    /\ \A i \in DOMAIN s.attributes :
          /\ p.attributes[i].type = ValueTypeOf[s.attributes[i].data_type]
          /\ \E name \in Server!RunOn(s.attributes[i].name) : p.attributes[i].name = ReadText(name)

PrintedItem(item, type, f) ==
    CASE type = "SCHEMA_GET_ALL" -> Len(item) = 1 /\ PrintedSchema(item[1], f)
      [] type = "NODE_MATCH" -> item = <<PrintedNode(f)>>
      [] type = "MATCH" -> item = <<PrintedNode(f.first), PrintedLink(f.link), PrintedNode(f.second)>>
Printed(items, type, found) ==
    CASE type = "SCHEMA_GET" ->
            Len(items) = 1 /\ Len(items[1]) = 1 /\ PrintedSchema(items[1][1], found.schema)
      [] type \in Generated ->
            /\ DOMAIN items = DOMAIN found.generator
            /\ \A i \in DOMAIN items : PrintedItem(items[i], type, found.generator[i])
      [] OTHER -> items = <<>>
=============================================================================
