--------------------------- MODULE MCConversation ---------------------------
(* Queries of every type: one value and one name of each kind in turn, with  *)
(* texts without letters among them.                                         *)
EXTENDS Conversation

Texts == {"", "t"}
Values ==
    {[vt |-> "VT_INTEGER", integer |-> 7], [vt |-> "VT_FLOATING", floating |-> 5],
     [vt |-> "VT_BOOLEAN", boolean |-> TRUE]}
    \union [vt : {"VT_STRING"}, string : Texts]
Seven == [vt |-> "VT_INTEGER", integer |-> 7]

Term(field, cmp, value) ==
    [type |-> "PT_TERM",
     term |-> [left |-> [type |-> "CMPT_FIELD", field_name |-> field],
               compare |-> [cmp |-> cmp, with |-> [type |-> "CMPT_VALUE", value |-> value]]]]
And(terms) == [type |-> "PT_AND", and |-> terms]
Or(terms) == [type |-> "PT_OR", or |-> terms]
SevenIs(cmp) == Term("a", cmp, Seven)

\* has with every comparison and value; and, or, and an and inside an and
Predicates ==
    {Term(f, c, v) : f \in {"", "a"}, c \in {"CMP_GT", "CMP_EQ"}, v \in Values}
    \union {SevenIs(c) : c \in ToSet(I_Comparation)}
    \union {And(<<SevenIs("CMP_GT"), Term("b", "CMP_LT", Seven)>>),
            Or(<<SevenIs("CMP_GT"), SevenIs("CMP_LT")>>),
            And(<<SevenIs("CMP_GT"), And(<<SevenIs("CMP_LT")>>)>>)}

Condition(is_null, schema, predicates) ==
    [is_null |-> is_null, schema |-> schema, predicates |-> predicates]

\* g.V(), g.V("") and g.V("s") with and without a condition
All == Condition(TRUE, Null, <<>>)
SomeConditions == {All, Condition(FALSE, "", <<>>), Condition(FALSE, "s", <<>>),
                   Condition(FALSE, "s", <<SevenIs("CMP_LT")>>)}
Conditions == SomeConditions \union {Condition(FALSE, "s", <<p>>) : p \in Predicates}

\* a second node, with a flag that nobody set, or none
SecondConditions == {Null} \union {Condition(b, "u", <<SevenIs("CMP_GT")>>) : b \in BOOLEAN}
CrossConditions ==
    {All, Condition(FALSE, Null, <<SevenIs("CMP_EQ")>>),
     Condition(TRUE, Null, <<SevenIs("CMP_EQ"), Term("b", "CMP_GT", Seven)>>)}
LinkConditions == [is_null : BOOLEAN, link_type : DOMAIN LinkTypeOf, link_name : Texts]
Match(is_null, first, second, cross, link) ==
    [is_null |-> is_null, node_first_condition |-> first, node_second_condition |-> second,
     node_cross_condition |-> cross, link_condition |-> link]
MatchConditions ==
    {Match(b, All, Null, All, l) : b \in BOOLEAN, l \in LinkConditions}
    \union {Match(FALSE, first, second, cross, [is_null |-> TRUE, link_type |-> "LT_TO", link_name |-> "t"]) :
                first \in {All, Condition(FALSE, "s", <<SevenIs("CMP_LT")>>)},
                second \in SecondConditions, cross \in CrossConditions}

Property(field, value) == [field |-> field, value |-> value]
Properties ==
    {<<Property("a", v)>> : v \in Values} \union {<<Property("b", Seven), Property("a", v)>> : v \in Values}
Attribute(name, vt) == [name |-> name, vt |-> vt]

MCQueries ==
    {[type |-> "SCHEMA_CREATE",
      schema |-> [name |-> n, attributes |-> <<Attribute(m, "VT_INTEGER"), Attribute("b", vt)>>]] :
        n \in Texts, m \in Texts, vt \in DOMAIN DataTypeOf}
    \union [type : {"SCHEMA_GET", "SCHEMA_DELETE"}, schema_name : Texts]
    \union {[type |-> "SCHEMA_GET_ALL"]}
    \union [type : {"NODE_CREATE"}, schema_name : Texts,
            node : [name : {Null, "n"}, properties : Properties]]
    \union [type : {"NODE_UPDATE"}, condition : SomeConditions, properties : Properties]
    \union [type : {"NODE_DELETE", "NODE_MATCH"}, condition : Conditions]
    \union [type : {"LINK_CREATE"}, name : Texts, link_type : DOMAIN LinkTypeOf,
            first : SomeConditions, second : SomeConditions]
    \union [type : {"LINK_DELETE", "MATCH"}, condition : MatchConditions]

MCStoredSchemas ==
    {[name |-> "s", attributes |-> <<>>],
     [name |-> "", attributes |-> <<[name |-> "a", data_type |-> "DT_FLOATING"],
                                    [name |-> "", data_type |-> "DT_STRING"]>>]}
MCStoredNodes ==
    {[values |-> <<>>],
     [values |-> <<[data_type |-> "DT_INTEGER", integer |-> 7], [data_type |-> "DT_STRING", string |-> "t"],
                   [data_type |-> "DT_BOOLEAN", boolean |-> TRUE], [data_type |-> "DT_STRING", string |-> ""],
                   [data_type |-> "DT_FLOATING", floating |-> 5]>>]}
MCStoredLinks ==
    {[name |-> "l", type |-> "LT_DIRECTED_TO"], [name |-> "", type |-> "LT_DIRECTED_FROM"],
     [name |-> "l", type |-> "LT_DIRECTED_BOTH"]}
=============================================================================
