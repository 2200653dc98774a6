---------------------------- MODULE MCQueryPath ----------------------------
(***************************************************************************)
(* QueryMeaning on every small node and link.                              *)
(***************************************************************************)
EXTENDS QueryMeaning

CONSTANT MaxTerms   \* bound: terms of an and, properties of a query

\* Names of which one begins like another, and numbers of which one is too
\* long for a float with a mantissa of three digits.
SomeSchemas == { << <<1>>, <<2>> >>, << <<1>>, <<1, 2>> >>, << <<1, 2>>, <<1>> >> }
Fields == { <<1>>, <<2>>, <<1, 2>> }
Numbers == {[type |-> "int", is |-> n] : n \in {-1, 2, 3}}
OtherValues == {[type |-> "int", is |-> 9], [type |-> "float", is |-> 8],
                [type |-> "text", is |-> <<1>>], [type |-> "text", is |-> <<1, 2>>],
                [type |-> "bool", is |-> TRUE]}
SomeValues == Numbers \union OtherValues

\* the grammar gives contains a text only
SomeTerms == {t \in [field : Fields, cmp : DOMAIN ConditionCmp, value : SomeValues] :
                t.cmp = "contains" => t.value.type = "text"}
FewTerms == [field : {<<1>>, <<2>>}, cmp : PlainCmps, value : {[type |-> "int", is |-> 2]}]
Long == [type |-> "int", is |-> FloatBits(DT_FLOATING)]
Properties == [field : {<<1>>, <<2>>},
               value : Numbers \union {Long, [type |-> "float", is |-> 8]}]

UpTo(n, S) == UNION {[1 .. k -> S] : k \in 1 .. n}
SomePreds == {[type |-> "has", term |-> t] : t \in SomeTerms}
             \union [type : {"and", "or"}, terms : UpTo(MaxTerms, FewTerms)]
SomePropertyLists == UpTo(2, Properties)

FirstSchema == << <<1>>, <<2>> >>
HasTwo(cmp) == [type |-> "has", term |-> [field |-> <<1>>, cmp |-> cmp, value |-> [type |-> "int", is |-> 2]]]
Pair == [type |-> "and", terms |-> <<HasTwo("gt").term, [HasTwo("lt").term EXCEPT !.field = <<2>>]>>]
Small == [type : {"int"}, is : {2, 3}]
LinkPreds == {<<>>, <<HasTwo("gt")>>, <<HasTwo("eq")>>, <<Pair>>}
SomeLinkQueries ==
    {q \in [first : [schema : {"s"}, preds : LinkPreds] \union [schema : {NoSchema}, preds : {<<>>}],
            word : {"in", "out", "both"}, name : {<<1>>, <<1, 2>>},
            second : {<<>>} \union [{1} -> [schema : {"s", "t"}, preds : LinkPreds \ {<<>>}]],
            where : {<<>>, <<HasTwo("eq")>>, <<HasTwo("eq"), HasTwo("gt")>>}] :
        q.first.schema = NoSchema => q.where = <<>>}
SomeLinks == [type : {"TO", "FROM", "BOTH"}, name : {<<1>>, <<2>>}]
SomeSeconds == [schema : {"s", "t"}, row : {<<v, v>> : v \in Small}]
=============================================================================
