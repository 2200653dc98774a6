---------------------------- MODULE QueryMeaning ----------------------------
(***************************************************************************)
(* Queries with a condition on one or more attributes, queries that set    *)
(* attributes, and queries for links, on any node or link, against what    *)
(* they mean.  A step applies the operators that QueryPath and LinkPath    *)
(* translate from the code to one query and one node or link; the handlers *)
(* and the lists that they go through are in GraphStore, NodeStore and     *)
(* LinkStore.                                                              *)
(***************************************************************************)
EXTENDS LinkPath, FiniteSets

CONSTANTS
    Schemas,        \* of each schema the names of its attributes
    Values,         \* what an attribute may hold
    Terms,          \* a field, a comparison and a value
    Preds,          \* a has, an and or an or of terms
    PropertyLists,  \* lists of a field and a value each
    LinkSchema,     \* for links: the schema of the first node,
    LinkValues,     \* what an attribute of it may hold,
    LinkQueries,    \* the queries,
    Links,          \* the links,
    Seconds         \* and their other nodes

Predicates == [type : {"has"}, term : Terms]
              \union [type : {"and", "or"}, terms : Seq(Terms) \ {<<>>}]

\* A condition has one predicate at most, and none without a schema; only the
\* first condition may have no schema.
IsLinkQuery(q) ==
    /\ q.word \in DOMAIN LinkType /\ q.name \in Seq(Nat)
    /\ q.first.preds \in Seq(Predicates) /\ Len(q.first.preds) <= 1
    /\ q.first.schema = NoSchema => q.first.preds = <<>> /\ q.where = <<>>
    /\ q.second \in Seq(Range(q.second)) /\ Len(q.second) <= 1
    /\ \A k \in DOMAIN q.second :
          /\ q.second[k].preds \in Seq(Predicates) /\ Len(q.second[k].preds) <= 1
          /\ q.second[k].schema # NoSchema
    /\ q.where \in Seq(Predicates)

ASSUME QueryMeaningAssumption ==
    /\ \A s \in Schemas : s \in Seq(Seq(Nat))
    /\ \A v \in Values : {"type", "is"} \subseteq DOMAIN v
    /\ \A t \in Terms : t.cmp \in DOMAIN ConditionCmp
    /\ Preds \subseteq Predicates
    /\ \A props \in PropertyLists : props \in Seq(Range(props))
    /\ \A q \in LinkQueries : IsLinkQuery(q)
    /\ \A n \in Seconds : DOMAIN n.row = DOMAIN LinkSchema

VARIABLES
    attrs,      \* the names of the attributes of the schema
    row,        \* the values of a node of it
    query,      \* the query
    answer      \* what became of it

queryVars == <<attrs, row, query, answer>>

QueryInit ==
    /\ attrs \in Schemas
    /\ row \in [DOMAIN attrs -> Values]
    /\ query = [op |-> "none"]
    /\ answer = [op |-> "none"]

IsNumber(v) == v.type \in {"int", "float"}

Find ==
    /\ query.op = "none"
    /\ \E p \in Preds : \E v \in Found(p, attrs, row) :
          /\ query' = [op |-> "find", pred |-> p]
          /\ answer' = [op |-> "find", found |-> v]
    /\ UNCHANGED <<attrs, row>>

Update ==
    /\ query.op = "none"
    /\ \A i \in DOMAIN row : IsNumber(row[i])
    /\ \E props \in PropertyLists :
          /\ \A k \in DOMAIN props :
                IsNumber(props[k].value) /\ AttributeIndex(attrs, props[k].field) \in DOMAIN row
          /\ query' = [op |-> "update", props |-> props]
          /\ answer' = [op |-> "update", row |-> Updated(props, attrs, row)]
    /\ UNCHANGED <<attrs, row>>

Create ==
    /\ query.op = "none"
    /\ \E props \in PropertyLists :
          /\ DOMAIN props = DOMAIN attrs
          /\ query' = [op |-> "create", props |-> props]
          /\ answer' = [op |-> "create", row |-> Created(props)]
    /\ UNCHANGED <<attrs, row>>

Memories == [match : BOOLEAN, link : BOOLEAN, second : BOOLEAN, cross : BOOLEAN]

\* Links between a node with numbers and another one, of this schema or not
FindLink ==
    /\ query.op = "none"
    /\ attrs = LinkSchema /\ \A i \in DOMAIN row : row[i] \in LinkValues
    /\ \E q \in LinkQueries, l \in Links, two \in Seconds, m \in Memories :
          \E v \in LinkFound(q, m, attrs, l, [schema |-> "s", row |-> row], two) :
                /\ query' = [op |-> "link", q |-> q, link |-> l, two |-> two, memory |-> m]
                /\ answer' = [op |-> "link", found |-> v]
    /\ UNCHANGED <<attrs, row>>

QueryNext == Find \/ Update \/ Create \/ FindLink

QuerySpec == QueryInit /\ [][QueryNext]_queryVars

-----------------------------------------------------------------------------
(* What a condition means *)

MeantOrders ==
    [gt |-> {"greater"}, ge |-> {"greater", "equal"}, lt |-> {"less"},
     le |-> {"less", "equal"}, eq |-> {"equal"}, neq |-> {"less", "greater", "undefined"},
     contains |-> {}]

\* for numbers; anything else is in no order with a number
MeantOrder(v, w) == IF IsNumber(v) /\ IsNumber(w) THEN OrderOf(v.is, w.is) ELSE "undefined"

MeantTerm(t, values) ==
    \E i \in DOMAIN attrs : attrs[i] = t.field /\ MeantOrder(values[i], t.value) \in MeantOrders[t.cmp]

MeantBy(pred, values) ==
    CASE pred.type = "has" -> MeantTerm(pred.term, values)
      [] pred.type = "and" -> \A k \in DOMAIN pred.terms : MeantTerm(pred.terms[k], values)
      [] pred.type = "or"  -> \E k \in DOMAIN pred.terms : MeantTerm(pred.terms[k], values)
Meant(pred) == MeantBy(pred, row)

\* the terms of a predicate
TermsOf(pred) == IF pred.type = "has" THEN {pred.term} ELSE Range(pred.terms)

\* Terms whose attribute exists and cannot be taken for another one, on
\* numbers that a float holds.
Exact(v) == IsNumber(v) /\ Number(v) = v.is
Unmistakable(i) == \A j \in DOMAIN attrs : j # i => ~AttributeNamed(attrs[j], attrs[i])
Clear(t, values) ==
    /\ Exact(t.value)
    /\ \E i \in DOMAIN attrs : attrs[i] = t.field /\ Exact(values[i]) /\ Unmistakable(i)

PlainCmps == {"gt", "lt", "eq"}
ClearPred(pred, values) == \A t \in TermsOf(pred) : Clear(t, values)
PlainPred(pred, values) == ClearPred(pred, values) /\ \A t \in TermsOf(pred) : t.cmp \in PlainCmps
\* the parser keeps all of its terms, and the server uses them
WholePred(pred) == pred.type = "has" \/ (pred.type = "and" /\ Len(pred.terms) <= 2)

AskedFor == query.op = "find" /\ ClearPred(query.pred, row)
AskedPlainly == query.op = "find" /\ PlainPred(query.pred, row)

\* the predicates of a query for links, with the values they are about
About(q, two) == {<<q.first.preds[k], row>> : k \in DOMAIN q.first.preds}
                 \union {<<q.where[k], row>> : k \in DOMAIN q.where}
                 \union UNION {{<<q.second[j].preds[k], two.row>> : k \in DOMAIN q.second[j].preds} :
                                  j \in DOMAIN q.second}
LinkAsked == query.op = "link" /\ \A a \in About(query.q, query.two) : PlainPred(a[1], a[2])

\* A link that is asked for: in the direction of the word and with the name,
\* between nodes that satisfy their conditions, of which the first satisfies
\* the where.
Direction(word) == IF word = "both" THEN "BOTH" ELSE IF word \in {"in", "from"} THEN "FROM" ELSE "TO"
NamesApart(a, b) == a = b \/ ~(IsPrefix(a, b) \/ IsPrefix(b, a))
MeantNode(cond, schema, values) ==
    /\ cond.schema \in {NoSchema, schema}
    /\ \A k \in DOMAIN cond.preds : MeantBy(cond.preds[k], values)
MeantBetween(q, link, two) ==
    /\ link.type = Direction(q.word)
    /\ link.name = q.name
    /\ MeantNode(q.first, "s", row)
    /\ \A k \in DOMAIN q.second : MeantNode(q.second[k], two.schema, two.row)
    /\ \A k \in DOMAIN q.where : Meant(q.where[k])
MeantLink == MeantBetween(query.q, query.link, query.two)

(* Properties *)

\* A query with one has, whichever its comparison, finds no node that it does
\* not mean: a drop or an update with it touches nothing else.
NothingElseFound ==
    AskedFor /\ query.pred.type = "has" => (answer.found => Meant(query.pred))

\* A query made of gt, lt and eq, alone, in an and or in an or, finds every
\* node that it means.
NothingMissed == AskedPlainly => (Meant(query.pred) => answer.found)

\* An and of two such terms, and a has alone, finds just the nodes it means,
\* through the list of the parser, both conversions and the comparison.
PairExact == AskedPlainly /\ WholePred(query.pred) => answer.found = Meant(query.pred)

\* A query for links finds every link that is asked for, whatever was in the
\* memory of its conditions: a flag that nobody set drops a condition and
\* never adds one.
LinksNotMissed == LinkAsked => (MeantLink => answer.found)

\* It finds nothing else if that memory held zeros, the where has one term
\* and no name begins like another one.
LinksExact ==
    LinkAsked /\ (\A flag \in DOMAIN query.memory : ~query.memory[flag])
        /\ (\A a \in About(query.q, query.two) : WholePred(a[1]))
        /\ Len(query.q.where) <= 1 /\ NamesApart(query.q.name, query.link.name)
      => answer.found = MeantLink

\* The value that an update with a property of its own gives to attribute i.
LastFor(i) == LET ps == query.props
                  k == CHOOSE k \in DOMAIN ps :
                          /\ ps[k].field = attrs[i]
                          /\ \A m \in k+1 .. Len(ps) : ps[m].field # attrs[i]
              IN  ps[k].value

\* No attribute can be taken for another one, and all properties are of one.
AllNamed ==
    /\ \A i \in DOMAIN attrs : Unmistakable(i)
    /\ \A k \in DOMAIN query.props : \E i \in DOMAIN attrs : attrs[i] = query.props[k].field
IsUpdated(i) == \E k \in DOMAIN query.props : query.props[k].field = attrs[i]

\* the bytes of an integer that value_update takes for those of a float
Misread(v) == v.is = FloatBits(DT_FLOATING)

\* The values reach the node as they were written: on creation in the order
\* of the properties, which is the order of the attributes, and on an update
\* the one that was written last for an attribute is the one it has after, if
\* both are integers and the bytes are not those of the float 2.0, or the
\* attribute is a float and a float holds the value.  No other attribute
\* changes.
ValuesAsWritten ==
    /\ query.op = "create" => \A k \in DOMAIN query.props : answer.row[k] = query.props[k].value
    /\ query.op = "update" /\ AllNamed =>
          \A i \in DOMAIN row :
             IF ~IsUpdated(i) THEN answer.row[i] = row[i]
             ELSE (\/ row[i].type = "float" /\ Exact(LastFor(i))
                   \/ row[i].type = "int" /\ LastFor(i).type = "int" /\ ~Misread(LastFor(i)))
                  => answer.row[i] = [row[i] EXCEPT !.is = LastFor(i).is]
=============================================================================
