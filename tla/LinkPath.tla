------------------------------ MODULE LinkPath ------------------------------
(***************************************************************************)
(* A query for links, g.V(..).both(..).V(..).where(..), between its text   *)
(* and one link of the list with the two nodes it joins.  The conditions   *)
(* on nodes are those of QueryPath.                                        *)
(*                                                                         *)
(* A query has a condition on the first node, a word for the direction, a  *)
(* name, at most one condition on the second node and the predicates of a  *)
(* where.  A condition names a schema, or NoSchema if there is none, and   *)
(* has at most one predicate.  A node has a schema and values.             *)
(***************************************************************************)
EXTENDS QueryPath

CONSTANT NoSchema   \* V() without the name of a schema

-----------------------------------------------------------------------------
(* lexer.l and parser.y *)

LinkTypeTurned == [in |-> "TO", from |-> "FROM", out |-> "FROM", to |-> "TO", both |-> "BOTH"]
LinkType == [in |-> "FROM", from |-> "FROM", out |-> "TO", to |-> "TO", both |-> "BOTH"]

\* The fields is_null of the parts of a query.  Only the condition that starts
\* a query, and the absence of a second node and of a where, set them: the
\* others stay as malloc gave them (memory).
IsNull(q, memory) ==
    [match  |-> memory.match,
     link   |-> memory.link,
     first  |-> q.first.schema = NoSchema,
     second |-> q.second = <<>> \/ memory.second,
     cross  |-> q.where = <<>> \/ memory.cross]

\* convert_match_condition, twice: of the predicates of each condition the
\* first counts (convert_node_condition)
Counted(preds) == IF preds = <<>> THEN <<>> ELSE Conditions(Parsed(preds[1]))

-----------------------------------------------------------------------------
(* db_lib *)

\* match: without a condition there is none on the link either
LinkIsNull(null) == null.match \/ null.link

\* check_link_condition
LinkTaken(q, null, link) ==
    \/ LinkIsNull(null)
    \/ /\ LinkType[q.word] = link.type
       /\ IsPrefix(q.name, link.name) \/ IsPrefix(link.name, q.name)

\* check_node_condition
NodeTakenAnySchema(cond, null, attrs, node) ==
    IF null THEN {TRUE} ELSE Verdicts(Counted(cond.preds), attrs, node.row)
NodeTaken(cond, null, attrs, node) ==
    IF null THEN {TRUE}
    ELSE IF node.schema # cond.schema THEN {FALSE}
    ELSE Verdicts(Counted(cond.preds), attrs, node.row)

\* check_cross_node_condition: the field on the left is one of the first node,
\* and on the right the grammar has values only.  (Without a schema for the
\* first node the server ends: such a query is not answered.)
CrossTaken(q, null, attrs, one) ==
    IF null.cross THEN {TRUE} ELSE Verdicts(Counted(q.where), attrs, one.row)

\* link_next: whether the link is skipped or returned with its nodes
Checks(q, null, attrs, link, one, two) ==
    << {LinkTaken(q, null, link)},
       NodeTaken(q.first, null.first, attrs, one),
       IF null.second THEN {TRUE} ELSE NodeTaken(q.second[1], FALSE, attrs, two),
       CrossTaken(q, null, attrs, one) >>

LinkFound(q, memory, attrs, link, one, two) ==
    LET checks == Checks(q, IsNull(q, memory), attrs, link, one, two)
    IN  {b \in BOOLEAN : IF b THEN \A k \in DOMAIN checks : TRUE \in checks[k]
                              ELSE \E k \in DOMAIN checks : FALSE \in checks[k]}
=============================================================================
