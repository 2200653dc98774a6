----------------------------- MODULE LinkStore -----------------------------
(***************************************************************************)
(* The links of the graph: a doubly linked list in the file, beside the    *)
(* list of the nodes.  A link owns the block of its name and refers to the *)
(* blocks of the two nodes it joins.                                       *)
(*                                                                         *)
(* The nodes are abstracted to the sequence that NodeStore is checked to   *)
(* implement (EntitySeq), each with one attribute for conditions to be     *)
(* about.  An insertion is given some block that is not in use, as         *)
(* BlockStore guarantees.  The queries on several links work through a     *)
(* vector of jobs; each job is a step.                                     *)
(***************************************************************************)
EXTENDS EntityList, Functions, SequencesExt

CONSTANTS
    Scores,     \* values of the attribute of a node
    Conditions, \* conditions on a node: each a set of the scores that satisfy it
    Types,      \* LT_DIRECTED_TO, LT_DIRECTED_FROM, LT_DIRECTED_BOTH
    AnyType,    \* LT_ANY
    Names,      \* names of links, sequences of letters
    MaxNodes    \* bound: nodes there are at a time

ASSUME LinkStoreAssumption == AnyType \notin Types /\ Conditions \subseteq SUBSET Scores

VARIABLES
    nodes,          \* the nodes in the order of their list: at, score
    link,           \* the link blocks in use
    first, last,    \* db_header->link_first, link_last
    used,           \* the blocks in use
    todo            \* what is left to do of the running query

vars == <<nodes, link, first, last, used, todo>>

\* bound: a query that creates so many links does not run out of addresses
Room(links) == 2 * links <= Cardinality(Ptr) - Cardinality(used)

NodeAt == {nodes[i].at : i \in DOMAIN nodes}
ScoreOf(p) == nodes[CHOOSE i \in DOMAIN nodes : nodes[i].at = p].score

Iterated == Walk(link, first)

Init ==
    /\ nodes = <<>>
    /\ link = <<>>
    /\ first = Null /\ last = Null
    /\ used = {}
    /\ todo = <<>>

\* create_node and delete_nodes, as EntitySeq has them
AddNode(score, p) ==
    /\ todo = <<>>
    /\ Len(nodes) < MaxNodes
    /\ nodes' = Append(nodes, [at |-> p, score |-> score])
    /\ used' = used \union {p}
    /\ UNCHANGED <<link, first, last, todo>>

DropNode(i) ==
    /\ todo = <<>>
    /\ nodes' = RemoveAt(nodes, i)
    /\ used' = used \ {nodes[i].at}
    /\ UNCHANGED <<link, first, last, todo>>

\* execute_link_create: both vectors are fetched, then each node of the first
\* is linked with each node of the second
Matched(cond) == Fetched(nodes, {nd \in Range(nodes) : nd.score \in cond})

StartCreate(name, type, cond1, cond2) ==
    /\ todo = <<>>
    /\ LET ones == Matched(cond1)
           twos == Matched(cond2)
           n == Len(twos)
       IN  /\ Room(Len(ones) * n)
           /\ todo' = [k \in 1 .. Len(ones) * n |->
                          [op |-> "create", name |-> name, type |-> type,
                           one |-> ones[((k-1) \div n) + 1].at,
                           two |-> twos[((k-1) % n) + 1].at]]
    /\ UNCHANGED <<nodes, link, first, last, used>>

\* link_create: the name is inserted, then the link
NextSet(p) == SetNext(link, last, p)

CreateLink(n, p) ==
    /\ todo # <<>> /\ Head(todo).op = "create"
    /\ n # p
    /\ LET job == Head(todo)
       IN  link' = [q \in DOMAIN link \union {p} |->
                       IF q = p
                       THEN [name |-> job.name, name_at |-> n, type |-> job.type,
                             one |-> job.one, two |-> job.two,
                             prev |-> last, next |-> Null]
                       ELSE NextSet(p)[q]]
    /\ first' = IF first = Null THEN p ELSE first
    /\ last' = p
    /\ used' = used \union {n, p}
    /\ todo' = Tail(todo)
    /\ UNCHANGED nodes

\* check_link_condition: string_string_cmp compares as many letters as the
\* shorter of the two names has
SameName(a, b) == IsPrefix(a, b) \/ IsPrefix(b, a)
LinkAccepted(l, name, type) ==
    /\ type = AnyType \/ type = l.type
    /\ SameName(name, l.name)

\* execute_link_delete: match with RETURN_LINK.  The schemas of the node
\* conditions are not looked up here (update_node_condition), and without
\* its schema check_node_condition accepts every node.
\*
\* create_match_condition and create_link_condition leave is_null as it was in
\* memory: if either is not zero, the name and the type are ignored as well.
Doomed(name, type, isNull) ==
    Fetched(Iterated, {p \in DOMAIN link : isNull \/ LinkAccepted(link[p], name, type)})

StartDelete(name, type, cond1, cond2) ==
    /\ todo = <<>>
    /\ \E isNull \in BOOLEAN :
          LET v == Doomed(name, type, isNull)
          IN  todo' = [k \in DOMAIN v |->
                          [op |-> "delete", at |-> v[k], copy |-> link[v[k]]]]
    /\ UNCHANGED <<nodes, link, first, last, used>>

\* one pass of the loop of link_delete: the link is read again, the list is
\* closed around it, then its blocks are given back
RereadCopy(job) == job.copy
Reread(job) == link[job.at]

FreedLinkOnly(p, l) == {p}
Freed(p, l) == {p, l.name_at}

FirstKept(p, l) == first
FirstMoved(p, l) == IF p = first THEN l.next ELSE first
LastMoved(p, l) == IF p = last THEN l.prev ELSE last

DeleteLink ==
    /\ todo # <<>> /\ Head(todo).op = "delete"
    /\ LET p == Head(todo).at
           l == Reread(Head(todo))
       IN  /\ link' = Restrict(CloseAround(link, l), DOMAIN link \ {p})
           /\ first' = FirstMoved(p, l)
           /\ last' = LastMoved(p, l)
           /\ used' = used \ Freed(p, l)
    /\ todo' = Tail(todo)
    /\ UNCHANGED nodes

Next ==
    \/ \E score \in Scores, p \in Ptr \ used : AddNode(score, p)
    \/ \E i \in DOMAIN nodes : DropNode(i)
    \/ \E name \in Names, type \in Types, c1, c2 \in Conditions :
          StartCreate(name, type, c1, c2)
    \/ \E n, p \in Ptr \ used : CreateLink(n, p)
    \/ \E name \in Names, type \in Types \union {AnyType}, c1, c2 \in Conditions :
          StartDelete(name, type, c1, c2)
    \/ DeleteLink

Spec == Init /\ [][Next]_vars

-----------------------------------------------------------------------------
(* Properties *)

\* The list of links is whole: it reads the same from either end, holds every
\* link and ends where the header says, also in the middle of a query.
ListSound == DoublyLinked(link, first, last)

\* Every block in use is a node, a link or the name of exactly one link, and
\* no query gives back a block of another one.
OwnedOnce ==
    /\ used = NodeAt \union DOMAIN link \union {link[p].name_at : p \in DOMAIN link}
    /\ Cardinality(used) = Len(nodes) + 2 * Cardinality(DOMAIN link)

\* The links in the order of iteration are a sequence in order of creation.
Entities == INSTANCE EntitySeq WITH seq <- Iterated
EntitiesSpec == Entities!Spec

\* Both ends of every link are nodes.
LinksJoinNodes == \A p \in DOMAIN link : {link[p].one, link[p].two} \subseteq NodeAt

\* It is the deletion of a node, and nothing else, that leaves a link to what
\* is not a node: a query on links, which takes up the nodes it fetched one
\* pair after the other, never makes one.
OnlyNodeDropDangles ==
    [][ LinksJoinNodes /\ NodeAt \subseteq NodeAt' => LinksJoinNodes' ]_vars

\* README.md:190-204: dropE deletes the links between the nodes that satisfy
\* the conditions, as the match with the same conditions shows them.
DropsOnlyMatched ==
    [][ \A name \in Names, type \in Types, c1, c2 \in Conditions :
          StartDelete(name, type, c1, c2) =>
              \A k \in DOMAIN todo' :
                  LET l == link[todo'[k].at]
                  IN  {l.one, l.two} \subseteq NodeAt =>
                          ScoreOf(l.one) \in c1 /\ ScoreOf(l.two) \in c2 ]_vars
=============================================================================
