----------------------------- MODULE NodeStore -----------------------------
(***************************************************************************)
(* The nodes of the database: a doubly linked list in the file, whose ends *)
(* the database header holds.  A node refers to one value block per        *)
(* attribute, and the value block of a text to a string block.             *)
(*                                                                         *)
(* The storage layer is abstracted to what BlockStore guarantees: an       *)
(* insertion is given some block that is not in use.  A query that deletes *)
(* or updates works through a vector of nodes it collected beforehand;     *)
(* each element of the vector is a step of its own.                        *)
(***************************************************************************)
EXTENDS EntityList, Functions

CONSTANT MaxValues      \* bound: attributes of a node, and of an update

ASSUME NodeStoreAssumption == MaxValues \in Nat

VARIABLES
    used,           \* the blocks that are not free
    first, last,    \* db_header->node_first, node_last
    node,           \* the node blocks in use: values, prev, next
    value,          \* the value blocks in use: the pointer of the text, or Null
    todo            \* what is left to do of the running query

vars == <<used, first, last, node, value, todo>>

Kinds == {"string", "plain"}
KindSeqs == UNION {[1 .. n -> Kinds] : n \in 0 .. MaxValues}

\* node_next with a condition that accepts every node, called until the end
Iterated == Walk(node, first)

Init ==
    /\ used = {}
    /\ first = Null /\ last = Null
    /\ node = <<>> /\ value = <<>>
    /\ todo = <<>>

\* the blocks that create_node asks for: one for each text, one for each
\* value, one for the node itself
Parts(kinds) ==
    {<<"node", 0>>} \union {<<"value", i>> : i \in DOMAIN kinds}
        \union {<<"string", i>> : i \in {k \in DOMAIN kinds : kinds[k] = "string"}}

\* create_node, the blocks of its parts being where at says
LastKept(p) == IF last = Null THEN p ELSE last
NewLast(p) == p

Create(kinds, at) ==
    LET p == at[<<"node", 0>>]
        vals == [i \in DOMAIN kinds |-> at[<<"value", i>>]]
        text(v) == LET i == CHOOSE k \in DOMAIN kinds : vals[k] = v
                   IN  IF kinds[i] = "string" THEN at[<<"string", i>>] ELSE Null
        linked == SetNext(node, last, p)
    IN  /\ todo = <<>>
        /\ used' = used \union Range(at)
        /\ value' = [v \in DOMAIN value \union Range(vals) |->
                        IF v \in Range(vals) THEN text(v) ELSE value[v]]
        /\ node' = [q \in DOMAIN node \union {p} |->
                        IF q = p THEN [values |-> vals, prev |-> last, next |-> Null]
                        ELSE linked[q]]
        /\ first' = IF first = Null THEN p ELSE first
        /\ last' = NewLast(p)
        /\ UNCHANGED todo

\* match_nodes and node_vector_fetch_all: the nodes that the condition
\* accepts, in the order of the list, each with a copy of its block
Vector(accepted) == Fetched(Iterated, accepted)

StartDelete(accepted) ==
    /\ todo = <<>>
    /\ todo' = LET v == Vector(accepted)
               IN  [k \in DOMAIN v |-> [op |-> "delete", at |-> v[k], copy |-> node[v[k]]]]
    /\ UNCHANGED <<used, first, last, node, value>>

\* one pass of the loop of delete_nodes: the node is read again, its blocks
\* are given back, then the list is closed around it
RereadCopy(job) == job.copy
Reread(job) == node[job.at]

BlocksOfNoText(p, nd) == {p} \union Range(nd.values)
BlocksOf(p, nd) ==
    {p} \union Range(nd.values) \union ({value[v] : v \in Range(nd.values)} \ {Null})

DeleteNode ==
    /\ todo # <<>> /\ Head(todo).op = "delete"
    /\ LET p == Head(todo).at
           nd == Reread(Head(todo))
       IN  /\ used' = used \ BlocksOf(p, nd)
           /\ value' = Restrict(value, DOMAIN value \ Range(nd.values))
           /\ node' = Restrict(CloseAround(node, nd), DOMAIN node \ {p})
           /\ first' = IF p = first THEN nd.next ELSE first
           /\ last' = IF p = last THEN nd.prev ELSE last
    /\ todo' = Tail(todo)

\* update_nodes: for each node of the vector, for each attribute to update
StartUpdate(accepted, changes) ==
    /\ todo = <<>>
    /\ LET v == Vector(accepted)
           n == Len(changes)
       IN  /\ \A k \in DOMAIN v, j \in DOMAIN changes :
                 changes[j].index \in DOMAIN node[v[k]].values
           /\ todo' = [k \in 1 .. n * Len(v) |->
                          [op |-> "update", at |-> v[((k-1) \div n) + 1],
                           change |-> changes[((k-1) % n) + 1]]]
    /\ UNCHANGED <<used, first, last, node, value>>

\* value_update: a text is given back and inserted anew; a type that does not
\* fit ends the query, with the changes made so far
UpdateValue ==
    /\ todo # <<>> /\ Head(todo).op = "update"
    /\ LET v == node[Head(todo).at].values[Head(todo).change.index]
           old == value[v]
           isText == Head(todo).change.kind = "string"
       IN  \/ /\ (old # Null) # isText
              /\ todo' = <<>>
              /\ UNCHANGED <<used, value>>
           \/ /\ old = Null /\ ~isText
              /\ todo' = Tail(todo)
              /\ UNCHANGED <<used, value>>
           \/ /\ old # Null /\ isText
              /\ \E new \in Ptr \ (used \ {old}) :
                    /\ used' = (used \ {old}) \union {new}
                    /\ value' = [value EXCEPT ![v] = new]
              /\ todo' = Tail(todo)
    /\ UNCHANGED <<first, last, node>>

Changes == UNION {[1 .. n -> [index : 1 .. MaxValues, kind : Kinds]] : n \in 1 .. MaxValues}

Next ==
    \/ \E kinds \in KindSeqs : \E at \in Injection(Parts(kinds), Ptr \ used) : Create(kinds, at)
    \/ \E accepted \in SUBSET DOMAIN node : StartDelete(accepted)
    \/ \E accepted \in SUBSET DOMAIN node, changes \in Changes : StartUpdate(accepted, changes)
    \/ DeleteNode
    \/ UpdateValue

Spec == Init /\ [][Next]_vars

-----------------------------------------------------------------------------
(* Properties *)

\* The list is the same read from either end and it holds every node: the
\* pointers of neighbours agree, the header holds the two ends, and no node
\* in use is left out of an iteration, also while a query is deleting several
\* neighbours of a vector one after the other.
ListSound == DoublyLinked(node, first, last)

Strings == {value[v] : v \in DOMAIN value} \ {Null}

\* Every block in use has exactly one owner: a value block one node, a string
\* block one value.  Nothing is given back twice, nothing in use is given
\* back, nothing is left in use when its owner is gone, and the vector of the
\* running query only refers to nodes that still exist.
OwnedOnce ==
    /\ used = DOMAIN node \union DOMAIN value \union Strings
    /\ DOMAIN node \intersect DOMAIN value = {}
    /\ (DOMAIN node \union DOMAIN value) \intersect Strings = {}
    /\ DOMAIN value = UNION {Range(node[p].values) : p \in DOMAIN node}
    /\ \A p, q \in DOMAIN node :
          \A i \in DOMAIN node[p].values, j \in DOMAIN node[q].values :
             node[p].values[i] = node[q].values[j] => p = q /\ i = j
    /\ \A v, w \in DOMAIN value : value[v] = value[w] /\ value[v] # Null => v = w
    /\ \A k \in DOMAIN todo : todo[k].at \in DOMAIN node

\* The nodes in the order of iteration are a sequence in order of creation.
Entities == INSTANCE EntitySeq WITH seq <- Iterated
EntitiesSpec == Entities!Spec
=============================================================================
