----------------------------- MODULE GraphStore -----------------------------
(***************************************************************************)
(* Schemas, nodes and links together, over one set of addresses that are   *)
(* used again.  A node holds the address of its schema and a link the      *)
(* addresses of its two nodes; nothing is told when a block goes away.     *)
(*                                                                         *)
(* Nodes and links are sets here (their order is in NodeStore and          *)
(* LinkStore), the blocks they own besides are left out, and a query is    *)
(* one step.  Entities carry a number that the program does not have: it   *)
(* tells two entities apart that had the same address.                     *)
(***************************************************************************)
EXTENDS Integers, Sequences, FiniteSets, Functions, SequencesExt

CONSTANTS
    Ptr,        \* the addresses where a block may be
    Null,       \* nullptr, and no answer
    Names,      \* names of schemas, sequences of letters
    NoName,     \* V() without a name
    MaxBorn     \* bound: entities ever created

ASSUME GraphStoreAssumption ==
    /\ Null \notin Ptr /\ NoName \notin Names \union Ptr \union {Null}
    /\ MaxBorn \in Nat

VARIABLES
    schemas,    \* the schemas that an iteration reaches, in its order
    reaches,    \* whether schema_last is the last of them
    nodes,
    links,
    file,       \* what was last written at an address, which a free block keeps
    used,       \* the blocks in use
    born,       \* how many entities there have been
    reply       \* what the last match found

vars == <<schemas, reaches, nodes, links, file, used, born, reply>>

Init ==
    /\ schemas = <<>> /\ reaches = TRUE
    /\ nodes = {} /\ links = {}
    /\ file = <<>> /\ used = {}
    /\ born = 0
    /\ reply = Null

At(S) == {e.at : e \in S}
Ids(S) == {e.id : e \in S}

\* content that is not a node's
Other == [schema |-> Null, id |-> 0]
Written(p, content) == [x \in DOMAIN file \union {p} |-> IF x = p THEN content ELSE file[x]]

-----------------------------------------------------------------------------
(* Schemas *)

\* schema_find compares as many letters as the stored name has
SameNameTurned(stored, asked) == IsPrefix(asked, stored)
SameName(stored, asked) == IsPrefix(stored, asked)

Matching(name) == {i \in DOMAIN schemas : SameName(schemas[i].name, name)}
Exists(name) == Matching(name) # {}
Found(name) == schemas[CHOOSE i \in Matching(name) : \A j \in Matching(name) : i <= j]

\* the pointer in the Schema that schema_show fills; of a schema that is not
\* there it is what malloc found
Pointers(name) == IF Exists(name) THEN {Found(name).at} ELSE Ptr \union {Null}

\* With schema_last = nullptr and a list that is not empty, the new schema is
\* one that no iteration reaches, and the next one is put behind it.
CreateSchema(name, p) ==
    /\ schemas' = IF schemas = <<>> \/ reaches
                  THEN Append(schemas, [at |-> p, name |-> name, id |-> born + 1])
                  ELSE schemas
    /\ reaches' = (schemas = <<>> \/ reaches)
    /\ file' = Written(p, Other)
    /\ used' = used \union {p}
    /\ born' = born + 1
    /\ UNCHANGED <<nodes, links, reply>>

\* strcmp reads behind the letters of a stored name: see SchemaStore
DropSchema(name) ==
    /\ \E i \in DOMAIN schemas :
          /\ IsPrefix(schemas[i].name, name)
          /\ schemas' = RemoveAt(schemas, i)
          /\ reaches' = (reaches /\ i # Len(schemas))
          /\ used' = used \ {schemas[i].at}
    /\ UNCHANGED <<nodes, links, file, born, reply>>

-----------------------------------------------------------------------------
(* Nodes *)

\* create_node in the schema whose pointer is s; of is the number of the
\* schema that is meant, or 0
CreateNode(name, p) ==
    /\ \E s \in Pointers(name) :
          /\ nodes' = nodes \union
                {[at |-> p, schema |-> s, id |-> born + 1,
                  of |-> IF Exists(name) THEN Found(name).id ELSE 0]}
          /\ file' = Written(p, [schema |-> s, id |-> born + 1])
    /\ used' = used \union {p}
    /\ born' = born + 1
    /\ UNCHANGED <<schemas, reaches, links, reply>>

\* check_node_condition, without the terms on values: a node of the schema at
\* s, or any node when there is no schema
IsMember(content, s) == s = NoName \/ content.schema = s
MembersAt(s) == {n \in nodes : IsMember(n, s)}
\* the nodes that a condition with this name may accept, one set per pointer
Members(name) == {MembersAt(s) : s \in IF name = NoName THEN {NoName} ELSE Pointers(name)}

MatchNodes(name) ==
    /\ \E found \in Members(name) : reply' = [kind |-> "nodes", name |-> name, found |-> Ids(found)]
    /\ UNCHANGED <<schemas, reaches, nodes, links, file, used, born>>

\* The terms on values choose among the members.
DeleteNodes(name) ==
    /\ \E found \in Members(name) : \E gone \in SUBSET found :
          /\ gone # {}
          /\ nodes' = nodes \ gone
          /\ used' = used \ At(gone)
    /\ UNCHANGED <<schemas, reaches, links, file, born, reply>>

-----------------------------------------------------------------------------
(* Links *)

\* execute_link_create: a link from each node of the first vector to each of
\* the second one
NewLinkTurned(p, one, two, id) ==
    [at |-> p, one |-> two.at, two |-> one.at, id |-> id, from |-> one.id, to |-> two.id]
NewLink(p, one, two, id) ==
    [at |-> p, one |-> one.at, two |-> two.at, id |-> id, from |-> one.id, to |-> two.id]

CreateLinks(name1, name2) ==
    \E ones \in Members(name1), twos \in Members(name2) :
        LET pairs == ones \X twos
            n == Cardinality(pairs)
        IN  /\ n > 0 /\ born + n <= MaxBorn
            /\ \E at \in Injection(pairs, Ptr \ used), id \in Bijection(pairs, born + 1 .. born + n) :
                  /\ links' = links \union
                        {NewLink(at[pair], pair[1], pair[2], id[pair]) : pair \in pairs}
                  /\ file' = [x \in DOMAIN file \union Range(at) |->
                                 IF x \in Range(at) THEN Other ELSE file[x]]
                  /\ used' = used \union Range(at)
            /\ born' = born + n
            /\ UNCHANGED <<schemas, reaches, nodes, reply>>

\* link_next: the blocks of both nodes are read, whatever they hold by now.
\* What is not a node's may be read as one of any schema.
MayBe(content, s) == content = Other \/ IsMember(content, s)
MustBe(content, s) == IF content = Other THEN s = NoName ELSE IsMember(content, s)

LinkFound(l) == [link |-> l.id, first |-> file[l.one].id, second |-> file[l.two].id]

\* create_match_condition leaves is_null of the second condition, and of the
\* whole, as it was in memory.
MatchLinks(name1, name2) ==
    /\ \E s1 \in (IF name1 = NoName THEN {NoName} ELSE Pointers(name1)),
          s2 \in (IF name2 = NoName THEN {NoName} ELSE Pointers(name2)) \union {NoName} :
       \E found \in SUBSET links :
          /\ \A l \in links :
                LET one == file[l.one]
                    two == file[l.two]
                IN  /\ l \in found => MayBe(one, s1) /\ MayBe(two, s2)
                    /\ MustBe(one, s1) /\ MustBe(two, s2) => l \in found
          /\ reply' = [kind |-> "links", name |-> name1, found |-> {LinkFound(l) : l \in found}]
    /\ UNCHANGED <<schemas, reaches, nodes, links, file, used, born>>

\* execute_link_delete: conditions on the nodes accept every node, those on
\* the link choose.
DeleteLinks ==
    /\ \E gone \in SUBSET links \ {{}} :
          /\ links' = links \ gone
          /\ used' = used \ At(gone)
    /\ UNCHANGED <<schemas, reaches, nodes, file, born, reply>>

-----------------------------------------------------------------------------

Create(name) ==
    /\ born < MaxBorn
    /\ \E p \in Ptr \ used : CreateSchema(name, p) \/ CreateNode(name, p)

Query ==
    /\ reply = Null
    /\ \/ \E name \in Names : Create(name) \/ DropSchema(name)
       \/ \E name \in Names \union {NoName} : MatchNodes(name) \/ DeleteNodes(name)
       \/ \E name1, name2 \in Names \union {NoName} :
             CreateLinks(name1, name2) \/ MatchLinks(name1, name2)
       \/ DeleteLinks

\* what a match found has been sent
Answer ==
    /\ reply # Null
    /\ reply' = Null
    /\ UNCHANGED <<schemas, reaches, nodes, links, file, used, born>>

Next == Query \/ Answer

Spec == Init /\ [][Next]_vars

-----------------------------------------------------------------------------
(* Properties *)

\* A match on a schema finds all nodes that were created in it.  A further one
\* only if its own schema has been dropped or did not exist when it was
\* created: never a node of another schema that is there.  The schema is one
\* whose name is the beginning of the name that was asked for.
MembersMatched ==
    reply # Null /\ reply.kind = "nodes" /\ reply.name # NoName =>
        LET asked == {s \in ToSet(schemas) : IsPrefix(s.name, reply.name)}
            found == {n \in nodes : n.id \in reply.found}
        IN  /\ reply.found \subseteq Ids(nodes)
            /\ asked # {} =>
                  \E s \in asked :
                      /\ {n \in nodes : n.of = s.id} \subseteq found
                      /\ \A n \in found : n.of \in Ids(ToSet(schemas)) => n.of = s.id

\* A match on links shows each link with the two nodes that it was created
\* for, each at its end, whatever was created, dropped and put in their places;
\* only at an end whose node has been deleted may there be something else.
LinkedAsCreated ==
    reply # Null /\ reply.kind = "links" =>
        \A f \in reply.found : \E l \in links :
            /\ l.id = f.link
            /\ f.first = l.from \/ l.from \notin Ids(nodes)
            /\ f.second = l.to \/ l.to \notin Ids(nodes)
=============================================================================
