-------------------------- MODULE GraphStore_proofs --------------------------
(***************************************************************************)
(* What matches find in GraphStore, proved for any addresses, any names    *)
(* and any history of queries.                                             *)
(***************************************************************************)
EXTENDS GraphStore, SequenceTheorems, FiniteSetTheorems, TLAPS

Lists == INSTANCE EntityList_proofs

-----------------------------------------------------------------------------
(* Where each variable takes its values *)

Schema == [at : Ptr, name : Names, id : Nat]
Node == [at : Ptr, schema : Ptr \union {Null}, id : Nat, of : Nat]
Link == [at : Ptr, one : Ptr, two : Ptr, id : Nat, from : Nat, to : Nat]

Typed ==
    /\ born \in Nat
    /\ schemas \in Seq(Schema)
    /\ nodes \subseteq Node /\ IsFiniteSet(nodes)
    /\ links \subseteq Link

-----------------------------------------------------------------------------
(* Lemmas on the operators *)

\* The lemmas on lists and sequences ask no more than this of the constants.
LEMMA Data == Lists!EntityListAssumption
BY GraphStoreAssumption DEF Lists!EntityListAssumption

\* The schema that is found is one of the list, and its name matches.
LEMMA FoundFacts ==
    ASSUME Typed, NEW name, Exists(name)
    PROVE  /\ Found(name) \in ToSet(schemas)
           /\ Found(name) \in Schema
           /\ SameName(Found(name).name, name)
<1>1. Matching(name) \in SUBSET Nat /\ Matching(name) # {}
  BY DEF Typed, Matching, Exists
<1>2. \E i \in Matching(name) : \A j \in Matching(name) : i <= j
  BY <1>1, Data, Lists!LeastNumber
<1>3. PICK i \in Matching(name) : Found(name) = schemas[i]
  BY <1>2 DEF Found
<1>4. i \in DOMAIN schemas /\ SameName(schemas[i].name, name)
  BY DEF Matching
<1> QED
  BY <1>3, <1>4 DEF Typed, ToSet

\* Of a schema that is not there the pointer is anything.
LEMMA PointersTyped ==
    ASSUME Typed, NEW name
    PROVE  /\ Pointers(name) \subseteq Ptr \union {Null}
           /\ Exists(name) => Pointers(name) = {Found(name).at}
BY FoundFacts DEF Pointers, Schema

-----------------------------------------------------------------------------
(* The invariant: what addresses and numbers mean.  The blocks of entities *)
(* are apart, or a deletion would give back the block of another one; and  *)
(* no number is given twice, or what an entity was created for could not   *)
(* be told.                                                                *)

Numbered ==
    /\ \A s \in ToSet(schemas) : s.id \in 1 .. born
    /\ \A n \in nodes : n.id <= born /\ n.of <= born
    /\ \A l \in links : l.from <= born /\ l.to <= born
    /\ \A s, t \in ToSet(schemas) : s.id = t.id => s = t
    /\ \A n, m \in nodes : n.id = m.id => n = m

Apart ==
    /\ \A s \in ToSet(schemas) : s.at \in used
    /\ \A n \in nodes : n.at \in used
    /\ \A l \in links : l.at \in used
    /\ \A i, j \in DOMAIN schemas : schemas[i].at = schemas[j].at => i = j
    /\ \A n, m \in nodes : n.at = m.at => n = m
    /\ \A k, l \in links : k.at = l.at => k = l
    /\ \A s \in ToSet(schemas), n \in nodes : s.at # n.at
    /\ \A s \in ToSet(schemas), l \in links : s.at # l.at
    /\ \A n \in nodes, l \in links : n.at # l.at

\* A node of a schema that is there has its address, the block of a node is
\* what the node wrote, and a link whose node is there has its address.
Meant ==
    /\ \A n \in nodes, s \in ToSet(schemas) : n.of = s.id => n.schema = s.at
    /\ \A n \in nodes : n.at \in DOMAIN file /\ file[n.at].id = n.id
    /\ \A l \in links, n \in nodes :
          (n.id = l.from => n.at = l.one) /\ (n.id = l.to => n.at = l.two)

Inv == Typed /\ Numbered /\ Apart /\ Meant

LEMMA InitInv == Init => Inv
<1> SUFFICES ASSUME Init
             PROVE  Inv
  OBVIOUS
<1>1. schemas = <<>> /\ DOMAIN schemas = {} /\ ToSet(schemas) = {} /\ nodes = {} /\ links = {} /\ born = 0
  BY DEF Init, ToSet
<1> QED
  BY <1>1, FS_EmptySet DEF Inv, Typed, Numbered, Apart, Meant

\* A step that creates nothing, and leaves in use what is still there.
LEMMA FewerKeepInv ==
    ASSUME Inv, born' = born, file' = file, nodes' \subseteq nodes, links' \subseteq links,
           schemas' \in Seq(Schema), ToSet(schemas') \subseteq ToSet(schemas),
           \A i, j \in DOMAIN schemas' : schemas'[i].at = schemas'[j].at => i = j,
           \A e \in ToSet(schemas') \union nodes' \union links' : e.at \in used'
    PROVE  Inv'
<1>1. Typed'
  BY FS_Subset DEF Inv, Typed
<1>2. Numbered'
  BY DEF Inv, Numbered
<1>3. Apart'
  BY DEF Inv, Apart
<1>4. Meant'
  BY DEF Inv, Meant
<1> QED
  BY <1>1, <1>2, <1>3, <1>4 DEF Inv

LEMMA CreateSchemaInv ==
    ASSUME Inv, NEW name \in Names, NEW p \in Ptr \ used, CreateSchema(name, p)
    PROVE  Inv'
<1> DEFINE new == [at |-> p, name |-> name, id |-> born + 1]
<1>1. /\ new \in Schema /\ new.at = p /\ new.id = born + 1 /\ born \in Nat
      /\ schemas \in Seq(Schema) /\ born' = born + 1 /\ used' = used \union {p}
      /\ UNCHANGED <<nodes, links>> /\ file' = Written(p, Other)
  BY DEF Inv, Typed, Schema, CreateSchema
<1>2. schemas' = schemas \/ schemas' = Append(schemas, new)
  BY DEF CreateSchema
<1> HIDE DEF new
<1>3. /\ schemas' \in Seq(Schema)
      /\ ToSet(schemas') \subseteq ToSet(schemas) \union {new}
      /\ \A i, j \in DOMAIN schemas' : schemas'[i].at = schemas'[j].at => i = j
  <2>1. CASE schemas' = schemas
    BY <1>1, <2>1 DEF Inv, Apart
  <2>2. CASE schemas' = Append(schemas, new)
    <3>1. /\ schemas' \in Seq(Schema) /\ Len(schemas) \in Nat /\ DOMAIN schemas = 1 .. Len(schemas)
          /\ DOMAIN schemas' = 1 .. Len(schemas) + 1
          /\ \A i \in DOMAIN schemas : schemas'[i] = schemas[i]
          /\ schemas'[Len(schemas) + 1] = new
      BY <1>1, <2>2, AppendProperties
    <3>2. \A i \in DOMAIN schemas' : i \in DOMAIN schemas \/ i = Len(schemas) + 1
      BY <3>1
    <3>3. \A i \in DOMAIN schemas : schemas[i] \in ToSet(schemas)
      BY DEF ToSet
    <3>4. \A i \in DOMAIN schemas : schemas[i].at # p
      BY <3>3 DEF Inv, Apart
    <3>5. \A i, j \in DOMAIN schemas' : schemas'[i].at = schemas'[j].at => i = j
      BY <1>1, <3>1, <3>2, <3>4 DEF Inv, Apart
    <3>6. ToSet(schemas') \subseteq ToSet(schemas) \union {new}
      BY <3>1, <3>2 DEF ToSet
    <3> QED
      BY <3>1, <3>5, <3>6
  <2> QED
    BY <1>2, <2>1, <2>2
<1>4. Typed'
  BY <1>1, <1>3 DEF Inv, Typed
<1>5. Numbered'
  <2>1. \A s \in ToSet(schemas) : s.id \in 1 .. born /\ s.id # new.id
    BY <1>1 DEF Inv, Numbered
  <2>2. \A n \in nodes : n.id \in Nat /\ n.of \in Nat
    BY DEF Inv, Typed, Node
  <2>3. \A l \in links : l.from \in Nat /\ l.to \in Nat
    BY DEF Inv, Typed, Link
  <2> QED
    BY <1>1, <1>3, <2>1, <2>2, <2>3 DEF Inv, Numbered
<1>6. Apart'
  BY <1>1, <1>3 DEF Inv, Apart
<1>7. Meant'
  <2>1. \A n \in nodes : n.of # new.id
    BY <1>1 DEF Inv, Typed, Node, Numbered
  <2>2. \A n \in nodes : n.at \in DOMAIN file' /\ file'[n.at] = file[n.at]
    BY <1>1 DEF Inv, Apart, Meant, Written
  <2> QED
    BY <1>1, <1>3, <2>1, <2>2 DEF Inv, Meant
<1> QED
  BY <1>4, <1>5, <1>6, <1>7 DEF Inv

LEMMA CreateNodeInv ==
    ASSUME Inv, NEW name \in Names, NEW p \in Ptr \ used, CreateNode(name, p)
    PROVE  Inv'
<1>1. PICK s \in Pointers(name) :
         /\ nodes' = nodes \union
               {[at |-> p, schema |-> s, id |-> born + 1,
                 of |-> IF Exists(name) THEN Found(name).id ELSE 0]}
         /\ file' = Written(p, [schema |-> s, id |-> born + 1])
  BY DEF CreateNode
<1> DEFINE new == [at |-> p, schema |-> s, id |-> born + 1,
                   of |-> IF Exists(name) THEN Found(name).id ELSE 0]
<1>2. /\ born \in Nat /\ born' = born + 1 /\ used' = used \union {p}
      /\ UNCHANGED <<schemas, links>> /\ nodes' = nodes \union {new}
  BY <1>1 DEF Inv, Typed, CreateNode
<1>3. Exists(name) => Found(name) \in ToSet(schemas) /\ Found(name).id \in 1 .. born /\ s = Found(name).at
  BY FoundFacts, PointersTyped DEF Inv, Numbered
<1>4. new \in Node /\ new.at = p /\ new.id = born + 1 /\ new.schema = s /\ new.of \in 0 .. born
  BY <1>2, <1>3, PointersTyped DEF Inv, Node
<1>5. \A t \in ToSet(schemas) : new.of = t.id => new.schema = t.at
  BY <1>2, <1>3, <1>4 DEF Inv, Numbered
<1>6. file' = [x \in DOMAIN file \union {p} |-> IF x = p THEN [schema |-> s, id |-> born + 1] ELSE file[x]]
  BY <1>1 DEF Written
<1> HIDE DEF new
<1>7. Typed'
  BY <1>2, <1>4, FS_AddElement DEF Inv, Typed
<1>8. \A n \in nodes : n.id \in Nat /\ n.id <= born /\ n.of \in Nat /\ n.of <= born
  BY DEF Inv, Typed, Node, Numbered
<1>9. \A l \in links : l.from \in Nat /\ l.from <= born /\ l.to \in Nat /\ l.to <= born
  BY DEF Inv, Typed, Link, Numbered
<1>10. Numbered'
  <2>1. \A t \in ToSet(schemas) : t.id \in 1 .. born'
    BY <1>2 DEF Inv, Numbered
  <2>2. \A n, m \in nodes' : n.id = m.id => n = m
    BY <1>2, <1>4, <1>8 DEF Inv, Numbered
  <2> QED
    BY <1>2, <1>4, <1>8, <1>9, <2>1, <2>2 DEF Inv, Numbered
<1>11. Apart'
  BY <1>2, <1>4 DEF Inv, Apart
<1>12. Meant'
  <2>1. \A n \in nodes' : n.at \in DOMAIN file' /\ file'[n.at].id = n.id
    BY <1>2, <1>4, <1>6 DEF Inv, Apart, Meant
  <2>2. \A l \in links : new.id # l.from /\ new.id # l.to
    BY <1>2, <1>4, <1>9
  <2> QED
    BY <1>2, <1>5, <2>1, <2>2 DEF Inv, Meant
<1> QED
  BY <1>7, <1>10, <1>11, <1>12 DEF Inv

LEMMA DropSchemaInv ==
    ASSUME Inv, NEW name \in Names, DropSchema(name)
    PROVE  Inv'
<1>1. PICK i \in DOMAIN schemas : schemas' = RemoveAt(schemas, i) /\ used' = used \ {schemas[i].at}
  BY DEF DropSchema
<1>2. UNCHANGED <<nodes, links, file, born>>
  BY DEF DropSchema
<1> DEFINE old(j) == IF j < i THEN j ELSE j + 1
<1>3. /\ schemas \in Seq(Schema) /\ schemas' \in Seq(Schema)
      /\ \A j \in DOMAIN schemas' :
            old(j) \in DOMAIN schemas /\ old(j) # i /\ schemas'[j] = schemas[old(j)]
      /\ \A j, k \in DOMAIN schemas' : old(j) = old(k) => j = k
  <2>1. /\ schemas' \in Seq(Schema) /\ DOMAIN schemas' = 1 .. Len(schemas) - 1
        /\ \A j \in 1 .. Len(schemas) - 1 : schemas'[j] = schemas[IF j < i THEN j ELSE j + 1]
    BY <1>1, Data, Lists!RemoveAtFacts DEF RemoveAt, Lists!RemoveAt, Inv, Typed
  <2>2. Len(schemas) \in Nat /\ DOMAIN schemas = 1 .. Len(schemas)
    BY DEF Inv, Typed
  <2> QED
    BY <2>1, <2>2 DEF Inv, Typed
<1> HIDE DEF old
<1>4. ToSet(schemas') \subseteq ToSet(schemas)
  BY <1>3 DEF ToSet
<1>5. \A j, k \in DOMAIN schemas' : schemas'[j].at = schemas'[k].at => j = k
  BY <1>3 DEF Inv, Apart
<1>6. \A s \in ToSet(schemas') : s.at # schemas[i].at
  BY <1>3 DEF Inv, Apart, ToSet
<1>7. schemas[i] \in ToSet(schemas)
  BY DEF ToSet
<1>8. \A e \in ToSet(schemas') \union nodes' \union links' : e.at \in used'
  BY <1>1, <1>2, <1>4, <1>6, <1>7 DEF Inv, Apart
<1> QED
  BY <1>2, <1>3, <1>4, <1>5, <1>8, FewerKeepInv

LEMMA DeleteNodesInv ==
    ASSUME Inv, NEW name, DeleteNodes(name)
    PROVE  Inv'
<1>1. PICK gone : gone \subseteq nodes /\ nodes' = nodes \ gone /\ used' = used \ At(gone)
  BY DEF DeleteNodes, Members, MembersAt
<1>2. UNCHANGED <<schemas, links, file, born>>
  BY DEF DeleteNodes
<1>3. \A e \in ToSet(schemas') \union nodes' \union links' : e.at \in used'
  BY <1>1, <1>2 DEF Inv, Apart, At
<1> QED
  BY <1>1, <1>2, <1>3, FewerKeepInv DEF Inv, Typed, Apart

LEMMA DeleteLinksInv ==
    ASSUME Inv, DeleteLinks
    PROVE  Inv'
<1>1. PICK gone : gone \subseteq links /\ links' = links \ gone /\ used' = used \ At(gone)
  BY DEF DeleteLinks
<1>2. UNCHANGED <<schemas, nodes, file, born>>
  BY DEF DeleteLinks
<1>3. \A e \in ToSet(schemas') \union nodes' \union links' : e.at \in used'
  BY <1>1, <1>2 DEF Inv, Apart, At
<1> QED
  BY <1>1, <1>2, <1>3, FewerKeepInv DEF Inv, Typed, Apart

LEMMA CreateLinksInv ==
    ASSUME Inv, NEW name1, NEW name2, CreateLinks(name1, name2)
    PROVE  Inv'
<1>1. PICK ones \in Members(name1), twos \in Members(name2) :
         /\ \E at \in Injection(ones \X twos, Ptr \ used),
               id \in Bijection(ones \X twos, born + 1 .. born + Cardinality(ones \X twos)) :
               /\ links' = links \union
                     {NewLink(at[pair], pair[1], pair[2], id[pair]) : pair \in ones \X twos}
               /\ file' = [x \in DOMAIN file \union Range(at) |->
                              IF x \in Range(at) THEN Other ELSE file[x]]
               /\ used' = used \union Range(at)
         /\ born' = born + Cardinality(ones \X twos)
         /\ UNCHANGED <<schemas, reaches, nodes, reply>>
  BY DEF CreateLinks
<1> DEFINE pairs == ones \X twos
<1>2. PICK at \in Injection(pairs, Ptr \ used),
           id \in Bijection(pairs, born + 1 .. born + Cardinality(pairs)) :
         /\ links' = links \union {NewLink(at[pair], pair[1], pair[2], id[pair]) : pair \in pairs}
         /\ file' = [x \in DOMAIN file \union Range(at) |-> IF x \in Range(at) THEN Other ELSE file[x]]
         /\ used' = used \union Range(at)
  BY <1>1
<1>3. ones \subseteq nodes /\ twos \subseteq nodes
  BY DEF Members, MembersAt
<1>4. born \in Nat /\ born' \in Nat /\ born' >= born
  <2>1. IsFiniteSet(ones) /\ IsFiniteSet(twos)
    BY <1>3, FS_Subset DEF Inv, Typed
  <2>2. Cardinality(pairs) \in Nat
    BY <2>1, FS_Product, FS_CardinalityType
  <2> QED
    BY <1>1, <2>2 DEF Inv, Typed
<1>5. /\ at \in [pairs -> Ptr \ used] /\ \A p, q \in pairs : at[p] = at[q] => p = q
      /\ Range(at) = {at[p] : p \in pairs}
  BY DEF Injection, IsInjective, Range
<1>6. id \in [pairs -> born + 1 .. born + Cardinality(pairs)]
  BY DEF Bijection, Injection
<1> DEFINE new(p) == NewLink(at[p], p[1], p[2], id[p])
<1>7. ASSUME NEW p \in pairs
      PROVE  /\ p[1] \in nodes /\ p[2] \in nodes /\ new(p) \in Link /\ new(p).at = at[p]
             /\ new(p).one = p[1].at /\ new(p).two = p[2].at
             /\ new(p).from = p[1].id /\ new(p).to = p[2].id
  <2>1. p[1] \in nodes /\ p[2] \in nodes
    BY <1>3
  <2>2. p[1] \in Node /\ p[2] \in Node
    BY <2>1 DEF Inv, Typed
  <2>3. at[p] \in Ptr /\ id[p] \in Nat
    BY <1>4, <1>5, <1>6
  <2> QED
    BY <2>1, <2>2, <2>3 DEF NewLink, Link, Node
<1>8. links' = links \union {new(p) : p \in pairs}
  BY <1>2
<1> HIDE DEF new, pairs
<1>9. Typed'
  BY <1>1, <1>4, <1>7, <1>8 DEF Inv, Typed
<1>10. Numbered'
  <2>1. \A s \in ToSet(schemas) : s.id \in 1 .. born'
    BY <1>4 DEF Inv, Numbered
  <2>2. \A n \in nodes : n.id <= born' /\ n.of <= born'
    BY <1>4 DEF Inv, Numbered, Typed, Node
  <2>3. \A l \in links' : l.from <= born' /\ l.to <= born'
    <3>1. \A l \in links : l.from \in Nat /\ l.to \in Nat /\ l.from <= born /\ l.to <= born
      BY DEF Inv, Typed, Link, Numbered
    <3> QED
      BY <1>4, <1>7, <1>8, <2>2, <3>1
  <2> QED
    BY <1>1, <2>1, <2>2, <2>3 DEF Inv, Numbered
<1>11. Apart'
  <2>1. \A l \in links' : l \in links \/ \E p \in pairs : l = new(p)
    BY <1>8
  <2>2. \A l \in links' : l.at \in used'
    BY <1>2, <1>5, <1>7, <2>1 DEF Inv, Apart
  <2>3. \A k, l \in links' : k.at = l.at => k = l
    BY <1>5, <1>7, <2>1 DEF Inv, Apart
  <2>4. \A l \in links', e \in ToSet(schemas) \union nodes : e.at # l.at
    BY <1>5, <1>7, <2>1 DEF Inv, Apart
  <2> QED
    BY <1>1, <1>2, <2>2, <2>3, <2>4 DEF Inv, Apart
<1>12. Meant'
  <2>1. \A n \in nodes : n.at \in DOMAIN file' /\ file'[n.at] = file[n.at]
    BY <1>2, <1>5 DEF Inv, Apart, Meant
  <2>2. \A p \in pairs, n \in nodes :
           /\ n.id = new(p).from => n.at = new(p).one
           /\ n.id = new(p).to => n.at = new(p).two
    BY <1>7 DEF Inv, Numbered
  <2>3. \A l \in links' : l \in links \/ \E p \in pairs : l = new(p)
    BY <1>8
  <2>4. \A l \in links', n \in nodes : (n.id = l.from => n.at = l.one) /\ (n.id = l.to => n.at = l.two)
    BY <2>2, <2>3 DEF Inv, Meant
  <2>5. nodes' = nodes /\ schemas' = schemas
    BY <1>1
  <2> QED
    BY <2>1, <2>4, <2>5 DEF Inv, Meant
<1> QED
  BY <1>9, <1>10, <1>11, <1>12 DEF Inv

\* Matches and answers change nothing but the reply.
LEMMA SameKeepsInv ==
    ASSUME Inv, UNCHANGED <<schemas, nodes, links, file, used, born>>
    PROVE  Inv'
BY DEF Inv, Typed, Numbered, Apart, Meant

LEMMA NextInv == Inv /\ [Next]_vars => Inv'
<1> SUFFICES ASSUME Inv, [Next]_vars
             PROVE  Inv'
  OBVIOUS
<1>1. ASSUME NEW name \in Names, Create(name)
      PROVE  Inv'
  BY <1>1, CreateSchemaInv, CreateNodeInv DEF Create
<1>2. ASSUME NEW name, MatchNodes(name)
      PROVE  Inv'
  BY <1>2, SameKeepsInv DEF MatchNodes
<1>3. ASSUME NEW name1, NEW name2, MatchLinks(name1, name2)
      PROVE  Inv'
  BY <1>3, SameKeepsInv DEF MatchLinks
<1>4. ASSUME Answer
      PROVE  Inv'
  BY <1>4, SameKeepsInv DEF Answer
<1>5. CASE UNCHANGED vars
  BY <1>5, SameKeepsInv DEF vars
<1> QED
  BY <1>1, <1>2, <1>3, <1>4, <1>5, DropSchemaInv, DeleteNodesInv, CreateLinksInv, DeleteLinksInv
     DEF Next, Query

LEMMA InvAlways == Spec => []Inv
BY InitInv, NextInv, PTL DEF Spec

-----------------------------------------------------------------------------
(* What matches find *)

\* A match on a schema finds every node that was created in it, and of the
\* nodes of other schemas none whose schema is there: for any addresses that
\* are used again, and any history.
THEOREM MembersAreMatched == Spec => []MembersMatched
<1>1. Init => MembersMatched
  BY DEF Init, MembersMatched
<1>2. Inv /\ MembersMatched /\ [Next]_vars => MembersMatched'
  <2> SUFFICES ASSUME Inv, MembersMatched, [Next]_vars
               PROVE  MembersMatched'
    OBVIOUS
  <2>1. CASE reply' = Null
    BY <2>1 DEF MembersMatched
  <2>2. ASSUME NEW name, MatchNodes(name)
        PROVE  MembersMatched'
    <3>1. PICK found \in Members(name) : reply' = [kind |-> "nodes", name |-> name, found |-> Ids(found)]
      BY <2>2 DEF MatchNodes
    <3>2. UNCHANGED <<schemas, nodes>>
      BY <2>2 DEF MatchNodes
    <3> DEFINE asked == {s \in ToSet(schemas) : IsPrefix(s.name, name)}
    <3>3. found \subseteq nodes /\ {n \in nodes : n.id \in Ids(found)} = found
      BY DEF Members, MembersAt, Ids, Inv, Numbered
    <3>4. ASSUME name # NoName, asked # {}
          PROVE  \E s \in asked :
                    /\ {n \in nodes : n.of = s.id} \subseteq found
                    /\ \A n \in found : n.of \in Ids(ToSet(schemas)) => n.of = s.id
      <4>1. Exists(name)
        <5>1. PICK i \in DOMAIN schemas : IsPrefix(schemas[i].name, name)
          BY <3>4 DEF ToSet
        <5> QED
          BY <5>1 DEF Exists, Matching, SameName
      <4> DEFINE s == Found(name)
      <4>2. s \in asked /\ s \in Schema
        BY <4>1, FoundFacts DEF Inv, SameName
      <4>3. found = {n \in nodes : n.schema = s.at}
        <5>1. s.at # NoName
          BY <4>2, GraphStoreAssumption DEF Schema
        <5> QED
          BY <3>4, <4>1, <5>1, PointersTyped DEF Members, MembersAt, IsMember, Inv
      <4>4. \A n \in nodes : n.of = s.id => n.schema = s.at
        BY <4>2 DEF Inv, Meant
      <4>5. \A t \in ToSet(schemas) : t.at = s.at => t = s
        BY <4>2 DEF Inv, Apart, ToSet
      <4>6. \A n \in found : n.of \in Ids(ToSet(schemas)) => n.of = s.id
        BY <4>3, <4>5 DEF Ids, Inv, Meant
      <4> HIDE DEF s
      <4> QED
        BY <4>2, <4>3, <4>4, <4>6
    <3>5. Ids(found) \subseteq Ids(nodes)
      BY <3>3 DEF Ids
    <3> QED
      BY <3>1, <3>2, <3>3, <3>4, <3>5 DEF MembersMatched
  <2>3. ASSUME NEW name1, NEW name2, MatchLinks(name1, name2)
        PROVE  MembersMatched'
    <3>1. reply'.kind = "links"
      BY <2>3 DEF MatchLinks
    <3> QED
      BY <3>1 DEF MembersMatched
  <2>4. CASE UNCHANGED vars
    BY <2>4 DEF vars, MembersMatched
  <2> QED
    BY <2>1, <2>2, <2>3, <2>4
       DEF Next, Query, Answer, Create, CreateSchema, CreateNode, DropSchema, DeleteNodes,
           CreateLinks, DeleteLinks
<1> QED
  BY <1>1, <1>2, InvAlways, PTL DEF Spec

\* A match on links shows each link with the nodes that it was created for,
\* unless they were deleted.
THEOREM LinksAreAsCreated == Spec => []LinkedAsCreated
<1>1. Init => LinkedAsCreated
  BY DEF Init, LinkedAsCreated
<1>2. Inv /\ LinkedAsCreated /\ [Next]_vars => LinkedAsCreated'
  <2> SUFFICES ASSUME Inv, LinkedAsCreated, [Next]_vars
               PROVE  LinkedAsCreated'
    OBVIOUS
  <2>1. CASE reply' = Null
    BY <2>1 DEF LinkedAsCreated
  <2>2. ASSUME NEW name1, NEW name2, MatchLinks(name1, name2)
        PROVE  LinkedAsCreated'
    <3>1. PICK found \in SUBSET links :
             reply' = [kind |-> "links", name |-> name1, found |-> {LinkFound(l) : l \in found}]
      BY <2>2 DEF MatchLinks
    <3>2. UNCHANGED <<nodes, links>>
      BY <2>2 DEF MatchLinks
    <3>3. ASSUME NEW l \in found
          PROVE  /\ LinkFound(l).link = l.id
                 /\ LinkFound(l).first = l.from \/ l.from \notin Ids(nodes)
                 /\ LinkFound(l).second = l.to \/ l.to \notin Ids(nodes)
      BY DEF LinkFound, Ids, Inv, Meant
    <3> QED
      BY <3>1, <3>2, <3>3 DEF LinkedAsCreated
  <2>3. ASSUME NEW name, MatchNodes(name)
        PROVE  LinkedAsCreated'
    <3>1. reply'.kind = "nodes"
      BY <2>3 DEF MatchNodes
    <3> QED
      BY <3>1 DEF LinkedAsCreated
  <2>4. CASE UNCHANGED vars
    BY <2>4 DEF vars, LinkedAsCreated
  <2> QED
    BY <2>1, <2>2, <2>3, <2>4
       DEF Next, Query, Answer, Create, CreateSchema, CreateNode, DropSchema, DeleteNodes,
           CreateLinks, DeleteLinks
<1> QED
  BY <1>1, <1>2, InvAlways, PTL DEF Spec
=============================================================================
