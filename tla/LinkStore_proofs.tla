-------------------------- MODULE LinkStore_proofs --------------------------
(***************************************************************************)
(* The list of the links, proved for any addresses, names and conditions:  *)
(* it is whole at any time, its blocks have one owner each, and it         *)
(* implements a sequence in order of creation.                             *)
(***************************************************************************)
EXTENDS LinkStore, EntityList_proofs

-----------------------------------------------------------------------------
(* The invariant.  That a deletion leaves the list whole depends on the    *)
(* jobs of the query (each deletes a link that is there, and none the link *)
(* of another); that it gives back no block of another owner depends on    *)
(* the blocks being apart.                                                 *)

Linked ==
    /\ Whole(link, first, last, Iterated)
    /\ \A p \in DOMAIN link : {"next", "prev", "name_at", "one", "two"} \subseteq DOMAIN link[p]

NameBlocks == {link[p].name_at : p \in DOMAIN link}

Apart ==
    /\ nodes \in Seq([at : Ptr, score : Scores])
    /\ used = NodeAt \union DOMAIN link \union NameBlocks
    /\ NodeAt \intersect DOMAIN link = {}
    /\ (NodeAt \union DOMAIN link) \intersect NameBlocks = {}
    /\ \A i, j \in DOMAIN nodes : nodes[i].at = nodes[j].at => i = j
    /\ \A p, q \in DOMAIN link : link[p].name_at = link[q].name_at => p = q

Planned ==
    /\ todo \in Seq(Range(todo))
    /\ \A k \in DOMAIN todo :
          /\ todo[k].op = "create" => {todo[k].one, todo[k].two} \subseteq NodeAt
          /\ todo[k].op = "delete" => todo[k].at \in DOMAIN link
    /\ \A k, m \in DOMAIN todo :
          todo[k].op = "delete" /\ todo[m].op = "delete" /\ todo[k].at = todo[m].at => k = m

Inv == Linked /\ Apart /\ Planned

LEMMA InitInv == Init => Inv
<1> SUFFICES ASSUME Init
             PROVE  Inv
  OBVIOUS
<1>1. DOMAIN link = {} /\ nodes = <<>> /\ DOMAIN nodes = {} /\ todo = <<>> /\ DOMAIN todo = {}
  BY DEF Init
<1>2. NodeAt = {} /\ NameBlocks = {}
  BY <1>1 DEF NodeAt, NameBlocks
<1>3. Whole(link, first, last, <<>>)
  BY <1>1 DEF Init, Whole, Chain, AtPos
<1>4. Linked
  BY <1>1, <1>3, WholeIsWalked DEF Linked, Iterated
<1>5. Apart
  BY <1>1, <1>2 DEF Apart, Init
<1>6. Planned
  BY <1>1 DEF Planned
<1> QED
  BY <1>4, <1>5, <1>6 DEF Inv

-----------------------------------------------------------------------------
(* The nodes *)

\* A step on nodes leaves the links, and what is planned is nothing.
LEMMA LinksLeft ==
    ASSUME Inv, UNCHANGED <<link, first, last, todo>>
    PROVE  Linked' /\ Iterated' = Iterated /\ NameBlocks' = NameBlocks
BY DEF Inv, Linked, Iterated, NameBlocks

LEMMA AddNodeInv ==
    ASSUME Inv, NEW score \in Scores, NEW p \in Ptr \ used, AddNode(score, p)
    PROVE  Inv'
<1> DEFINE new == [at |-> p, score |-> score]
           n == Len(nodes)
<1>1. /\ nodes \in Seq([at : Ptr, score : Scores]) /\ n \in Nat /\ DOMAIN nodes = 1 .. n
      /\ new \in [at : Ptr, score : Scores] /\ new.at = p
      /\ nodes' = Append(nodes, new) /\ used' = used \union {p} /\ todo = <<>>
      /\ UNCHANGED <<link, first, last, todo>>
  BY DEF Inv, Apart, AddNode
<1> HIDE DEF new
<1>2. /\ nodes' \in Seq([at : Ptr, score : Scores]) /\ DOMAIN nodes' = 1 .. n + 1
      /\ nodes'[n + 1] = new /\ \A i \in 1 .. n : nodes'[i] = nodes[i]
  BY <1>1
<1> HIDE DEF n
<1>3. NodeAt' = NodeAt \union {p}
  BY <1>1, <1>2 DEF NodeAt
<1>4. p \notin NodeAt /\ p \notin DOMAIN link /\ p \notin NameBlocks
  BY DEF Inv, Apart
<1>5. \A i, j \in DOMAIN nodes' : nodes'[i].at = nodes'[j].at => i = j
  <2>1. \A i \in 1 .. n : nodes[i].at # p
    BY <1>1, <1>4 DEF NodeAt
  <2> QED
    BY <1>1, <1>2, <2>1 DEF Inv, Apart
<1>6. Apart'
  BY <1>1, <1>2, <1>3, <1>4, <1>5, LinksLeft DEF Inv, Apart
<1>7. Planned'
  BY <1>1, <1>3 DEF Inv, Planned
<1> QED
  BY <1>1, <1>6, <1>7, LinksLeft DEF Inv

LEMMA DropNodeInv ==
    ASSUME Inv, NEW i \in DOMAIN nodes, DropNode(i)
    PROVE  Inv'
<1> DEFINE n == Len(nodes)
           old(j) == IF j < i THEN j ELSE j + 1
<1>1. /\ nodes \in Seq([at : Ptr, score : Scores]) /\ n \in Nat /\ DOMAIN nodes = 1 .. n /\ i \in 1 .. n
      /\ nodes' = RemoveAt(nodes, i) /\ used' = used \ {nodes[i].at} /\ todo = <<>> /\ DOMAIN todo = {}
      /\ UNCHANGED <<link, first, last, todo>>
  BY DEF Inv, Apart, DropNode
<1>2. /\ nodes' \in Seq([at : Ptr, score : Scores]) /\ DOMAIN nodes' = 1 .. n - 1
      /\ \A j \in 1 .. n - 1 : nodes'[j] = nodes[old(j)]
  BY <1>1, RemoveAtFacts
<1> HIDE DEF n
<1>3. /\ \A j \in 1 .. n - 1 : old(j) \in 1 .. n /\ old(j) # i
      /\ \A k \in 1 .. n : k # i => \E j \in 1 .. n - 1 : old(j) = k
  <2>1. ASSUME NEW k \in 1 .. n, k # i
        PROVE  \E j \in 1 .. n - 1 : old(j) = k
    <3>1. CASE k < i
      BY <1>1, <3>1
    <3>2. CASE k > i
      <4>1. k - 1 \in 1 .. n - 1 /\ old(k - 1) = k
        BY <1>1, <3>2
      <4> QED
        BY <4>1
    <3> QED
      BY <1>1, <2>1, <3>1, <3>2
  <2> QED
    BY <1>1, <2>1
<1>4. \A j, k \in 1 .. n : nodes[j].at = nodes[k].at => j = k
  BY <1>1 DEF Inv, Apart
<1>5. NodeAt' = NodeAt \ {nodes[i].at}
  <2>1. NodeAt = {nodes[k].at : k \in 1 .. n} /\ NodeAt' = {nodes'[j].at : j \in 1 .. n - 1}
    BY <1>1, <1>2 DEF NodeAt
  <2>2. \A j \in 1 .. n - 1 : nodes'[j].at \in NodeAt /\ nodes'[j].at # nodes[i].at
    BY <1>1, <1>2, <1>3, <1>4, <2>1
  <2>3. \A k \in 1 .. n : k # i => nodes[k].at \in NodeAt'
    BY <1>2, <1>3, <2>1
  <2> QED
    BY <2>1, <2>2, <2>3
<1>6. \A j, k \in DOMAIN nodes' : nodes'[j].at = nodes'[k].at => j = k
  <2>1. \A j, k \in 1 .. n - 1 : old(j) = old(k) => j = k
    BY <1>1
  <2> HIDE DEF old
  <2> QED
    BY <1>2, <1>3, <1>4, <2>1
<1>7. nodes[i].at \in NodeAt
  BY DEF NodeAt
<1>8. Apart'
  BY <1>1, <1>2, <1>5, <1>6, <1>7, LinksLeft DEF Inv, Apart
<1>9. Planned'
  BY <1>1 DEF Inv, Planned
<1> QED
  BY <1>1, <1>8, <1>9, LinksLeft DEF Inv

-----------------------------------------------------------------------------
(* The plans *)

LEMMA MatchedFacts ==
    ASSUME Inv, NEW cond
    PROVE  Len(Matched(cond)) \in Nat /\ \A i \in 1 .. Len(Matched(cond)) : Matched(cond)[i].at \in NodeAt
<1>1. nodes \in Seq(Range(nodes)) /\ \A i, j \in DOMAIN nodes : nodes[i] = nodes[j] => i = j
  BY SeqOfItsElements DEF Inv, Apart
<1>2. Matched(cond) \in Seq(Range(nodes))
  BY <1>1, FetchedFacts DEF Matched
<1>3. \A nd \in Range(nodes) : nd.at \in NodeAt
  BY DEF Range, NodeAt
<1> QED
  BY <1>2, <1>3

LEMMA StartCreateInv ==
    ASSUME Inv, NEW name, NEW type, NEW cond1, NEW cond2, StartCreate(name, type, cond1, cond2)
    PROVE  Inv'
<1> DEFINE ones == Matched(cond1)
           twos == Matched(cond2)
           N == Len(ones) * Len(twos)
           job(k) == [op |-> "create", name |-> name, type |-> type,
                      one |-> ones[((k - 1) \div Len(twos)) + 1].at,
                      two |-> twos[((k - 1) % Len(twos)) + 1].at]
<1>1. todo' = [k \in 1 .. N |-> job(k)] /\ UNCHANGED <<nodes, link, first, last, used>>
  BY DEF StartCreate
<1>2. Len(ones) \in Nat /\ Len(twos) \in Nat /\ N \in Nat
  BY MatchedFacts
<1>3. ASSUME NEW k \in 1 .. N
      PROVE  job(k).op = "create" /\ {job(k).one, job(k).two} \subseteq NodeAt
  BY <1>2, PairOf, MatchedFacts
<1> HIDE DEF job, N
<1>4. todo' \in Seq(Range(todo')) /\ DOMAIN todo' = 1 .. N
  <2>1. todo' \in [1 .. N -> Range(todo')]
    BY <1>1 DEF Range
  <2> QED
    BY <1>2, <2>1, SeqOfNumbered
<1>5. NodeAt' = NodeAt /\ Linked' /\ Apart'
  BY <1>1 DEF Inv, NodeAt, Linked, Apart, Iterated, NameBlocks
<1>6. \A k \in DOMAIN todo' : todo'[k].op = "create" /\ {todo'[k].one, todo'[k].two} \subseteq NodeAt
  BY <1>1, <1>3, <1>4
<1> QED
  BY <1>4, <1>5, <1>6 DEF Inv, Planned

LEMMA StartDeleteInv ==
    ASSUME Inv, NEW name, NEW type, NEW cond1, NEW cond2, StartDelete(name, type, cond1, cond2)
    PROVE  Inv'
<1>1. PICK isNull \in BOOLEAN :
         todo' = [k \in DOMAIN Doomed(name, type, isNull) |->
                     [op |-> "delete", at |-> Doomed(name, type, isNull)[k],
                      copy |-> link[Doomed(name, type, isNull)[k]]]]
  BY DEF StartDelete
<1> DEFINE v == Doomed(name, type, isNull)
           job(k) == [op |-> "delete", at |-> v[k], copy |-> link[v[k]]]
<1>2. UNCHANGED <<nodes, link, first, last, used>>
  BY DEF StartDelete
<1>3. v \in Seq(DOMAIN link) /\ \A k, m \in DOMAIN v : v[k] = v[m] => k = m
  BY FetchedFacts DEF Inv, Linked, Whole, Chain, Doomed
<1> HIDE DEF v
<1>4. DOMAIN v = 1 .. Len(v) /\ Len(v) \in Nat
  BY <1>3
<1>5. todo' = [k \in 1 .. Len(v) |-> job(k)]
  BY <1>1, <1>4 DEF v
<1>6. \A k \in 1 .. Len(v) : job(k).op = "delete" /\ job(k).at = v[k]
  OBVIOUS
<1> HIDE DEF job
<1>7. /\ todo' \in Seq(Range(todo')) /\ DOMAIN todo' = 1 .. Len(v)
      /\ \A k \in DOMAIN todo' : todo'[k].op = "delete" /\ todo'[k].at = v[k]
  <2>1. todo' \in [1 .. Len(v) -> Range(todo')]
    BY <1>5 DEF Range
  <2>2. todo' \in Seq(Range(todo')) /\ DOMAIN todo' = 1 .. Len(v)
    BY <1>4, <2>1, SeqOfNumbered
  <2> QED
    BY <1>5, <1>6, <2>2
<1>8. NodeAt' = NodeAt /\ Linked' /\ Apart'
  BY <1>2 DEF Inv, NodeAt, Linked, Apart, Iterated, NameBlocks
<1> QED
  BY <1>2, <1>3, <1>4, <1>7, <1>8 DEF Inv, Planned

-----------------------------------------------------------------------------
(* The links *)

\* What a creation does to the list.
LEMMA CreateLinkList ==
    ASSUME Inv, NEW n \in Ptr \ used, NEW p \in Ptr \ used, CreateLink(n, p)
    PROVE  /\ Iterated' = Append(Iterated, p)
           /\ Linked'
           /\ DOMAIN link' = DOMAIN link \union {p} /\ p \notin DOMAIN link
           /\ link'[p].name_at = n
           /\ link'[p].one = Head(todo).one /\ link'[p].two = Head(todo).two
           /\ \A q \in DOMAIN link :
                 /\ link'[q].name_at = link[q].name_at
                 /\ link'[q].one = link[q].one /\ link'[q].two = link[q].two
<1> DEFINE job == Head(todo)
<1>1. /\ link' = [q \in DOMAIN link \union {p} |->
                     IF q = p
                     THEN [name |-> job.name, name_at |-> n, type |-> job.type,
                           one |-> job.one, two |-> job.two, prev |-> last, next |-> Null]
                     ELSE SetNext(link, last, p)[q]]
      /\ first' = IF first = Null THEN p ELSE first
      /\ last' = p
  BY DEF CreateLink, NextSet
<1>2. p \notin DOMAIN link /\ Whole(link, first, last, Iterated) /\ Fields(link)
  BY DEF Inv, Linked, Apart, Fields
<1>3. /\ DOMAIN link' = DOMAIN link \union {p}
      /\ link'[p] = [name |-> job.name, name_at |-> n, type |-> job.type,
                     one |-> job.one, two |-> job.two, prev |-> last, next |-> Null]
      /\ \A q \in DOMAIN link : link'[q] = SetNext(link, last, p)[q]
  BY <1>1, <1>2
<1>4. /\ DOMAIN link'[p] = {"name", "name_at", "type", "one", "two", "prev", "next"}
      /\ link'[p].prev = last /\ link'[p].next = Null /\ link'[p].name_at = n
      /\ link'[p].one = job.one /\ link'[p].two = job.two
  BY <1>3
<1>5. Whole(link', first', last', Append(Iterated, p))
  BY <1>1, <1>2, <1>3, <1>4, AppendWhole
<1>6. Iterated' = Append(Iterated, p)
  BY <1>5, WholeIsWalked DEF Iterated
<1>7. ASSUME NEW q \in DOMAIN link
      PROVE  /\ link'[q].name_at = link[q].name_at
             /\ link'[q].one = link[q].one /\ link'[q].two = link[q].two
             /\ DOMAIN link'[q] = DOMAIN link[q]
  BY <1>3 DEF SetNext, Inv, Linked
<1>8. Linked'
  BY <1>3, <1>4, <1>5, <1>6, <1>7 DEF Inv, Linked
<1> QED
  BY <1>2, <1>3, <1>4, <1>6, <1>7, <1>8

LEMMA CreateLinkInv ==
    ASSUME Inv, NEW n \in Ptr \ used, NEW p \in Ptr \ used, CreateLink(n, p)
    PROVE  Inv'
<1>1. /\ todo # <<>> /\ n # p /\ used' = used \union {n, p} /\ todo' = Tail(todo) /\ nodes' = nodes
  BY DEF CreateLink
<1>2. NodeAt' = NodeAt
  BY <1>1 DEF NodeAt
<1>3. /\ DOMAIN link' = DOMAIN link \union {p} /\ p \notin DOMAIN link
      /\ link'[p].name_at = n
      /\ \A q \in DOMAIN link : link'[q].name_at = link[q].name_at
      /\ Linked'
  BY CreateLinkList
<1>4. NameBlocks' = NameBlocks \union {n}
  <2>1. NameBlocks' = {link'[q].name_at : q \in DOMAIN link'}
    BY DEF NameBlocks
  <2>2. \A q \in DOMAIN link' : link'[q].name_at \in NameBlocks \union {n}
    BY <1>3 DEF NameBlocks
  <2>3. \A q \in DOMAIN link : link[q].name_at \in NameBlocks'
    BY <1>3, <2>1
  <2>4. n \in NameBlocks'
    BY <1>3, <2>1
  <2> QED
    BY <2>1, <2>2, <2>3, <2>4 DEF NameBlocks
<1>5. n \notin NodeAt \union DOMAIN link \union NameBlocks /\ p \notin NodeAt \union DOMAIN link \union NameBlocks
  BY DEF Inv, Apart
<1>6. ASSUME NEW q \in DOMAIN link', NEW r \in DOMAIN link', link'[q].name_at = link'[r].name_at
      PROVE  q = r
  <2>1. \A t \in DOMAIN link : link[t].name_at # n
    BY <1>5 DEF NameBlocks
  <2> QED
    BY <1>3, <1>6, <2>1 DEF Inv, Apart
<1>7. Apart'
  BY <1>1, <1>2, <1>3, <1>4, <1>5, <1>6 DEF Inv, Apart
<1>8. Planned'
  <2>1. todo \in Seq(Range(todo)) /\ todo # <<>>
    BY <1>1 DEF Inv, Planned
  <2>2. /\ \A k \in DOMAIN todo' : k + 1 \in DOMAIN todo /\ todo'[k] = todo[k + 1]
        /\ todo' \in Seq(Range(todo')) /\ DOMAIN todo' = 1 .. Len(todo) - 1
    BY <1>1, <2>1, TailFacts
  <2>3. \A k, m \in DOMAIN todo' : k + 1 = m + 1 => k = m
    BY <2>2
  <2> QED
    BY <1>2, <1>3, <2>2, <2>3 DEF Inv, Planned
<1> QED
  BY <1>3, <1>7, <1>8 DEF Inv

\* What a deletion does to the list.
LEMMA DeleteLinkList ==
    ASSUME Inv, DeleteLink
    PROVE  LET p == Head(todo).at
           IN  /\ \E i \in DOMAIN Iterated : Iterated' = RemoveAt(Iterated, i)
               /\ Linked'
               /\ p \in DOMAIN link /\ DOMAIN link' = DOMAIN link \ {p}
               /\ used' = used \ {p, link[p].name_at}
               /\ \A q \in DOMAIN link' :
                     /\ link'[q].name_at = link[q].name_at
                     /\ link'[q].one = link[q].one /\ link'[q].two = link[q].two
<1> DEFINE p == Head(todo).at
<1>1. todo # <<>> /\ Head(todo).op = "delete"
  BY DEF DeleteLink
<1>2. p \in DOMAIN link
  BY <1>1, TailFacts DEF Inv, Planned
<1> HIDE DEF p
<1>3. /\ link' = Restrict(CloseAround(link, link[p]), DOMAIN link \ {p})
      /\ first' = IF p = first THEN link[p].next ELSE first
      /\ last' = IF p = last THEN link[p].prev ELSE last
      /\ used' = used \ {p, link[p].name_at}
  BY DEF DeleteLink, Reread, FirstMoved, LastMoved, Freed, p
<1>4. Whole(link, first, last, Iterated) /\ Fields(link)
  BY DEF Inv, Linked, Fields
<1>5. /\ DOMAIN link' = DOMAIN link \ {p}
      /\ \A q \in DOMAIN link' : link'[q] = CloseAround(link, link[p])[q]
  BY <1>3 DEF Restrict
<1>6. PICK i \in DOMAIN Iterated : Whole(link', first', last', RemoveAt(Iterated, i))
  BY <1>2, <1>3, <1>4, <1>5, RemoveWhole
<1>7. Iterated' = RemoveAt(Iterated, i)
  BY <1>6, WholeIsWalked DEF Iterated
<1>8. ASSUME NEW q \in DOMAIN link'
      PROVE  /\ link'[q].name_at = link[q].name_at
             /\ link'[q].one = link[q].one /\ link'[q].two = link[q].two
             /\ DOMAIN link'[q] = DOMAIN link[q]
  <2>1. q \in DOMAIN link /\ link'[q] = CloseAround(link, link[p])[q]
    BY <1>5
  <2>2. {"next", "prev", "name_at", "one", "two"} \subseteq DOMAIN link[q]
    BY <2>1 DEF Inv, Linked
  <2>3. DOMAIN CloseAround(link, link[p])[q] = DOMAIN link[q]
    BY <2>1 DEF CloseAround, SetNext, SetPrev
  <2> QED
    BY <2>1, <2>2, <2>3, OtherFields
<1>9. Linked'
  BY <1>5, <1>6, <1>7, <1>8 DEF Inv, Linked
<1> QED
  BY <1>2, <1>3, <1>5, <1>7, <1>8, <1>9 DEF p

LEMMA DeleteLinkInv ==
    ASSUME Inv, DeleteLink
    PROVE  Inv'
<1> DEFINE p == Head(todo).at
<1>1. /\ todo # <<>> /\ Head(todo).op = "delete" /\ todo' = Tail(todo) /\ nodes' = nodes
  BY DEF DeleteLink
<1>2. /\ p \in DOMAIN link /\ DOMAIN link' = DOMAIN link \ {p}
      /\ used' = used \ {p, link[p].name_at}
      /\ \A q \in DOMAIN link' : link'[q].name_at = link[q].name_at
      /\ Linked'
  BY DeleteLinkList
<1>3. NodeAt' = NodeAt
  BY <1>1 DEF NodeAt
<1>4. todo[1].op = "delete" /\ todo[1].at = p
  BY <1>1, TailFacts DEF Inv, Planned
<1> HIDE DEF p
<1>5. NameBlocks' = NameBlocks \ {link[p].name_at}
  BY <1>2 DEF NameBlocks, Inv, Apart
<1>6. Apart'
  <2>1. p \in DOMAIN link /\ link[p].name_at \in NameBlocks
    BY <1>2 DEF NameBlocks
  <2>2. used' = NodeAt' \union DOMAIN link' \union NameBlocks'
    BY <1>2, <1>3, <1>5, <2>1 DEF Inv, Apart
  <2> QED
    BY <1>1, <1>2, <1>3, <1>5, <2>2 DEF Inv, Apart
<1>7. Planned'
  <2>1. \A k \in DOMAIN todo' : k + 1 \in DOMAIN todo /\ todo'[k] = todo[k + 1]
    BY <1>1, TailFacts DEF Inv, Planned
  <2>2. ASSUME NEW k \in DOMAIN todo', todo'[k].op = "delete"
        PROVE  todo'[k].at \in DOMAIN link'
    <3>1. k + 1 # 1 /\ 1 \in DOMAIN todo
      BY <1>1, TailFacts DEF Inv, Planned
    <3> QED
      BY <1>2, <1>4, <2>1, <2>2, <3>1 DEF Inv, Planned
  <2>3. todo' \in Seq(Range(todo'))
    BY <1>1, TailFacts DEF Inv, Planned
  <2>4. \A k, m \in DOMAIN todo' : k + 1 = m + 1 => k = m
    BY <1>1, TailFacts DEF Inv, Planned
  <2> QED
    BY <1>3, <2>1, <2>2, <2>3, <2>4 DEF Inv, Planned
<1> QED
  BY <1>2, <1>6, <1>7 DEF Inv

-----------------------------------------------------------------------------
(* The theorems *)

LEMMA StutterInv ==
    ASSUME Inv, UNCHANGED vars
    PROVE  Inv'
<1>1. UNCHANGED <<nodes, link, first, last, used, todo>>
  BY DEF vars
<1>2. NodeAt' = NodeAt /\ NameBlocks' = NameBlocks /\ Iterated' = Iterated
  BY <1>1 DEF NodeAt, NameBlocks, Iterated
<1>3. Linked' /\ Apart'
  BY <1>1, <1>2 DEF Inv, Linked, Apart
<1>4. Planned'
  BY <1>1, <1>2 DEF Inv, Planned
<1> QED
  BY <1>3, <1>4 DEF Inv

LEMMA NextInv ==
    ASSUME Inv, [Next]_vars
    PROVE  Inv'
<1>1. ASSUME NEW score \in Scores, NEW p \in Ptr \ used, AddNode(score, p)
      PROVE  Inv'
  BY <1>1, AddNodeInv
<1>2. ASSUME NEW i \in DOMAIN nodes, DropNode(i)
      PROVE  Inv'
  BY <1>2, DropNodeInv
<1>3. ASSUME NEW name \in Names, NEW type \in Types, NEW c1 \in Conditions, NEW c2 \in Conditions,
             StartCreate(name, type, c1, c2)
      PROVE  Inv'
  BY <1>3, StartCreateInv
<1>4. ASSUME NEW n \in Ptr \ used, NEW p \in Ptr \ used, CreateLink(n, p)
      PROVE  Inv'
  BY <1>4, CreateLinkInv
<1>5. ASSUME NEW name \in Names, NEW type \in Types \union {AnyType}, NEW c1 \in Conditions,
             NEW c2 \in Conditions, StartDelete(name, type, c1, c2)
      PROVE  Inv'
  BY <1>5, StartDeleteInv
<1>6. CASE DeleteLink
  BY <1>6, DeleteLinkInv
<1>7. CASE UNCHANGED vars
  BY <1>7, StutterInv
<1> QED
  BY <1>1, <1>2, <1>3, <1>4, <1>5, <1>6, <1>7 DEF Next

LEMMA Invariance == Spec => []Inv
<1>1. Init => Inv
  BY InitInv
<1>2. Inv /\ [Next]_vars => Inv'
  BY NextInv
<1> QED
  BY <1>1, <1>2, PTL DEF Spec

\* The list of the links is whole at any time, also between the deletions of
\* one query: from either end the same links, all of them, and the header
\* names its two ends.
THEOREM LinksAreWhole == Spec => []ListSound
<1>1. Inv => ListSound
  BY WholeIsLinked DEF Inv, Linked, ListSound
<1> QED
  BY <1>1, Invariance, PTL

\* No block is used by two, and none is left in use when its owner is gone.
THEOREM LinkBlocksOwned == Spec => []OwnedOnce
<1>1. ASSUME Inv
      PROVE  OwnedOnce
  <2> DEFINE at == [i \in 1 .. Len(nodes) |-> nodes[i].at]
             nameAt == [p \in DOMAIN link |-> link[p].name_at]
  <2>1. Len(nodes) \in Nat /\ DOMAIN nodes = 1 .. Len(nodes)
    BY <1>1 DEF Inv, Apart
  <2>2. at \in Bijection(1 .. Len(nodes), NodeAt)
    BY <1>1, <2>1 DEF Inv, Apart, NodeAt, Bijection, Injection, Surjection, IsInjective
  <2>3. nameAt \in Bijection(DOMAIN link, NameBlocks)
    BY <1>1 DEF Inv, Apart, NameBlocks, Bijection, Injection, Surjection, IsInjective
  <2> HIDE DEF at, nameAt
  <2>4. IsFiniteSet(NodeAt) /\ Cardinality(NodeAt) = Len(nodes)
    <3>1. ASSUME NEW n \in Nat
          PROVE  IsFiniteSet(1 .. n) /\ Cardinality(1 .. n) = n
      BY FS_Interval
    <3>2. IsFiniteSet(1 .. Len(nodes)) /\ Cardinality(1 .. Len(nodes)) = Len(nodes)
      BY <2>1, <3>1
    <3> QED
      BY <2>2, <3>2, FS_Bijection DEF ExistsBijection
  <2>5. IsFiniteSet(DOMAIN link)
    BY <1>1, WholeIsPointed DEF Inv, Linked, Pointed
  <2>6. IsFiniteSet(NameBlocks) /\ Cardinality(NameBlocks) = Cardinality(DOMAIN link)
    BY <2>3, <2>5, FS_Bijection DEF ExistsBijection
  <2>7. IsFiniteSet(NodeAt \union DOMAIN link)
        /\ Cardinality(NodeAt \union DOMAIN link) = Len(nodes) + Cardinality(DOMAIN link)
    <3>1. NodeAt \intersect DOMAIN link = {}
      BY <1>1 DEF Inv, Apart
    <3> QED
      BY <2>1, <2>4, <2>5, <3>1, CardinalityOfUnion
  <2>8. Cardinality(used) = Len(nodes) + Cardinality(DOMAIN link) + Cardinality(DOMAIN link)
    <3>1. (NodeAt \union DOMAIN link) \intersect NameBlocks = {}
          /\ used = (NodeAt \union DOMAIN link) \union NameBlocks
      BY <1>1 DEF Inv, Apart
    <3>2. Cardinality((NodeAt \union DOMAIN link) \union NameBlocks)
             = Cardinality(NodeAt \union DOMAIN link) + Cardinality(NameBlocks)
      BY <2>6, <2>7, <3>1, CardinalityOfUnion
    <3> QED
      BY <2>6, <2>7, <3>1, <3>2
  <2>9. Cardinality(DOMAIN link) \in Nat
    BY <2>5, FS_CardinalityType
  <2> QED
    BY <1>1, <2>1, <2>8, <2>9 DEF OwnedOnce, Inv, Apart, NameBlocks
<1> QED
  BY <1>1, Invariance, PTL

\* A query on links never makes a link to what is not a node.
THEOREM OnlyDropsDangle == Spec => OnlyNodeDropDangles
<1>1. ASSUME Inv, [Next]_vars, LinksJoinNodes, NodeAt \subseteq NodeAt'
      PROVE  LinksJoinNodes'
  <2>1. ASSUME NEW n \in Ptr \ used, NEW p \in Ptr \ used, CreateLink(n, p)
        PROVE  LinksJoinNodes'
    <3>1. todo # <<>> /\ Head(todo).op = "create"
      BY <2>1 DEF CreateLink
    <3>2. {Head(todo).one, Head(todo).two} \subseteq NodeAt
      BY <1>1, <3>1, TailFacts DEF Inv, Planned
    <3>3. /\ DOMAIN link' = DOMAIN link \union {p}
          /\ link'[p].one = Head(todo).one /\ link'[p].two = Head(todo).two
          /\ \A q \in DOMAIN link : link'[q].one = link[q].one /\ link'[q].two = link[q].two
      BY <1>1, <2>1, CreateLinkList
    <3> QED
      BY <1>1, <3>2, <3>3 DEF LinksJoinNodes
  <2>2. CASE DeleteLink
    <3>1. /\ DOMAIN link' \subseteq DOMAIN link
          /\ \A q \in DOMAIN link' : link'[q].one = link[q].one /\ link'[q].two = link[q].two
      BY <1>1, <2>2, DeleteLinkList
    <3> QED
      BY <1>1, <3>1 DEF LinksJoinNodes
  <2>3. CASE UNCHANGED link
    BY <1>1, <2>3 DEF LinksJoinNodes
  <2> QED
    BY <1>1, <2>1, <2>2, <2>3 DEF Next, AddNode, DropNode, StartCreate, StartDelete, vars
<1>2. Inv /\ [Next]_vars => (LinksJoinNodes /\ NodeAt \subseteq NodeAt' => LinksJoinNodes')
  BY <1>1
<1> QED
  BY <1>2, Invariance, PTL DEF Spec, OnlyNodeDropDangles

\* The links in the order of iteration are a sequence that grows at its end
\* and from which single elements are taken.
THEOREM LinksAreASequence == Spec => EntitiesSpec
<1>1. Init => Entities!Init
  <2> SUFFICES ASSUME Init
               PROVE  Iterated = <<>>
    BY DEF Entities!Init
  <2>1. Whole(link, first, last, <<>>)
    BY DEF Init, Whole, Chain, AtPos
  <2> QED
    BY <2>1, WholeIsWalked DEF Iterated
<1>2. ASSUME Inv, [Next]_vars
      PROVE  [Entities!Next]_Iterated
  <2>1. ASSUME NEW n \in Ptr \ used, NEW p \in Ptr \ used, CreateLink(n, p)
        PROVE  Entities!Next
    <3>1. Iterated' = Append(Iterated, p) /\ p \notin DOMAIN link
      BY <1>2, <2>1, CreateLinkList
    <3>2. \A i \in DOMAIN Iterated : Iterated[i] # p
      BY <1>2, <3>1 DEF Inv, Linked, Whole, Chain
    <3> QED
      BY <3>1, <3>2 DEF Entities!Next, Entities!Add
  <2>2. CASE DeleteLink
    BY <1>2, <2>2, DeleteLinkList DEF Entities!Next, Entities!Take, RemoveAt
  <2>3. CASE UNCHANGED <<link, first>>
    BY <2>3 DEF Iterated
  <2> QED
    BY <1>2, <2>1, <2>2, <2>3 DEF Next, AddNode, DropNode, StartCreate, StartDelete, vars
<1>3. Inv /\ [Next]_vars => [Entities!Next]_Iterated
  BY <1>2
<1> QED
  BY <1>1, <1>3, Invariance, PTL DEF Spec, EntitiesSpec, Entities!Spec
=============================================================================
