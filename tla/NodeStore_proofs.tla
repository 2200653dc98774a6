-------------------------- MODULE NodeStore_proofs --------------------------
(***************************************************************************)
(* The list of the nodes and their values and texts, proved for any        *)
(* addresses and any numbers of attributes: the list is whole at any time, *)
(* each block has one owner, and the nodes implement a sequence in order   *)
(* of creation.                                                            *)
(*                                                                         *)
(* The second half is about CrashStore, which has the same list, or that   *)
(* of the links, as the writes that reach the file, for any addresses, any *)
(* numbers of attributes and any number of processes that end: what is     *)
(* found in the file afterwards, and what is lost of it.                   *)
(***************************************************************************)
EXTENDS NodeStore, CrashStore, EntityList_proofs

-----------------------------------------------------------------------------
(* The invariant.  OwnedOnce is strengthened by the list being whole and   *)
(* by what the plan of a query refers to: a query either deletes, and      *)
(* deletes no node twice, or updates attributes that are there.            *)

Linked ==
    /\ Whole(node, first, last, Iterated)
    /\ \A p \in DOMAIN node : {"next", "prev", "values"} \subseteq DOMAIN node[p]

Planned ==
    /\ todo \in Seq(Range(todo))
    /\ \A k, m \in DOMAIN todo :
          /\ todo[k].op = todo[m].op
          /\ todo[k].op = "delete" /\ todo[k].at = todo[m].at => k = m
    /\ \A k \in DOMAIN todo :
          todo[k].op = "update" => todo[k].change.index \in DOMAIN node[todo[k].at].values

Inv == Linked /\ OwnedOnce /\ Planned

LEMMA InitInv == Init => Inv
<1> SUFFICES ASSUME Init
             PROVE  Inv
  OBVIOUS
<1>1. DOMAIN node = {} /\ DOMAIN value = {} /\ todo = <<>> /\ DOMAIN todo = {} /\ used = {}
  BY DEF Init
<1>2. Whole(node, first, last, <<>>)
  BY <1>1 DEF Init, Whole, Chain, AtPos
<1>3. Linked
  BY <1>1, <1>2, WholeIsWalked DEF Linked, Iterated
<1>4. OwnedOnce
  BY <1>1 DEF OwnedOnce, Strings
<1>5. Planned
  BY <1>1 DEF Planned
<1> QED
  BY <1>3, <1>4, <1>5 DEF Inv

-----------------------------------------------------------------------------
(* The plans *)

LEMMA VectorFacts ==
    ASSUME Inv, NEW accepted
    PROVE  /\ Len(Vector(accepted)) \in Nat /\ DOMAIN Vector(accepted) = 1 .. Len(Vector(accepted))
           /\ \A k \in DOMAIN Vector(accepted) : Vector(accepted)[k] \in DOMAIN node
           /\ \A k, m \in DOMAIN Vector(accepted) : Vector(accepted)[k] = Vector(accepted)[m] => k = m
<1>1. /\ Vector(accepted) \in Seq(DOMAIN node)
      /\ \A k, m \in DOMAIN Vector(accepted) : Vector(accepted)[k] = Vector(accepted)[m] => k = m
  BY FetchedFacts DEF Inv, Linked, Whole, Chain, Vector
<1> QED
  BY <1>1

\* A step that only plans.
LEMMA PlanInv ==
    ASSUME Inv, UNCHANGED <<used, first, last, node, value>>, Planned',
           \A k \in DOMAIN todo' : todo'[k].at \in DOMAIN node
    PROVE  Inv'
<1>1. Iterated' = Iterated /\ Strings' = Strings
  BY DEF Iterated, Strings
<1>2. Linked'
  BY <1>1 DEF Inv, Linked
<1>3. OwnedOnce'
  BY <1>1 DEF Inv, OwnedOnce
<1> QED
  BY <1>2, <1>3 DEF Inv

LEMMA StartDeleteInv ==
    ASSUME Inv, NEW accepted, StartDelete(accepted)
    PROVE  Inv'
<1> DEFINE v == Vector(accepted)
           job(k) == [op |-> "delete", at |-> v[k], copy |-> node[v[k]]]
<1>1. todo' = [k \in DOMAIN v |-> job(k)] /\ UNCHANGED <<used, first, last, node, value>>
  BY DEF StartDelete
<1>2. \A k \in DOMAIN v : job(k).op = "delete" /\ job(k).at = v[k]
  OBVIOUS
<1>3. /\ Len(v) \in Nat /\ DOMAIN v = 1 .. Len(v) /\ \A k \in DOMAIN v : v[k] \in DOMAIN node
      /\ \A k, m \in DOMAIN v : v[k] = v[m] => k = m
  BY VectorFacts
<1> HIDE DEF job, v
<1>4. todo' \in Seq(Range(todo')) /\ DOMAIN todo' = DOMAIN v
  <2>1. todo' \in [1 .. Len(v) -> Range(todo')]
    BY <1>1, <1>3 DEF Range
  <2> QED
    BY <1>3, <2>1, SeqOfNumbered
<1>5. \A k \in DOMAIN todo' : todo'[k].op = "delete" /\ todo'[k].at = v[k]
  BY <1>1, <1>2, <1>4
<1>6. Planned'
  BY <1>3, <1>4, <1>5 DEF Planned
<1> QED
  BY <1>1, <1>3, <1>4, <1>5, <1>6, PlanInv

LEMMA StartUpdateInv ==
    ASSUME Inv, NEW accepted, NEW changes \in Changes, StartUpdate(accepted, changes)
    PROVE  Inv'
<1> DEFINE v == Vector(accepted)
           n == Len(changes)
           one(k) == ((k - 1) \div n) + 1
           two(k) == ((k - 1) % n) + 1
           job(k) == [op |-> "update", at |-> v[one(k)], change |-> changes[two(k)]]
<1>1. /\ \A k \in DOMAIN v, j \in DOMAIN changes : changes[j].index \in DOMAIN node[v[k]].values
      /\ todo' = [k \in 1 .. n * Len(v) |-> job(k)] /\ UNCHANGED <<used, first, last, node, value>>
  BY DEF StartUpdate
<1>2. \A k \in 1 .. n * Len(v) : job(k).op = "update" /\ job(k).at = v[one(k)] /\ job(k).change = changes[two(k)]
  OBVIOUS
<1>3. n \in Nat /\ DOMAIN changes = 1 .. n
  BY SeqDef DEF Changes
<1>4. Len(v) \in Nat /\ DOMAIN v = 1 .. Len(v) /\ \A k \in DOMAIN v : v[k] \in DOMAIN node
  BY VectorFacts
<1> HIDE DEF job, v, n
<1>5. n * Len(v) \in Nat /\ n * Len(v) = Len(v) * n
  BY <1>3, <1>4
<1>6. \A k \in 1 .. n * Len(v) : one(k) \in DOMAIN v /\ two(k) \in DOMAIN changes
  BY <1>3, <1>4, <1>5, PairOf
<1> HIDE DEF one, two
<1>7. todo' \in Seq(Range(todo')) /\ DOMAIN todo' = 1 .. n * Len(v)
  <2>1. todo' \in [1 .. n * Len(v) -> Range(todo')]
    BY <1>1 DEF Range
  <2> QED
    BY <1>5, <2>1, SeqOfNumbered
<1>8. \A k \in DOMAIN todo' :
         todo'[k].op = "update" /\ todo'[k].at = v[one(k)] /\ todo'[k].change = changes[two(k)]
  BY <1>1, <1>2, <1>7
<1>9. Planned'
  BY <1>1, <1>6, <1>7, <1>8 DEF Planned
<1> QED
  BY <1>1, <1>4, <1>6, <1>7, <1>8, <1>9, PlanInv

-----------------------------------------------------------------------------
(* The creation of a node *)

NewNode(at) == at[<<"node", 0>>]
NewValues(kinds, at) == {at[<<"value", i>>] : i \in DOMAIN kinds}
Texts(kinds) == {i \in DOMAIN kinds : kinds[i] = "string"}
NewStrings(kinds, at) == {at[<<"string", i>>] : i \in Texts(kinds)}

\* The blocks that a node is given are apart, and apart from all in use.
LEMMA NewBlocks ==
    ASSUME NEW kinds, NEW at \in Injection(Parts(kinds), Ptr \ used)
    PROVE  /\ Range(at) = {NewNode(at)} \union NewValues(kinds, at) \union NewStrings(kinds, at)
           /\ Range(at) \subseteq Ptr \ used
           /\ NewNode(at) \notin NewValues(kinds, at) \union NewStrings(kinds, at)
           /\ NewValues(kinds, at) \intersect NewStrings(kinds, at) = {}
           /\ \A i, j \in DOMAIN kinds : at[<<"value", i>>] = at[<<"value", j>>] => i = j
           /\ \A i, j \in Texts(kinds) : at[<<"string", i>>] = at[<<"string", j>>] => i = j
<1>1. /\ at \in [Parts(kinds) -> Ptr \ used] /\ DOMAIN at = Parts(kinds)
      /\ \A a, b \in Parts(kinds) : at[a] = at[b] => a = b
  BY DEF Injection, IsInjective
<1>2. Parts(kinds) = {<<"node", 0>>} \union {<<"value", i>> : i \in DOMAIN kinds}
                        \union {<<"string", i>> : i \in Texts(kinds)}
  BY DEF Parts, Texts
<1>3. Texts(kinds) \subseteq DOMAIN kinds
  BY DEF Texts
<1>4. Range(at) = {at[a] : a \in Parts(kinds)}
  BY <1>1 DEF Range
<1>5. Range(at) = {NewNode(at)} \union NewValues(kinds, at) \union NewStrings(kinds, at)
  BY <1>2, <1>4 DEF NewNode, NewValues, NewStrings
<1>6. Range(at) \subseteq Ptr \ used
  BY <1>1, <1>4
<1>7. NewNode(at) \notin NewValues(kinds, at) \union NewStrings(kinds, at)
  BY <1>1, <1>2 DEF NewNode, NewValues, NewStrings
<1>8. NewValues(kinds, at) \intersect NewStrings(kinds, at) = {}
  BY <1>1, <1>2 DEF NewValues, NewStrings
<1>9. \A i, j \in DOMAIN kinds : at[<<"value", i>>] = at[<<"value", j>>] => i = j
  BY <1>1, <1>2
<1>10. \A i, j \in Texts(kinds) : at[<<"string", i>>] = at[<<"string", j>>] => i = j
  BY <1>1, <1>2
<1> QED
  BY <1>5, <1>6, <1>7, <1>8, <1>9, <1>10

\* What a creation writes.
LEMMA CreateWrites ==
    ASSUME Inv, NEW kinds, NEW at \in Injection(Parts(kinds), Ptr \ used), Create(kinds, at)
    PROVE  /\ Iterated' = Append(Iterated, NewNode(at))
           /\ Linked'
           /\ DOMAIN node' = DOMAIN node \union {NewNode(at)}
           /\ DOMAIN node'[NewNode(at)].values = DOMAIN kinds
           /\ \A i \in DOMAIN kinds : node'[NewNode(at)].values[i] = at[<<"value", i>>]
           /\ \A q \in DOMAIN node : node'[q].values = node[q].values
           /\ DOMAIN value' = DOMAIN value \union NewValues(kinds, at)
           /\ \A v \in DOMAIN value : value'[v] = value[v]
           /\ \A i \in DOMAIN kinds :
                 value'[at[<<"value", i>>]] = IF i \in Texts(kinds) THEN at[<<"string", i>>] ELSE Null
<1> DEFINE p == NewNode(at)
           vals == [i \in DOMAIN kinds |-> at[<<"value", i>>]]
           source(v) == CHOOSE k \in DOMAIN kinds : vals[k] = v
           text(v) == IF kinds[source(v)] = "string" THEN at[<<"string", source(v)>>] ELSE Null
           block == [values |-> vals, prev |-> last, next |-> Null]
<1>1. /\ value' = [v \in DOMAIN value \union Range(vals) |->
                      IF v \in Range(vals) THEN text(v) ELSE value[v]]
      /\ node' = [q \in DOMAIN node \union {p} |-> IF q = p THEN block ELSE SetNext(node, last, p)[q]]
      /\ first' = IF first = Null THEN p ELSE first
      /\ last' = p
  <2>1. value' = [v \in DOMAIN value \union Range(vals) |-> IF v \in Range(vals) THEN text(v) ELSE value[v]]
    BY Zenon DEF Create
  <2>2. node' = [q \in DOMAIN node \union {p} |-> IF q = p THEN block ELSE SetNext(node, last, p)[q]]
    BY DEF Create, NewNode
  <2>3. first' = (IF first = Null THEN p ELSE first) /\ last' = p
    BY DEF Create, NewNode, NewLast
  <2> QED
    BY <2>1, <2>2, <2>3
<1>2. Range(vals) = NewValues(kinds, at)
  BY DEF Range, NewValues
<1>3. block.values = vals /\ block.prev = last /\ block.next = Null /\ DOMAIN block = {"values", "prev", "next"}
  OBVIOUS
<1>4. Whole(node, first, last, Iterated) /\ Fields(node)
  BY DEF Inv, Linked, Fields
<1>5. p \in Ptr \ DOMAIN node /\ NewValues(kinds, at) \intersect DOMAIN value = {}
  BY NewBlocks DEF Inv, OwnedOnce
<1>6. ASSUME NEW i \in DOMAIN kinds
      PROVE  text(vals[i]) = IF i \in Texts(kinds) THEN at[<<"string", i>>] ELSE Null
  <2>1. \A j \in DOMAIN kinds : vals[j] = vals[i] => j = i
    BY NewBlocks
  <2>2. source(vals[i]) = i
    BY <2>1
  <2> HIDE DEF source
  <2> QED
    BY <2>2 DEF Texts
<1>7. \A i \in DOMAIN kinds : vals[i] = at[<<"value", i>>] /\ vals[i] \in Range(vals)
  BY DEF Range
<1> HIDE DEF block, vals, text, p
<1>8. /\ DOMAIN node' = DOMAIN node \union {p} /\ node'[p] = block
      /\ \A q \in DOMAIN node : node'[q] = SetNext(node, last, p)[q]
  BY <1>1, <1>5
<1>9. Whole(node', first', last', Append(Iterated, p))
  BY <1>1, <1>3, <1>4, <1>5, <1>8, AppendWhole
<1>10. Iterated' = Append(Iterated, p)
  BY <1>9, WholeIsWalked DEF Iterated
<1>11. ASSUME NEW q \in DOMAIN node
       PROVE  node'[q].values = node[q].values /\ DOMAIN node'[q] = DOMAIN node[q]
  BY <1>8 DEF SetNext, Inv, Linked
<1>12. Linked'
  BY <1>3, <1>8, <1>9, <1>10, <1>11 DEF Inv, Linked
<1>13. \A v \in DOMAIN value : value'[v] = value[v]
  BY <1>1, <1>2, <1>5
<1>14. \A i \in DOMAIN kinds :
          value'[at[<<"value", i>>]] = IF i \in Texts(kinds) THEN at[<<"string", i>>] ELSE Null
  BY <1>1, <1>6, <1>7
<1>15. DOMAIN value' = DOMAIN value \union NewValues(kinds, at)
  BY <1>1, <1>2
<1> QED
  BY <1>3, <1>8, <1>10, <1>11, <1>12, <1>13, <1>14, <1>15 DEF p, vals

LEMMA CreateInv ==
    ASSUME Inv, NEW kinds, NEW at \in Injection(Parts(kinds), Ptr \ used), Create(kinds, at)
    PROVE  Inv'
<1> DEFINE p == NewNode(at)
           V == NewValues(kinds, at)
           T == NewStrings(kinds, at)
<1>1. /\ DOMAIN node' = DOMAIN node \union {p}
      /\ DOMAIN node'[p].values = DOMAIN kinds
      /\ \A i \in DOMAIN kinds : node'[p].values[i] = at[<<"value", i>>]
      /\ \A q \in DOMAIN node : node'[q].values = node[q].values
      /\ DOMAIN value' = DOMAIN value \union V
      /\ \A v \in DOMAIN value : value'[v] = value[v]
      /\ \A i \in DOMAIN kinds :
            value'[at[<<"value", i>>]] = IF i \in Texts(kinds) THEN at[<<"string", i>>] ELSE Null
      /\ Linked'
  BY CreateWrites
<1>2. /\ Range(at) = {p} \union V \union T /\ Range(at) \subseteq Ptr \ used
      /\ p \notin V \union T /\ V \intersect T = {}
      /\ \A i, j \in DOMAIN kinds : at[<<"value", i>>] = at[<<"value", j>>] => i = j
      /\ \A i, j \in Texts(kinds) : at[<<"string", i>>] = at[<<"string", j>>] => i = j
  BY NewBlocks
<1>3. used' = used \union Range(at) /\ todo' = todo /\ todo = <<>> /\ DOMAIN todo = {}
  BY DEF Create
<1>4. V = {at[<<"value", i>>] : i \in DOMAIN kinds} /\ T = {at[<<"string", i>>] : i \in Texts(kinds)}
      /\ Texts(kinds) \subseteq DOMAIN kinds
  BY DEF NewValues, NewStrings, Texts
<1>5. used = DOMAIN node \union DOMAIN value \union Strings
  BY DEF Inv, OwnedOnce
<1> HIDE DEF p, V, T
<1>6. /\ p \notin DOMAIN node /\ V \intersect DOMAIN value = {} /\ T \intersect Strings = {} /\ Null \notin T
      /\ ({p} \union V \union T) \intersect (DOMAIN node \union DOMAIN value \union Strings) = {}
  BY <1>2, <1>5, EntityListAssumption
<1>7. Strings' = Strings \union T
  <2>1. Strings' = {value'[v] : v \in DOMAIN value'} \ {Null}
    BY DEF Strings
  <2>2. ASSUME NEW v \in DOMAIN value', value'[v] # Null
        PROVE  value'[v] \in Strings \union T
    <3>1. CASE v \in DOMAIN value
      BY <1>1, <2>2, <3>1 DEF Strings
    <3>2. CASE v \in V
      <4>1. PICK i \in DOMAIN kinds : v = at[<<"value", i>>]
        BY <1>4, <3>2
      <4>2. i \in Texts(kinds) /\ value'[v] = at[<<"string", i>>]
        BY <1>1, <2>2, <4>1
      <4> QED
        BY <1>4, <4>2
    <3> QED
      BY <1>1, <3>1, <3>2
  <2>3. \A v \in DOMAIN value : value[v] # Null => value[v] \in Strings'
    BY <1>1, <2>1
  <2>4. \A i \in Texts(kinds) : at[<<"string", i>>] \in Strings'
    BY <1>1, <1>4, <1>6, <2>1
  <2> QED
    BY <1>4, <2>1, <2>2, <2>3, <2>4 DEF Strings
<1>8. Range(node'[p].values) = V
  <2>1. Range(node'[p].values) = {node'[p].values[i] : i \in DOMAIN kinds}
    BY <1>1 DEF Range
  <2>2. \A i \in DOMAIN kinds : node'[p].values[i] = at[<<"value", i>>]
    BY <1>1
  <2>3. V = {at[<<"value", i>>] : i \in DOMAIN kinds}
    BY <1>4
  <2> QED
    BY <2>1, <2>2, <2>3
<1>9. used' = DOMAIN node' \union DOMAIN value' \union Strings'
  BY <1>1, <1>2, <1>3, <1>5, <1>7
<1>10. /\ DOMAIN node' \intersect DOMAIN value' = {}
       /\ (DOMAIN node' \union DOMAIN value') \intersect Strings' = {}
  BY <1>1, <1>2, <1>6, <1>7 DEF Inv, OwnedOnce
<1>11. DOMAIN value' = UNION {Range(node'[q].values) : q \in DOMAIN node'}
  <2>1. DOMAIN value = UNION {Range(node[q].values) : q \in DOMAIN node}
    BY DEF Inv, OwnedOnce
  <2>2. \A q \in DOMAIN node : Range(node'[q].values) = Range(node[q].values)
    BY <1>1
  <2> QED
    BY <1>1, <1>8, <2>1, <2>2
<1>12. ASSUME NEW q \in DOMAIN node', NEW r \in DOMAIN node',
              NEW i \in DOMAIN node'[q].values, NEW j \in DOMAIN node'[r].values,
              node'[q].values[i] = node'[r].values[j]
       PROVE  q = r /\ i = j
  <2>1. \A t \in DOMAIN node : \A k \in DOMAIN node[t].values : node[t].values[k] \in DOMAIN value
    BY DEF Inv, OwnedOnce, Range
  <2>2. \A k \in DOMAIN node'[p].values : k \in DOMAIN kinds /\ node'[p].values[k] = at[<<"value", k>>]
                                          /\ node'[p].values[k] \in V
    BY <1>1, <1>4
  <2>3. CASE q \in DOMAIN node /\ r \in DOMAIN node
    BY <1>1, <1>12, <2>3 DEF Inv, OwnedOnce
  <2>4. CASE q = p /\ r = p
    BY <1>2, <1>12, <2>2, <2>4
  <2>5. CASE q \in DOMAIN node /\ r = p
    BY <1>1, <1>6, <1>12, <2>1, <2>2, <2>5
  <2>6. CASE q = p /\ r \in DOMAIN node
    BY <1>1, <1>6, <1>12, <2>1, <2>2, <2>6
  <2> QED
    BY <1>1, <2>3, <2>4, <2>5, <2>6
<1>13. ASSUME NEW v \in DOMAIN value', NEW w \in DOMAIN value', value'[v] = value'[w], value'[v] # Null
       PROVE  v = w
  <2>1. \A u \in V : value'[u] # Null => \E i \in Texts(kinds) : u = at[<<"value", i>>] /\ value'[u] = at[<<"string", i>>]
    <3> TAKE u \in V
    <3>1. PICK i \in DOMAIN kinds : u = at[<<"value", i>>]
      BY <1>4
    <3> QED
      BY <1>1, <3>1
  <2>2. \A u \in V : value'[u] # Null => value'[u] \in T
    BY <1>4, <2>1
  <2>3. \A u \in DOMAIN value : value'[u] # Null => value'[u] \in Strings
    BY <1>1 DEF Strings
  <2>4. CASE v \in V /\ w \in V
    <3>1. PICK i \in Texts(kinds) : v = at[<<"value", i>>] /\ value'[v] = at[<<"string", i>>]
      BY <1>13, <2>1, <2>4
    <3>2. PICK j \in Texts(kinds) : w = at[<<"value", j>>] /\ value'[w] = at[<<"string", j>>]
      BY <1>13, <2>1, <2>4
    <3>3. i = j
      BY <1>2, <1>13, <3>1, <3>2
    <3> QED
      BY <3>1, <3>2, <3>3
  <2>5. CASE v \in DOMAIN value /\ w \in DOMAIN value
    BY <1>1, <1>13, <2>5 DEF Inv, OwnedOnce
  <2> QED
    BY <1>1, <1>6, <1>13, <2>2, <2>3, <2>4, <2>5
<1>14. OwnedOnce'
  BY <1>3, <1>9, <1>10, <1>11, <1>12, <1>13 DEF OwnedOnce
<1>15. Planned'
  BY <1>3 DEF Inv, Planned
<1> QED
  BY <1>1, <1>14, <1>15 DEF Inv

-----------------------------------------------------------------------------
(* The deletion of a node *)

LEMMA DeleteWrites ==
    ASSUME Inv, DeleteNode
    PROVE  LET p == Head(todo).at
           IN  /\ \E i \in DOMAIN Iterated : Iterated' = RemoveAt(Iterated, i)
               /\ Linked'
               /\ p \in DOMAIN node /\ DOMAIN node' = DOMAIN node \ {p}
               /\ \A q \in DOMAIN node' : node'[q].values = node[q].values
               /\ used' = used \ BlocksOf(p, node[p])
               /\ DOMAIN value' = DOMAIN value \ Range(node[p].values)
               /\ \A v \in DOMAIN value' : value'[v] = value[v]
<1> DEFINE p == Head(todo).at
<1>1. todo # <<>> /\ Head(todo).op = "delete"
  BY DEF DeleteNode
<1>2. p \in DOMAIN node
  BY <1>1, TailFacts DEF Inv, OwnedOnce, Planned
<1> HIDE DEF p
<1>3. /\ node' = Restrict(CloseAround(node, node[p]), DOMAIN node \ {p})
      /\ value' = Restrict(value, DOMAIN value \ Range(node[p].values))
      /\ first' = IF p = first THEN node[p].next ELSE first
      /\ last' = IF p = last THEN node[p].prev ELSE last
      /\ used' = used \ BlocksOf(p, node[p])
  BY DEF DeleteNode, Reread, p
<1>4. Whole(node, first, last, Iterated) /\ Fields(node)
  BY DEF Inv, Linked, Fields
<1>5. /\ DOMAIN node' = DOMAIN node \ {p}
      /\ \A q \in DOMAIN node' : node'[q] = CloseAround(node, node[p])[q]
      /\ DOMAIN value' = DOMAIN value \ Range(node[p].values)
      /\ \A v \in DOMAIN value' : value'[v] = value[v]
  BY <1>3 DEF Restrict
<1>6. PICK i \in DOMAIN Iterated : Whole(node', first', last', RemoveAt(Iterated, i))
  BY <1>2, <1>3, <1>4, <1>5, RemoveWhole
<1>7. Iterated' = RemoveAt(Iterated, i)
  BY <1>6, WholeIsWalked DEF Iterated
<1>8. ASSUME NEW q \in DOMAIN node'
      PROVE  node'[q].values = node[q].values /\ DOMAIN node'[q] = DOMAIN node[q]
  BY <1>5 DEF CloseAround, SetNext, SetPrev, Inv, Linked
<1>9. Linked'
  BY <1>5, <1>6, <1>7, <1>8 DEF Inv, Linked
<1> QED
  BY <1>2, <1>3, <1>5, <1>7, <1>8, <1>9 DEF p

LEMMA DeleteInv ==
    ASSUME Inv, DeleteNode
    PROVE  Inv'
<1> DEFINE p == Head(todo).at
<1>1. /\ Linked'
      /\ p \in DOMAIN node /\ DOMAIN node' = DOMAIN node \ {p}
      /\ \A q \in DOMAIN node' : node'[q].values = node[q].values
      /\ used' = used \ BlocksOf(p, node[p])
      /\ DOMAIN value' = DOMAIN value \ Range(node[p].values)
      /\ \A v \in DOMAIN value' : value'[v] = value[v]
  BY DeleteWrites
<1>2. todo \in Seq(Range(todo)) /\ todo # <<>> /\ Head(todo).op = "delete" /\ todo' = Tail(todo)
  BY DEF DeleteNode, Inv, Planned
<1>3. /\ DOMAIN todo = 1 .. Len(todo) /\ Len(todo) \in Nat /\ 1 \in DOMAIN todo
      /\ todo[1].op = "delete" /\ todo[1].at = p
      /\ DOMAIN todo' = 1 .. Len(todo) - 1 /\ todo' \in Seq(Range(todo'))
      /\ \A k \in DOMAIN todo' : k + 1 \in DOMAIN todo /\ todo'[k] = todo[k + 1]
  BY <1>2, TailFacts
<1> HIDE DEF p
<1> DEFINE V == Range(node[p].values)
           T == {value[v] : v \in V} \ {Null}
<1>4. BlocksOf(p, node[p]) = {p} \union V \union T
  BY DEF BlocksOf
<1>5. /\ used = DOMAIN node \union DOMAIN value \union Strings
      /\ DOMAIN node \intersect DOMAIN value = {}
      /\ (DOMAIN node \union DOMAIN value) \intersect Strings = {}
      /\ DOMAIN value = UNION {Range(node[q].values) : q \in DOMAIN node}
      /\ \A v, w \in DOMAIN value : value[v] = value[w] /\ value[v] # Null => v = w
  BY DEF Inv, OwnedOnce
<1>6. V \subseteq DOMAIN value
  BY <1>1, <1>5
<1>7. Strings' = Strings \ T
  <2>1. Strings' = {value[v] : v \in DOMAIN value \ V} \ {Null}
    BY <1>1 DEF Strings
  <2>2. \A v \in DOMAIN value \ V : value[v] # Null => value[v] \notin T
    BY <1>5, <1>6
  <2>3. \A v \in DOMAIN value : v \in V /\ value[v] # Null => value[v] \in T
    OBVIOUS
  <2> HIDE DEF V, T
  <2> QED
    BY <2>1, <2>2, <2>3 DEF Strings
<1>8. T \subseteq Strings
  BY <1>6 DEF Strings
<1>9. \A q \in DOMAIN node' : Range(node[q].values) \intersect V = {}
  BY <1>1 DEF Inv, OwnedOnce, Range
<1> HIDE DEF V, T
<1>10. used' = DOMAIN node' \union DOMAIN value' \union Strings'
  BY <1>1, <1>4, <1>5, <1>6, <1>7, <1>8 DEF V
<1>11. DOMAIN value' = UNION {Range(node'[q].values) : q \in DOMAIN node'}
  <2>1. \A q \in DOMAIN node' : Range(node'[q].values) = Range(node[q].values)
    BY <1>1
  <2>2. DOMAIN value' = DOMAIN value \ V
    BY <1>1 DEF V
  <2>3. \A v \in DOMAIN value \ V : \E q \in DOMAIN node' : v \in Range(node[q].values)
    BY <1>1, <1>5 DEF V
  <2>4. \A q \in DOMAIN node' : Range(node[q].values) \subseteq DOMAIN value \ V
    BY <1>1, <1>5, <1>9
  <2> QED
    BY <2>1, <2>2, <2>3, <2>4
<1>12. OwnedOnce'
  <2>1. \A k \in DOMAIN todo' : todo'[k].at \in DOMAIN node'
    <3>1. ASSUME NEW k \in DOMAIN todo'
          PROVE  todo[k + 1].at \in DOMAIN node /\ todo[k + 1].at # p
      <4>1. k + 1 # 1 /\ k + 1 \in DOMAIN todo
        BY <1>3
      <4> QED
        BY <1>3, <4>1 DEF Inv, OwnedOnce, Planned
    <3> QED
      BY <1>1, <1>3, <3>1
  <2>2. /\ \A q, r \in DOMAIN node' :
              \A i \in DOMAIN node'[q].values, j \in DOMAIN node'[r].values :
                 node'[q].values[i] = node'[r].values[j] => q = r /\ i = j
    BY <1>1 DEF Inv, OwnedOnce
  <2>3. \A v, w \in DOMAIN value' : value'[v] = value'[w] /\ value'[v] # Null => v = w
    BY <1>1, <1>5
  <2>4. DOMAIN node' \intersect DOMAIN value' = {} /\ (DOMAIN node' \union DOMAIN value') \intersect Strings' = {}
    BY <1>1, <1>5, <1>7
  <2> QED
    BY <1>10, <1>11, <2>1, <2>2, <2>3, <2>4 DEF OwnedOnce
<1>13. Planned'
  <2>1. \A k, m \in DOMAIN todo' : k + 1 = m + 1 => k = m
    BY <1>3
  <2>2. \A k \in DOMAIN todo' : todo'[k].op = "delete"
    BY <1>3 DEF Inv, Planned
  <2> QED
    BY <1>3, <2>1, <2>2 DEF Inv, Planned
<1> QED
  BY <1>1, <1>12, <1>13 DEF Inv

-----------------------------------------------------------------------------
(* The update of a value *)

LEMMA UpdateInv ==
    ASSUME Inv, UpdateValue
    PROVE  Inv'
<1>1. /\ todo \in Seq(Range(todo)) /\ todo # <<>> /\ Head(todo).op = "update"
      /\ UNCHANGED <<first, last, node>> /\ (todo' = <<>> \/ todo' = Tail(todo))
  BY DEF UpdateValue, Inv, Planned
<1>2. /\ Len(todo) \in Nat /\ 1 \in DOMAIN todo /\ Head(todo) = todo[1]
      /\ DOMAIN Tail(todo) = 1 .. Len(todo) - 1 /\ Tail(todo) \in Seq(Range(Tail(todo)))
      /\ \A k \in DOMAIN Tail(todo) : k + 1 \in DOMAIN todo /\ Tail(todo)[k] = todo[k + 1]
  BY <1>1, TailFacts
<1>3. Planned' /\ \A k \in DOMAIN todo' : todo'[k].at \in DOMAIN node
  <2>1. CASE todo' = <<>>
    BY <2>1 DEF Planned
  <2>2. CASE todo' = Tail(todo)
    <3>1. \A k \in DOMAIN todo' : todo'[k].op = "update"
      BY <1>1, <1>2, <2>2 DEF Inv, Planned
    <3> QED
      BY <1>1, <1>2, <2>2, <3>1 DEF Inv, Planned, OwnedOnce
  <2> QED
    BY <1>1, <2>1, <2>2
<1>4. CASE UNCHANGED <<used, value>>
  BY <1>1, <1>3, <1>4, PlanInv
<1> DEFINE v == node[Head(todo).at].values[Head(todo).change.index]
           old == value[v]
<1>5. ASSUME NEW new \in Ptr \ (used \ {old}), old # Null,
             used' = (used \ {old}) \union {new}, value' = [value EXCEPT ![v] = new]
      PROVE  Inv'
  <2>1. v \in DOMAIN value
    <3>1. /\ Head(todo).at \in DOMAIN node
          /\ Head(todo).change.index \in DOMAIN node[Head(todo).at].values
      BY <1>1, <1>2 DEF Inv, Planned, OwnedOnce
    <3>2. DOMAIN value = UNION {Range(node[q].values) : q \in DOMAIN node}
      BY DEF Inv, OwnedOnce
    <3>3. v \in Range(node[Head(todo).at].values)
      BY <3>1 DEF Range
    <3> HIDE DEF v
    <3> QED
      BY <3>1, <3>2, <3>3
  <2> HIDE DEF v
  <2>2. /\ used = DOMAIN node \union DOMAIN value \union Strings
        /\ DOMAIN node \intersect DOMAIN value = {}
        /\ (DOMAIN node \union DOMAIN value) \intersect Strings = {}
        /\ \A u, w \in DOMAIN value : value[u] = value[w] /\ value[u] # Null => u = w
    BY DEF Inv, OwnedOnce
  <2>3. /\ DOMAIN value' = DOMAIN value /\ value'[v] = new /\ new # Null
        /\ \A u \in DOMAIN value : u # v => value'[u] = value[u]
    BY <1>5, <2>1, EntityListAssumption
  <2>4. old \in Strings
    BY <1>5, <2>1 DEF Strings
  <2>5. \A u \in DOMAIN value : u # v => value[u] # old
    BY <1>5, <2>1, <2>2
  <2> HIDE DEF old
  <2>6. Strings' = (Strings \ {old}) \union {new}
    <3>1. Strings' = {value'[u] : u \in DOMAIN value} \ {Null}
      BY <2>3 DEF Strings
    <3>2. \A u \in DOMAIN value : value[u] # Null /\ value[u] # old => value[u] \in Strings'
      BY <2>3, <3>1 DEF old
    <3>3. \A u \in DOMAIN value : value'[u] # Null => value'[u] \in (Strings \ {old}) \union {new}
      BY <2>3, <2>5 DEF Strings
    <3>4. new \in Strings'
      BY <2>1, <2>3, <3>1
    <3> QED
      BY <3>1, <3>2, <3>3, <3>4 DEF Strings
  <2>7. new \notin DOMAIN node \union DOMAIN value \union (Strings \ {old})
    BY <2>2, <2>4
  <2>8. Linked'
    BY <1>1 DEF Inv, Linked, Iterated
  <2>9. \A u, w \in DOMAIN value' : value'[u] = value'[w] /\ value'[u] # Null => u = w
    <3>1. \A u \in DOMAIN value : u # v => value'[u] # new
      BY <2>3, <2>5, <2>7 DEF Strings
    <3> QED
      BY <2>2, <2>3, <3>1
  <2>10. used' = DOMAIN node' \union DOMAIN value' \union Strings'
    BY <1>1, <1>5, <2>2, <2>3, <2>4, <2>6
  <2>11. (DOMAIN node' \union DOMAIN value') \intersect Strings' = {}
    BY <1>1, <2>2, <2>3, <2>6, <2>7
  <2>12. OwnedOnce'
    BY <1>1, <1>3, <2>2, <2>3, <2>9, <2>10, <2>11 DEF Inv, OwnedOnce
  <2> QED
    BY <1>3, <2>8, <2>12 DEF Inv
<1> QED
  BY <1>4, <1>5 DEF UpdateValue

-----------------------------------------------------------------------------
(* The theorems *)

LEMMA NextInv ==
    ASSUME Inv, [Next]_vars
    PROVE  Inv'
<1>1. ASSUME NEW kinds \in KindSeqs, NEW at \in Injection(Parts(kinds), Ptr \ used), Create(kinds, at)
      PROVE  Inv'
  BY <1>1, CreateInv
<1>2. ASSUME NEW accepted \in SUBSET DOMAIN node, StartDelete(accepted)
      PROVE  Inv'
  BY <1>2, StartDeleteInv
<1>3. ASSUME NEW accepted \in SUBSET DOMAIN node, NEW changes \in Changes, StartUpdate(accepted, changes)
      PROVE  Inv'
  BY <1>3, StartUpdateInv
<1>4. CASE DeleteNode
  BY <1>4, DeleteInv
<1>5. CASE UpdateValue
  BY <1>5, UpdateInv
<1>6. CASE UNCHANGED vars
  <2>1. UNCHANGED <<used, first, last, node, value, todo>>
    BY <1>6 DEF vars
  <2> QED
    BY <2>1, PlanInv DEF Inv, Planned, OwnedOnce
<1> QED
  BY <1>1, <1>2, <1>3, <1>4, <1>5, <1>6 DEF Next

LEMMA Invariance == Spec => []Inv
<1>1. Init => Inv
  BY InitInv
<1>2. Inv /\ [Next]_vars => Inv'
  BY NextInv
<1> QED
  BY <1>1, <1>2, PTL DEF Spec

\* The list of the nodes is whole at any time, also between the deletions of
\* one query that takes several neighbours out of it.
THEOREM NodesAreWhole == Spec => []ListSound
<1>1. Inv => ListSound
  BY WholeIsLinked DEF Inv, Linked, ListSound
<1> QED
  BY <1>1, Invariance, PTL

\* No block of a node, a value or a text has two owners, none is given back
\* while it has one, and none is left when its owner is gone.
THEOREM NodeBlocksOwned == Spec => []OwnedOnce
<1>1. Inv => OwnedOnce
  BY DEF Inv
<1> QED
  BY <1>1, Invariance, PTL

\* The nodes in the order of iteration are a sequence that grows at its end
\* and from which single elements are taken; LinkStore is built on it.
THEOREM NodesAreASequence == Spec => EntitiesSpec
<1>1. Init => Entities!Init
  <2> SUFFICES ASSUME Init
               PROVE  Iterated = <<>>
    BY DEF Entities!Init
  <2>1. Whole(node, first, last, <<>>)
    BY DEF Init, Whole, Chain, AtPos
  <2> QED
    BY <2>1, WholeIsWalked DEF Iterated
<1>2. ASSUME Inv, [Next]_vars
      PROVE  [Entities!Next]_Iterated
  <2>1. ASSUME NEW kinds \in KindSeqs, NEW at \in Injection(Parts(kinds), Ptr \ used), Create(kinds, at)
        PROVE  Entities!Next
    <3>1. Iterated' = Append(Iterated, NewNode(at))
      BY <1>2, <2>1, CreateWrites
    <3>2. NewNode(at) \in Ptr \ DOMAIN node
      BY <1>2, NewBlocks DEF Inv, OwnedOnce
    <3>3. \A i \in DOMAIN Iterated : Iterated[i] # NewNode(at)
      BY <1>2, <3>2 DEF Inv, Linked, Whole, Chain
    <3> QED
      BY <3>1, <3>2, <3>3 DEF Entities!Next, Entities!Add
  <2>2. CASE DeleteNode
    <3>1. PICK i \in DOMAIN Iterated : Iterated' = RemoveAt(Iterated, i)
      BY <1>2, <2>2, DeleteWrites
    <3> QED
      BY <3>1 DEF Entities!Next, Entities!Take, RemoveAt
  <2>3. CASE UNCHANGED <<node, first>>
    BY <2>3 DEF Iterated
  <2> QED
    BY <1>2, <2>1, <2>2, <2>3 DEF Next, StartDelete, StartUpdate, UpdateValue, vars
<1>3. Inv /\ [Next]_vars => [Entities!Next]_Iterated
  BY <1>2
<1> QED
  BY <1>1, <1>3, Invariance, PTL DEF Spec, EntitiesSpec, Entities!Spec

-----------------------------------------------------------------------------
(* CrashStore: its invariant.  The list in the file is a sequence s, from  *)
(* the first block in memory on.  Its first m blocks are those that the    *)
(* header knows; behind them there may be one whose creation was cut       *)
(* short.  A query that runs has given back or holds blocks besides,       *)
(* according to the write it is at; what is in use for nothing are at most *)
(* the blocks of one entity for each cut, the half-created one among them. *)

Blocks == [free : BOOLEAN, holds : EntityKinds \union PartKinds,
           prev : Ptr \union {Null}, next : Ptr \union {Null}, parts : Seq(Ptr)]
HeaderEnds == [first : Ptr \union {Null}, last : Ptr \union {Null}]

InFile ==
    /\ DOMAIN file \subseteq Ptr /\ IsFiniteSet(DOMAIN file)
    /\ \A p \in DOMAIN file : file[p] \in Blocks

InMemory ==
    /\ kind \in EntityKinds
    /\ mem \in HeaderEnds /\ disk \in HeaderEnds
    /\ cuts \in Nat

\* The parts of one entity, and what they hold.
PartsAt(p) == Range(file[p].parts)
Held(parts) == [k \in DOMAIN parts |-> file[parts[k]].holds]
WholeParts(parts) ==
    /\ \A k \in DOMAIN parts : parts[k] \in DOMAIN file
    /\ \A k, l \in DOMAIN parts : parts[k] = parts[l] => k = l
    /\ Held(parts) \in Layouts[kind]

\* The list read forwards, and the parts that are nobody else's.
Forwards(s) ==
    /\ s \in Seq(Ptr)
    /\ \A i \in DOMAIN s :
          /\ s[i] \in DOMAIN file /\ file[s[i]].holds = kind
          /\ WholeParts(file[s[i]].parts)
          /\ file[s[i]].next = AtPos(s, i + 1)
    /\ \A i, j \in DOMAIN s : s[i] = s[j] => i = j
    /\ \A i, j \in DOMAIN s : \A q \in PartsAt(s[i]) : q \in PartsAt(s[j]) => i = j

\* Read backwards it is the same, but for a block whose neighbours are about
\* to be joined: it is left out already, also by the first one in memory.
Closing(p) == Running("close_prev") /\ Target = p
Backwards(s) ==
    \A i \in DOMAIN s :
        file[s[i]].prev = AtPos(s, IF Closing(AtPos(s, i - 1)) THEN i - 2 ELSE i - 1)
MemoryEnds(s, m) ==
    /\ mem.first = AtPos(s, IF Closing(AtPos(s, 1)) THEN 2 ELSE 1)
    /\ mem.last = AtPos(s, m)
    /\ m \in Nat /\ m \in {Len(s), Len(s) - 1} /\ (m = 0 => s = <<>>)

Created == Running("header") /\ Target = Null
Deletion == writes # <<>> /\ writes[Len(writes)].op = "header" /\ writes[Len(writes)].at # Null

FileEnds(s, m) ==
    /\ Created => /\ m = Len(s) /\ m > 0 /\ latest = s[m]
                  /\ disk.first = IF m = 1 THEN Null ELSE s[1]
                  /\ disk.last = AtPos(s, m - 1)
    /\ ~Created /\ ~Deletion => disk = mem

\* What the list holds, what of it the running query has given back, and what
\* the query has that is not in the list.
PartsOf(s) == UNION {PartsAt(s[i]) : i \in DOMAIN s}
HeldBy(s) == Range(s) \union PartsOf(s)
Replaced == file[Target].parts[nth]
GivenBack ==
    CASE Running("parts") /\ Target # Null -> {Replaced}
      [] Running("set_text") -> {Replaced} \ {made[1]}
      [] Running("free") /\ kind = "node" -> {BlocksToFree(Target)[i] : i \in 1 .. nth - 1}
      [] (Running("close_next") \/ Running("close_prev")) /\ kind = "node" -> {Target} \union PartsAt(Target)
      [] OTHER -> {}
InHand ==
    CASE Running("parts") \/ Running("entity") \/ Running("set_text") -> Range(made)
      [] Running("chain") -> {latest} \union PartsAt(latest)
      [] Running("free") /\ kind = "link" -> {Target} \union PartsAt(Target)
      [] OTHER -> {}

UsedBy(s) == \A p \in HeldBy(s) : InUse(p) <=> p \notin GivenBack

\* the parts that the query has inserted
Making ==
    /\ made \in Seq(Ptr) /\ layout \in Seq(PartKinds) /\ Len(made) <= Len(layout)
    /\ \A k \in DOMAIN made : InUse(made[k]) /\ file[made[k]].holds = layout[k]
    /\ \A k, l \in DOMAIN made : made[k] = made[l] => k = l
\* the text that it replaces
Replacing ==
    /\ nth \in DOMAIN file[Target].parts /\ file[Replaced].holds = "text"
    /\ layout = <<"text">>

Inserted(s) ==
    /\ Running("parts") \/ Running("entity") \/ Running("set_text") => Making
    /\ Running("parts") => Len(made) < Len(layout)
    /\ Running("entity") => Len(made) = Len(layout)
    /\ (Running("parts") \/ Running("entity")) /\ Target = Null =>
          /\ layout \in Layouts[kind]
          /\ \A k \in DOMAIN made : made[k] \notin HeldBy(s)
    /\ Running("chain") =>
          /\ InUse(latest) /\ file[latest].holds = kind /\ latest \notin HeldBy(s)
          /\ file[latest].next = Null /\ file[latest].prev = mem.last
          /\ WholeParts(file[latest].parts)
          /\ \A q \in PartsAt(latest) : InUse(q) /\ q \notin HeldBy(s)
Exchanged(s) ==
    /\ Running("free_text") \/ (Running("parts") /\ Target # Null) \/ Running("set_text") => Replacing
    /\ Running("free_text") \/ (Running("parts") /\ Target # Null) => made = <<>>
    /\ Running("set_text") =>
          /\ Len(made) = 1
          /\ \A i \in DOMAIN s : made[1] \in PartsAt(s[i]) => s[i] = Target
          /\ \A k \in DOMAIN file[Target].parts : file[Target].parts[k] = made[1] => k = nth
Released(s) ==
    /\ Running("free") => nth \in 1 .. Len(BlocksToFree(Target))
    /\ Running("free") /\ kind = "link" =>
          /\ Target \in DOMAIN file /\ WholeParts(file[Target].parts)
          /\ Target \notin HeldBy(s) /\ \A q \in PartsAt(Target) : q \notin HeldBy(s)
          /\ \A i \in 1 .. nth - 1 : ~InUse(BlocksToFree(Target)[i])
    /\ Deletion /\ ~Running("free") => nth = 1
Fresh(s) ==
    /\ writes = <<>> => made = <<>> /\ nth = 1
    /\ Inserted(s) /\ Exchanged(s) /\ Released(s)

\* What is left of a query.
Inserts ==
    \A k \in DOMAIN writes :
        \E j \in 1 .. 4 :
            /\ writes[k] = Op(Inserting[j], Null)
            /\ k < Len(writes) => j < 4 /\ writes[k + 1] = Op(Inserting[j + 1], Null)
            /\ k = Len(writes) => j = 4
Updates(s) ==
    /\ kind = "node"
    /\ \A k \in DOMAIN writes :
        /\ writes[k].at \in Range(s)
        /\ \E j \in 1 .. 3 :
            /\ writes[k].op = Updating[j]
            /\ k < Len(writes) => j < 3 /\ writes[k + 1] = Op(Updating[j + 1], writes[k].at)
            /\ k = Len(writes) => j = 3
Removal(k) == k < Len(writes) /\ (kind = "node" \/ writes[k].op \in {"close_next", "close_prev"})
Deletes(s) ==
    /\ \A k \in DOMAIN writes : writes[k].at \in Ptr /\ (writes[k].op = "header" <=> k = Len(writes))
    /\ \A k \in DOMAIN writes : k < Len(writes) =>
          /\ writes[k].at \notin Range(done)
          /\ \E j \in 1 .. 3 :
                /\ writes[k].op = Deleting[kind][j]
                /\ j < 3 => writes[k + 1] = Op(Deleting[kind][j + 1], writes[k].at)
                /\ j = 3 => writes[k + 1].op \in {Deleting[kind][1], "header"}
    /\ \A k \in DOMAIN writes : Removal(k) => writes[k].at \in Range(s)
    /\ \A k, l \in DOMAIN writes :
          writes[k].op = writes[l].op /\ writes[k].at = writes[l].at => k = l

Plan(s) ==
    /\ writes \in Seq(Range(writes))
    /\ writes = <<>> \/ Inserts \/ Updates(s) \/ Deletes(s)

\* The completed creations are among the first n, in their order.
Keeps(s, n) ==
    /\ done \in Seq(Ptr)
    /\ \A k \in DOMAIN done : \E i \in 1 .. n : done[k] = s[i]
    /\ \A k, l \in DOMAIN done, i, j \in DOMAIN s :
          done[k] = s[i] /\ done[l] = s[j] /\ k < l => i < j
Known(m) == IF Created THEN m - 1 ELSE m

Used == {p \in Ptr : InUse(p)}
Lost(s) == Used \ (HeldBy(s) \union InHand)
Leaks(s, m) == Cardinality(Lost(s)) <= MostBlocks[kind] * (cuts - (Len(s) - m))

ListKept(s, m) ==
    /\ InFile /\ InMemory
    /\ Forwards(s) /\ Backwards(s) /\ MemoryEnds(s, m) /\ FileEnds(s, m)
    /\ UsedBy(s) /\ Fresh(s) /\ Plan(s) /\ Keeps(s, Known(m)) /\ Leaks(s, m)

CrashInvariant == ~hurt => \E s \in Seq(Ptr), m \in Nat : ListKept(s, m)

-----------------------------------------------------------------------------
(* What one write does to the blocks in the file *)

\* the fields of a block
SameBut(a, b, fields) ==
    /\ "free" \notin fields => a.free = b.free
    /\ "holds" \notin fields => a.holds = b.holds
    /\ "prev" \notin fields => a.prev = b.prev
    /\ "next" \notin fields => a.next = b.next
    /\ "parts" \notin fields => a.parts = b.parts

LEMMA ChangedBlock ==
    ASSUME NEW r \in Blocks, NEW q \in Ptr \union {Null}, NEW v \in Seq(Ptr)
    PROVE  /\ [r EXCEPT !.next = q] \in Blocks /\ [r EXCEPT !.next = q].next = q
           /\ SameBut([r EXCEPT !.next = q], r, {"next"})
           /\ [r EXCEPT !.prev = q] \in Blocks /\ [r EXCEPT !.prev = q].prev = q
           /\ SameBut([r EXCEPT !.prev = q], r, {"prev"})
           /\ [r EXCEPT !.parts = v] \in Blocks /\ [r EXCEPT !.parts = v].parts = v
           /\ SameBut([r EXCEPT !.parts = v], r, {"parts"})
           /\ [r EXCEPT !.free = TRUE] \in Blocks /\ [r EXCEPT !.free = TRUE].free = TRUE
           /\ SameBut([r EXCEPT !.free = TRUE], r, {"free"})
<1> DEFINE B == BOOLEAN
           K == EntityKinds \union PartKinds
           P == Ptr \union {Null}
           Q == Seq(Ptr)
           T == TRUE
<1>1. r \in [free : B, holds : K, prev : P, next : P, parts : Q] /\ T \in B /\ q \in P /\ v \in Q
  BY DEF Blocks
<1>2. r.free \in B /\ r.holds \in K /\ r.prev \in P /\ r.next \in P /\ r.parts \in Q
  BY <1>1
<1>3. Blocks = [free : B, holds : K, prev : P, next : P, parts : Q]
  BY DEF Blocks
<1> HIDE DEF B, K, P, Q, T
<1>4. \A b \in B, h \in K, x, y \in P, z \in Q :
         /\ [free |-> b, holds |-> h, prev |-> x, next |-> y, parts |-> z] \in Blocks
         /\ [free |-> b, holds |-> h, prev |-> x, next |-> y, parts |-> z].free = b
         /\ [free |-> b, holds |-> h, prev |-> x, next |-> y, parts |-> z].holds = h
         /\ [free |-> b, holds |-> h, prev |-> x, next |-> y, parts |-> z].prev = x
         /\ [free |-> b, holds |-> h, prev |-> x, next |-> y, parts |-> z].next = y
         /\ [free |-> b, holds |-> h, prev |-> x, next |-> y, parts |-> z].parts = z
  BY <1>3
<1>5. /\ [r EXCEPT !.next = q] = [free |-> r.free, holds |-> r.holds, prev |-> r.prev, next |-> q, parts |-> r.parts]
      /\ [r EXCEPT !.prev = q] = [free |-> r.free, holds |-> r.holds, prev |-> q, next |-> r.next, parts |-> r.parts]
      /\ [r EXCEPT !.parts = v] = [free |-> r.free, holds |-> r.holds, prev |-> r.prev, next |-> r.next, parts |-> v]
      /\ [r EXCEPT !.free = T] = [free |-> T, holds |-> r.holds, prev |-> r.prev, next |-> r.next, parts |-> r.parts]
  <2>1. [r EXCEPT !.next = q] = [free |-> r.free, holds |-> r.holds, prev |-> r.prev, next |-> q, parts |-> r.parts]
    BY <1>1
  <2>2. [r EXCEPT !.prev = q] = [free |-> r.free, holds |-> r.holds, prev |-> q, next |-> r.next, parts |-> r.parts]
    BY <1>1
  <2>3. [r EXCEPT !.parts = v] = [free |-> r.free, holds |-> r.holds, prev |-> r.prev, next |-> r.next, parts |-> v]
    BY <1>1
  <2>4. ASSUME NEW b \in B
        PROVE  [r EXCEPT !.free = b] = [free |-> b, holds |-> r.holds, prev |-> r.prev, next |-> r.next, parts |-> r.parts]
    BY <1>1
  <2> QED
    BY <1>1, <2>1, <2>2, <2>3, <2>4, Zenon
<1>6. [r EXCEPT !.next = q] \in Blocks /\ [r EXCEPT !.next = q].next = q /\ SameBut([r EXCEPT !.next = q], r, {"next"})
  BY <1>1, <1>2, <1>4, <1>5 DEF SameBut
<1>7. [r EXCEPT !.prev = q] \in Blocks /\ [r EXCEPT !.prev = q].prev = q /\ SameBut([r EXCEPT !.prev = q], r, {"prev"})
  BY <1>1, <1>2, <1>4, <1>5 DEF SameBut
<1>8. [r EXCEPT !.parts = v] \in Blocks /\ [r EXCEPT !.parts = v].parts = v /\ SameBut([r EXCEPT !.parts = v], r, {"parts"})
  BY <1>1, <1>2, <1>4, <1>5 DEF SameBut
<1>9. [r EXCEPT !.free = T] \in Blocks /\ [r EXCEPT !.free = T].free = T /\ SameBut([r EXCEPT !.free = T], r, {"free"})
  BY <1>1, <1>2, <1>4, <1>5 DEF SameBut
<1> QED
  BY <1>6, <1>7, <1>8, <1>9 DEF T

LEMMA NextSet ==
    ASSUME InFile, NEW p, NEW q \in Ptr \union {Null}, NEW list, list = SetNext(file, p, q)
    PROVE  /\ DOMAIN list = DOMAIN file
           /\ \A r \in DOMAIN file :
                 /\ list[r] \in Blocks
                 /\ list[r].free = file[r].free /\ list[r].holds = file[r].holds
                 /\ list[r].parts = file[r].parts /\ list[r].prev = file[r].prev
                 /\ list[r].next = IF r = p THEN q ELSE file[r].next
<1>1. DOMAIN list = DOMAIN file /\ \A r \in DOMAIN file : r # p => list[r] = file[r]
  BY DEF SetNext
<1>2. ASSUME NEW r \in DOMAIN file, r = p
      PROVE  list[r] = [file[r] EXCEPT !.next = q]
  BY <1>2 DEF SetNext
<1>3. ASSUME NEW r \in DOMAIN file, r = p
      PROVE  list[r] \in Blocks /\ list[r].next = q /\ SameBut(list[r], file[r], {"next"})
  <2>1. file[r] \in Blocks
    BY DEF InFile
  <2>2. [file[r] EXCEPT !.next = q] \in Blocks /\ [file[r] EXCEPT !.next = q].next = q
        /\ SameBut([file[r] EXCEPT !.next = q], file[r], {"next"})
    BY <2>1, ChangedBlock, EmptySeq
  <2> QED
    BY <1>2, <1>3, <2>2, Zenon
<1> QED
  BY <1>1, <1>3 DEF SameBut, InFile

LEMMA PrevSet ==
    ASSUME InFile, NEW p, NEW q \in Ptr \union {Null}, NEW list, list = SetPrev(file, p, q)
    PROVE  /\ DOMAIN list = DOMAIN file
           /\ \A r \in DOMAIN file :
                 /\ list[r] \in Blocks
                 /\ list[r].free = file[r].free /\ list[r].holds = file[r].holds
                 /\ list[r].parts = file[r].parts /\ list[r].next = file[r].next
                 /\ list[r].prev = IF r = p THEN q ELSE file[r].prev
<1>1. DOMAIN list = DOMAIN file /\ \A r \in DOMAIN file : r # p => list[r] = file[r]
  BY DEF SetPrev
<1>2. ASSUME NEW r \in DOMAIN file, r = p
      PROVE  list[r] = [file[r] EXCEPT !.prev = q]
  BY <1>2 DEF SetPrev
<1>3. ASSUME NEW r \in DOMAIN file, r = p
      PROVE  list[r] \in Blocks /\ list[r].prev = q /\ SameBut(list[r], file[r], {"prev"})
  <2>1. file[r] \in Blocks
    BY DEF InFile
  <2>2. [file[r] EXCEPT !.prev = q] \in Blocks /\ [file[r] EXCEPT !.prev = q].prev = q
        /\ SameBut([file[r] EXCEPT !.prev = q], file[r], {"prev"})
    BY <2>1, ChangedBlock, EmptySeq
  <2> QED
    BY <1>2, <1>3, <2>2, Zenon
<1> QED
  BY <1>1, <1>3 DEF SameBut, InFile

LEMMA FreeSet ==
    ASSUME InFile, NEW p, NEW list, list = Freed(p)
    PROVE  /\ DOMAIN list = DOMAIN file
           /\ \A r \in DOMAIN file :
                 /\ list[r] \in Blocks
                 /\ list[r].holds = file[r].holds /\ list[r].parts = file[r].parts
                 /\ list[r].prev = file[r].prev /\ list[r].next = file[r].next
                 /\ ~list[r].free <=> r # p /\ ~file[r].free
<1>1. CASE p \notin DOMAIN file
  BY <1>1 DEF Freed, InFile
<1>2. CASE p \in DOMAIN file
  <2>1. file[p] \in Blocks
    BY <1>2 DEF InFile
  <2>2. list = [file EXCEPT ![p] = [file[p] EXCEPT !.free = TRUE]]
    BY <1>2, Zenon DEF Freed
  <2> DEFINE b == [file[p] EXCEPT !.free = TRUE]
  <2>3. b \in Blocks /\ b.free = TRUE /\ SameBut(b, file[p], {"free"})
    BY <2>1, ChangedBlock, EmptySeq
  <2> HIDE DEF b
  <2>4. DOMAIN list = DOMAIN file /\ list[p] = b /\ \A r \in DOMAIN file : r # p => list[r] = file[r]
    <3>1. list = [file EXCEPT ![p] = b]
      BY <2>2 DEF b
    <3> QED
      BY <1>2, <3>1
  <2>5. b.free /\ b.holds = file[p].holds /\ b.parts = file[p].parts /\ b.prev = file[p].prev /\ b.next = file[p].next
    BY <2>3 DEF SameBut
  <2> QED
    BY <2>3, <2>4, <2>5 DEF InFile
<1> QED
  BY <1>1, <1>2

LEMMA BlockFields ==
    ASSUME NEW holds \in EntityKinds \union PartKinds,
           NEW prev \in Ptr \union {Null}, NEW parts \in Seq(Ptr)
    PROVE  /\ Block(holds, prev, parts) \in Blocks /\ ~Block(holds, prev, parts).free
           /\ Block(holds, prev, parts).holds = holds /\ Block(holds, prev, parts).prev = prev
           /\ Block(holds, prev, parts).next = Null /\ Block(holds, prev, parts).parts = parts
BY DEF Block, Blocks

LEMMA BlockWritten ==
    ASSUME InFile, NEW p \in Ptr, NEW block, NEW list, list = Written(p, block)
    PROVE  /\ \A q : q \in DOMAIN list <=> q \in DOMAIN file \/ q = p
           /\ DOMAIN list \subseteq Ptr /\ IsFiniteSet(DOMAIN list)
           /\ list[p] = block
           /\ \A r \in DOMAIN file : r # p => list[r] = file[r]
<1>1. list = [q \in DOMAIN file \union {p} |-> IF q = p THEN block ELSE file[q]]
  BY DEF Written
<1>2. IsFiniteSet(DOMAIN file \union {p})
  BY FS_AddElement DEF InFile
<1> QED
  BY <1>1, <1>2 DEF InFile

LEMMA FreeDropped ==
    ASSUME NEW blocks, DOMAIN blocks \subseteq Ptr, IsFiniteSet(DOMAIN blocks),
           NEW list, list = WithoutFree(blocks)
    PROVE  /\ DOMAIN list = {p \in DOMAIN blocks : ~blocks[p].free}
           /\ DOMAIN list \subseteq Ptr /\ IsFiniteSet(DOMAIN list)
           /\ \A p \in DOMAIN list : list[p] = blocks[p]
<1>1. list = [p \in {q \in DOMAIN blocks : ~blocks[q].free} |-> blocks[p]]
  BY DEF WithoutFree, Restrict
<1>2. DOMAIN list \subseteq DOMAIN blocks
  BY <1>1
<1> QED
  BY <1>1, <1>2, FS_Subset

LEMMA PartPointed ==
    ASSUME InFile, NEW p \in DOMAIN file, NEW k \in DOMAIN file[p].parts, NEW q \in Ptr,
           NEW list, list = [file EXCEPT ![p].parts[k] = q]
    PROVE  /\ DOMAIN list = DOMAIN file
           /\ \A r \in DOMAIN file :
                 /\ list[r] \in Blocks
                 /\ list[r].free = file[r].free /\ list[r].holds = file[r].holds
                 /\ list[r].prev = file[r].prev /\ list[r].next = file[r].next
                 /\ r # p => list[r].parts = file[r].parts
           /\ list[p].parts = [file[p].parts EXCEPT ![k] = q]
           /\ DOMAIN list[p].parts = DOMAIN file[p].parts
           /\ \A l \in DOMAIN file[p].parts : list[p].parts[l] = IF l = k THEN q ELSE file[p].parts[l]
<1> DEFINE v == [file[p].parts EXCEPT ![k] = q]
           b == [file[p] EXCEPT !.parts = v]
<1>1. list = [file EXCEPT ![p] = b]
  OBVIOUS
<1>2. file[p] \in Blocks /\ file[p].parts \in Seq(Ptr)
  BY DEF InFile, Blocks
<1>3. v \in Seq(Ptr) /\ DOMAIN v = DOMAIN file[p].parts
      /\ \A l \in DOMAIN file[p].parts : v[l] = IF l = k THEN q ELSE file[p].parts[l]
  BY <1>2
<1> HIDE DEF v
<1>4. b \in Blocks /\ b.parts = v /\ SameBut(b, file[p], {"parts"})
  BY <1>2, <1>3, ChangedBlock
<1> HIDE DEF b
<1>5. DOMAIN list = DOMAIN file /\ list[p] = b /\ \A r \in DOMAIN file : r # p => list[r] = file[r]
  BY <1>1
<1>6. b.free = file[p].free /\ b.holds = file[p].holds /\ b.prev = file[p].prev /\ b.next = file[p].next
  BY <1>4 DEF SameBut
<1> QED
  BY <1>3, <1>4, <1>5, <1>6 DEF InFile, v

\* the fields of the blocks in the file
LEMMA FileFields ==
    ASSUME InFile, NEW p \in DOMAIN file
    PROVE  /\ p \in Ptr /\ p # Null
           /\ file[p].holds \in EntityKinds \union PartKinds
           /\ file[p].prev \in Ptr \union {Null} /\ file[p].next \in Ptr \union {Null}
           /\ file[p].parts \in Seq(Ptr)
<1>1. file[p] \in Blocks /\ p \in Ptr
  BY DEF InFile
<1> QED
  BY <1>1, EntityListAssumption DEF Blocks

-----------------------------------------------------------------------------
(* What is left of a query after one write *)

LEMMA DeletingOps ==
    /\ Deleting["node"][1] = "free" /\ Deleting["node"][2] = "close_next" /\ Deleting["node"][3] = "close_prev"
    /\ Deleting["link"][1] = "close_next" /\ Deleting["link"][2] = "close_prev" /\ Deleting["link"][3] = "free"
BY DEF Deleting

LEMMA OtherOps ==
    /\ Inserting[1] = "parts" /\ Inserting[2] = "entity" /\ Inserting[3] = "chain" /\ Inserting[4] = "header"
    /\ Updating[1] = "free_text" /\ Updating[2] = "parts" /\ Updating[3] = "set_text"
BY DEF Inserting, Updating

LEMMA OpFields == ASSUME NEW op, NEW at PROVE Op(op, at).op = op /\ Op(op, at).at = at
BY DEF Op

LEMMA WritesTail ==
    ASSUME writes \in Seq(Range(writes)), writes # <<>>
    PROVE  /\ Len(writes) \in Nat /\ Len(writes) > 0 /\ DOMAIN writes = 1 .. Len(writes)
           /\ Head(writes) = writes[1] /\ 1 \in DOMAIN writes
           /\ Tail(writes) \in Seq(Range(Tail(writes)))
           /\ Len(Tail(writes)) = Len(writes) - 1 /\ DOMAIN Tail(writes) = 1 .. Len(writes) - 1
           /\ \A k \in 1 .. Len(writes) - 1 : k + 1 \in DOMAIN writes /\ Tail(writes)[k] = writes[k + 1]
           /\ (Tail(writes) = <<>> <=> Len(writes) = 1)
           /\ (Tail(writes) # <<>> => Head(Tail(writes)) = writes[2])
<1>1. /\ Len(writes) \in Nat /\ DOMAIN writes = 1 .. Len(writes) /\ 1 \in DOMAIN writes
      /\ Head(writes) = writes[1] /\ DOMAIN Tail(writes) = 1 .. Len(writes) - 1
      /\ \A k \in DOMAIN Tail(writes) : k + 1 \in DOMAIN writes /\ Tail(writes)[k] = writes[k + 1]
      /\ Tail(writes) \in Seq(Range(Tail(writes)))
  BY TailFacts
<1>2. Len(Tail(writes)) = Len(writes) - 1 /\ Len(writes) > 0
  BY <1>1
<1>3. Tail(writes) = <<>> <=> Len(writes) = 1
  BY <1>1, <1>2, EmptySeq
<1>4. ASSUME Tail(writes) # <<>>
      PROVE  Head(Tail(writes)) = writes[2]
  <2>1. Head(Tail(writes)) = Tail(writes)[1]
    BY <1>1, <1>4, HeadTailProperties
  <2>2. 1 \in DOMAIN Tail(writes) /\ 1 + 1 = 2
    BY <1>1, <1>2, <1>3, <1>4
  <2> QED
    BY <1>1, <2>1, <2>2
<1> QED
  BY <1>1, <1>2, <1>3, <1>4

LEMMA SeqStart ==
    ASSUME NEW w, w \in Seq(Range(w)), Len(w) > 0
    PROVE  w # <<>> /\ Head(w) = w[1]
<1>1. w # <<>>
  BY EmptySeq
<1> QED
  BY <1>1, TailFacts

\* the first write of a plan is the one that comes next
Ahead(op, at) == writes # <<>> /\ Head(writes).op = op /\ Head(writes).at = at

LEMMA InsertNow ==
    ASSUME writes \in Seq(Range(writes)), writes # <<>>, Inserts
    PROVE  /\ Target = Null /\ ~Deletion
           /\ Head(writes).op \in {"parts", "entity", "chain", "header"}
<1>1. /\ Len(writes) \in Nat /\ Len(writes) > 0 /\ DOMAIN writes = 1 .. Len(writes)
      /\ Head(writes) = writes[1] /\ 1 \in DOMAIN writes /\ Len(writes) \in DOMAIN writes
  BY WritesTail
<1>2. \A k \in DOMAIN writes : writes[k].at = Null /\ writes[k].op \in {"parts", "entity", "chain", "header"}
  BY OtherOps, OpFields DEF Inserts
<1> QED
  BY <1>1, <1>2 DEF Target, Deletion

LEMMA InsertStep ==
    ASSUME writes \in Seq(Range(writes)), writes # <<>>, Inserts, writes' = Tail(writes)
    PROVE  /\ Inserts' /\ writes' \in Seq(Range(writes'))
           /\ Running("parts") => Ahead("entity", Null)'
           /\ Running("entity") => Ahead("chain", Null)'
           /\ Running("chain") => Ahead("header", Null)'
           /\ Running("header") => writes' = <<>>
<1> DEFINE n == Len(writes)
<1>1. /\ n \in Nat /\ n > 0 /\ DOMAIN writes = 1 .. n
      /\ Head(writes) = writes[1] /\ 1 \in DOMAIN writes
      /\ writes' \in Seq(Range(writes'))
      /\ Len(writes') = n - 1 /\ DOMAIN writes' = 1 .. n - 1
      /\ \A k \in 1 .. n - 1 : k + 1 \in DOMAIN writes /\ writes'[k] = writes[k + 1]
      /\ (writes' = <<>> <=> n = 1)
      /\ (writes' # <<>> => Head(writes') = writes[2])
  BY WritesTail
<1> HIDE DEF n
<1>2. ASSUME NEW k \in DOMAIN writes
      PROVE  \E j \in 1 .. 4 :
                /\ writes[k] = Op(Inserting[j], Null)
                /\ k < n => j < 4 /\ writes[k + 1] = Op(Inserting[j + 1], Null)
                /\ k = n => j = 4
  BY DEF Inserts, n
<1>3. Inserts'
  <2> SUFFICES ASSUME NEW k \in 1 .. n - 1
               PROVE  \E j \in 1 .. 4 :
                         /\ writes'[k] = Op(Inserting[j], Null)
                         /\ k < n - 1 => j < 4 /\ writes'[k + 1] = Op(Inserting[j + 1], Null)
                         /\ k = n - 1 => j = 4
    <3>1. DOMAIN writes' = 1 .. n - 1 /\ Len(writes') = n - 1
      BY <1>1
    <3> QED
      BY <3>1 DEF Inserts
  <2> DEFINE m == k + 1
  <2>1. m \in DOMAIN writes /\ writes'[k] = writes[m] /\ (k < n - 1 <=> m < n) /\ (k = n - 1 <=> m = n)
    BY <1>1
  <2>2. k < n - 1 => writes'[k + 1] = writes[m + 1]
    BY <1>1
  <2> HIDE DEF m
  <2>3. PICK j \in 1 .. 4 :
           /\ writes[m] = Op(Inserting[j], Null)
           /\ m < n => j < 4 /\ writes[m + 1] = Op(Inserting[j + 1], Null)
           /\ m = n => j = 4
    BY <1>2, <2>1
  <2> QED
    BY <2>1, <2>2, <2>3
<1>4. PICK j \in 1 .. 4 :
         /\ writes[1] = Op(Inserting[j], Null)
         /\ 1 < n => j < 4 /\ writes[1 + 1] = Op(Inserting[j + 1], Null)
         /\ 1 = n => j = 4
  BY <1>1, <1>2
<1>5. writes[1].op = Inserting[j] /\ (1 < n => writes[2].op = Inserting[j + 1] /\ writes[2].at = Null)
  BY <1>4, OpFields
<1>6. writes' # <<>> <=> 1 < n
  BY <1>1
<1> QED
  <2>1. j = 1 \/ j = 2 \/ j = 3 \/ j = 4
    OBVIOUS
  <2> QED
    BY <1>1, <1>3, <1>4, <1>5, <1>6, <2>1, OtherOps DEF Running, Ahead

LEMMA UpdateNow ==
    ASSUME writes \in Seq(Range(writes)), writes # <<>>, NEW s, Updates(s), Null \notin Range(s)
    PROVE  /\ kind = "node" /\ Target \in Range(s) /\ Target # Null /\ ~Deletion
           /\ Head(writes).op \in {"free_text", "parts", "set_text"}
<1>1. /\ Len(writes) \in Nat /\ Len(writes) > 0 /\ DOMAIN writes = 1 .. Len(writes)
      /\ Head(writes) = writes[1] /\ 1 \in DOMAIN writes /\ Len(writes) \in DOMAIN writes
  BY WritesTail
<1>2. \A k \in DOMAIN writes : writes[k].at \in Range(s) /\ writes[k].op \in {"free_text", "parts", "set_text"}
  BY OtherOps DEF Updates
<1> QED
  BY <1>1, <1>2 DEF Target, Deletion, Updates

LEMMA UpdateStep ==
    ASSUME writes \in Seq(Range(writes)), writes # <<>>, NEW s, Updates(s), writes' = Tail(writes),
           kind' = kind
    PROVE  /\ Updates(s)' /\ writes' \in Seq(Range(writes'))
           /\ Running("free_text") => Ahead("parts", Target)'
           /\ writes' # <<>> => Target' = Target
           /\ Running("parts") => Ahead("set_text", Target)'
           /\ Running("set_text") => writes' = <<>>
<1> DEFINE n == Len(writes)
<1>1. /\ n \in Nat /\ n > 0 /\ DOMAIN writes = 1 .. n
      /\ Head(writes) = writes[1] /\ 1 \in DOMAIN writes
      /\ writes' \in Seq(Range(writes'))
      /\ Len(writes') = n - 1 /\ DOMAIN writes' = 1 .. n - 1
      /\ \A k \in 1 .. n - 1 : k + 1 \in DOMAIN writes /\ writes'[k] = writes[k + 1]
      /\ (writes' = <<>> <=> n = 1)
      /\ (writes' # <<>> => Head(writes') = writes[2])
  BY WritesTail
<1> HIDE DEF n
<1>2. ASSUME NEW k \in DOMAIN writes
      PROVE  /\ writes[k].at \in Range(s)
             /\ \E j \in 1 .. 3 :
                   /\ writes[k].op = Updating[j]
                   /\ k < n => j < 3 /\ writes[k + 1] = Op(Updating[j + 1], writes[k].at)
                   /\ k = n => j = 3
  BY DEF Updates, n
<1>3. Updates(s)'
  <2> SUFFICES ASSUME NEW k \in 1 .. n - 1
               PROVE  /\ writes'[k].at \in Range(s)
                      /\ \E j \in 1 .. 3 :
                            /\ writes'[k].op = Updating[j]
                            /\ k < n - 1 => j < 3 /\ writes'[k + 1] = Op(Updating[j + 1], writes'[k].at)
                            /\ k = n - 1 => j = 3
    BY <1>1 DEF Updates
  <2> DEFINE m == k + 1
  <2>1. m \in DOMAIN writes /\ writes'[k] = writes[m] /\ (k < n - 1 <=> m < n) /\ (k = n - 1 <=> m = n)
    BY <1>1
  <2>2. k < n - 1 => writes'[k + 1] = writes[m + 1]
    BY <1>1
  <2> HIDE DEF m
  <2>3. PICK j \in 1 .. 3 :
           /\ writes[m].op = Updating[j]
           /\ m < n => j < 3 /\ writes[m + 1] = Op(Updating[j + 1], writes[m].at)
           /\ m = n => j = 3
    BY <1>2, <2>1
  <2> QED
    BY <1>2, <2>1, <2>2, <2>3
<1>4. PICK j \in 1 .. 3 :
         /\ writes[1].op = Updating[j]
         /\ 1 < n => j < 3 /\ writes[1 + 1] = Op(Updating[j + 1], writes[1].at)
         /\ 1 = n => j = 3
  BY <1>1, <1>2
<1>5. 1 < n => writes[2].op = Updating[j + 1] /\ writes[2].at = writes[1].at
  BY <1>4, OpFields
<1>6. writes' # <<>> <=> 1 < n
  BY <1>1
<1> QED
  <2>1. j = 1 \/ j = 2 \/ j = 3
    OBVIOUS
  <2> QED
    BY <1>1, <1>3, <1>4, <1>5, <1>6, <2>1, OtherOps DEF Running, Ahead, Target

DeleteOps == {"free", "close_next", "close_prev"}

LEMMA DeleteNow ==
    ASSUME writes \in Seq(Range(writes)), writes # <<>>, kind \in EntityKinds, NEW s, Deletes(s)
    PROVE  /\ Target \in Ptr /\ Target # Null /\ Deletion
           /\ Head(writes).op \in DeleteOps \union {"header"}
           /\ Head(writes).op # "header" => Target \notin Range(done)
           /\ Head(writes).op # "header" /\ (kind = "node" \/ Head(writes).op \in {"close_next", "close_prev"})
                 => Target \in Range(s)
<1>1. /\ Len(writes) \in Nat /\ Len(writes) > 0 /\ DOMAIN writes = 1 .. Len(writes)
      /\ Head(writes) = writes[1] /\ 1 \in DOMAIN writes /\ Len(writes) \in DOMAIN writes
  BY WritesTail
<1>2. \A k \in DOMAIN writes : writes[k].at \in Ptr /\ (writes[k].op = "header" <=> k = Len(writes))
  BY DEF Deletes
<1>3. \A k \in DOMAIN writes : k < Len(writes) => writes[k].at \notin Range(done) /\ writes[k].op \in DeleteOps
  <2> TAKE k \in DOMAIN writes
  <2> HAVE k < Len(writes)
  <2>1. writes[k].at \notin Range(done) /\ \E j \in 1 .. 3 : writes[k].op = Deleting[kind][j]
    BY DEF Deletes
  <2>2. \A j \in 1 .. 3 : Deleting[kind][j] \in DeleteOps
    BY DeletingOps DEF EntityKinds, DeleteOps
  <2> QED
    BY <2>1, <2>2
<1>4. \A k \in DOMAIN writes : Removal(k) => writes[k].at \in Range(s)
  BY DEF Deletes
<1> QED
  BY <1>1, <1>2, <1>3, <1>4, EntityListAssumption DEF Target, Deletion, Removal

\* Of what is planned for later, all is to be removed from s2 that is in it.
Later(s) == \A k \in DOMAIN writes : k > 1 /\ Removal(k) => writes[k].at \in Range(s)

LEMMA DeleteStep ==
    ASSUME writes \in Seq(Range(writes)), writes # <<>>, kind \in EntityKinds, NEW s, Deletes(s),
           writes' = Tail(writes), kind' = kind, done' = done, NEW t, Later(t)
    PROVE  /\ Deletes(t)' /\ writes' \in Seq(Range(writes'))
           /\ Running("header") <=> writes' = <<>>
           /\ writes' # <<>> => Deletion'
           /\ kind = "node" =>
                 /\ Running("free") => Ahead("close_next", Target)'
                 /\ Running("close_next") => Ahead("close_prev", Target)'
                 /\ Running("close_prev") => Head(writes').op \in {"free", "header"}
           /\ kind = "link" =>
                 /\ Running("close_next") => Ahead("close_prev", Target)'
                 /\ Running("close_prev") => Ahead("free", Target)'
                 /\ Running("free") => Head(writes').op \in {"close_next", "header"}
           /\ Head(writes).op # Deleting[kind][3] /\ Head(writes).op # "header" => Target' = Target
<1> DEFINE n == Len(writes)
<1>1. /\ n \in Nat /\ n > 0 /\ DOMAIN writes = 1 .. n
      /\ Head(writes) = writes[1] /\ 1 \in DOMAIN writes
      /\ writes' \in Seq(Range(writes'))
      /\ Len(writes') = n - 1 /\ DOMAIN writes' = 1 .. n - 1
      /\ \A k \in 1 .. n - 1 : k + 1 \in DOMAIN writes /\ writes'[k] = writes[k + 1]
      /\ (writes' = <<>> <=> n = 1)
      /\ (writes' # <<>> => Head(writes') = writes[2])
  BY WritesTail
<1> HIDE DEF n
<1>2. ASSUME NEW k \in DOMAIN writes
      PROVE  /\ writes[k].at \in Ptr /\ (writes[k].op = "header" <=> k = n)
             /\ k < n => /\ writes[k].at \notin Range(done)
                         /\ \E j \in 1 .. 3 :
                               /\ writes[k].op = Deleting[kind][j]
                               /\ j < 3 => writes[k + 1] = Op(Deleting[kind][j + 1], writes[k].at)
                               /\ j = 3 => writes[k + 1].op \in {Deleting[kind][1], "header"}
             /\ \A l \in DOMAIN writes : writes[k].op = writes[l].op /\ writes[k].at = writes[l].at => k = l
  BY DEF Deletes, n
<1>3. ASSUME NEW k \in 1 .. n - 1
      PROVE  /\ writes'[k].at \in Ptr /\ (writes'[k].op = "header" <=> k = n - 1)
             /\ k < n - 1 =>
                   /\ writes'[k].at \notin Range(done)
                   /\ \E j \in 1 .. 3 :
                         /\ writes'[k].op = Deleting[kind][j]
                         /\ j < 3 => writes'[k + 1] = Op(Deleting[kind][j + 1], writes'[k].at)
                         /\ j = 3 => writes'[k + 1].op \in {Deleting[kind][1], "header"}
  <2> DEFINE m == k + 1
  <2>1. m \in DOMAIN writes /\ writes'[k] = writes[m] /\ (k < n - 1 <=> m < n) /\ (k = n - 1 <=> m = n)
    BY <1>1
  <2>2. k < n - 1 => writes'[k + 1] = writes[m + 1]
    BY <1>1
  <2> HIDE DEF m
  <2>3. writes[m].at \in Ptr /\ (writes[m].op = "header" <=> m = n)
    BY <1>2, <2>1
  <2>4. ASSUME m < n
        PROVE  /\ writes[m].at \notin Range(done)
               /\ \E j \in 1 .. 3 :
                     /\ writes[m].op = Deleting[kind][j]
                     /\ j < 3 => writes[m + 1] = Op(Deleting[kind][j + 1], writes[m].at)
                     /\ j = 3 => writes[m + 1].op \in {Deleting[kind][1], "header"}
    BY <1>2, <2>1, <2>4
  <2> QED
    BY <2>1, <2>2, <2>3, <2>4
<1>4. ASSUME NEW k \in 1 .. n - 1
      PROVE  Removal(k)' => writes'[k].at \in Range(t)
  <2> DEFINE m == k + 1
  <2>1. m \in DOMAIN writes /\ m > 1 /\ writes'[k] = writes[m] /\ (k < n - 1 <=> m < n)
    BY <1>1
  <2> HIDE DEF m
  <2> QED
    BY <1>1, <2>1 DEF Removal, Later, n
<1>5. ASSUME NEW k \in 1 .. n - 1, NEW l \in 1 .. n - 1, writes'[k].op = writes'[l].op, writes'[k].at = writes'[l].at
      PROVE  k = l
  <2>1. k + 1 \in DOMAIN writes /\ l + 1 \in DOMAIN writes /\ writes'[k] = writes[k + 1] /\ writes'[l] = writes[l + 1]
    BY <1>1
  <2>2. k + 1 = l + 1
    BY <1>2, <1>5, <2>1
  <2> QED
    BY <2>2
<1>6. Deletes(t)'
  <2>1. \A k \in DOMAIN writes' : writes'[k].at \in Ptr /\ (writes'[k].op = "header" <=> k = Len(writes'))
    BY <1>1, <1>3
  <2>2. \A k \in DOMAIN writes' : k < Len(writes') =>
          /\ writes'[k].at \notin Range(done')
          /\ \E j \in 1 .. 3 :
                /\ writes'[k].op = Deleting[kind'][j]
                /\ j < 3 => writes'[k + 1] = Op(Deleting[kind'][j + 1], writes'[k].at)
                /\ j = 3 => writes'[k + 1].op \in {Deleting[kind'][1], "header"}
    BY <1>1, <1>3
  <2>3. \A k \in DOMAIN writes' : Removal(k)' => writes'[k].at \in Range(t)
    BY <1>1, <1>4
  <2>4. \A k, l \in DOMAIN writes' : writes'[k].op = writes'[l].op /\ writes'[k].at = writes'[l].at => k = l
    BY <1>1, <1>5
  <2> QED
    BY <2>1, <2>2, <2>3, <2>4 DEF Deletes
<1>7. Running("header") <=> writes' = <<>>
  BY <1>1, <1>2 DEF Running
<1>8. writes' # <<>> => Deletion'
  BY <1>1, <1>3, EntityListAssumption DEF Deletion
<1>9. ASSUME 1 < n
      PROVE  \E j \in 1 .. 3 :
                /\ writes[1].op = Deleting[kind][j]
                /\ j < 3 => writes[2].op = Deleting[kind][j + 1] /\ writes[2].at = writes[1].at
                /\ j = 3 => writes[2].op \in {Deleting[kind][1], "header"}
  <2>1. PICK j \in 1 .. 3 :
                /\ writes[1].op = Deleting[kind][j]
                /\ j < 3 => writes[1 + 1] = Op(Deleting[kind][j + 1], writes[1].at)
                /\ j = 3 => writes[1 + 1].op \in {Deleting[kind][1], "header"}
    BY <1>1, <1>2, <1>9
  <2> QED
    BY <2>1, OpFields
<1>10. writes' # <<>> <=> 1 < n
  BY <1>1
<1>11. Running("header") <=> n = 1
  BY <1>1, <1>2 DEF Running
<1>12. ASSUME 1 < n
       PROVE  /\ kind = "node" =>
                 /\ Running("free") => Ahead("close_next", Target)'
                 /\ Running("close_next") => Ahead("close_prev", Target)'
                 /\ Running("close_prev") => Head(writes').op \in {"free", "header"}
              /\ kind = "link" =>
                 /\ Running("close_next") => Ahead("close_prev", Target)'
                 /\ Running("close_prev") => Ahead("free", Target)'
                 /\ Running("free") => Head(writes').op \in {"close_next", "header"}
              /\ Head(writes).op # Deleting[kind][3] => Target' = Target
  <2>1. PICK j \in 1 .. 3 :
                /\ writes[1].op = Deleting[kind][j]
                /\ j < 3 => writes[2].op = Deleting[kind][j + 1] /\ writes[2].at = writes[1].at
                /\ j = 3 => writes[2].op \in {Deleting[kind][1], "header"}
    BY <1>9, <1>12
  <2>2. j = 1 \/ j = 2 \/ j = 3
    OBVIOUS
  <2> QED
    BY <1>1, <1>10, <1>12, <2>1, <2>2, DeletingOps DEF Running, Ahead, Target
<1> QED
  <2>1. 1 < n \/ n = 1
    BY <1>1
  <2>2. n = 1 => Head(writes).op = "header"
    BY <1>11 DEF Running
  <2> QED
    BY <1>1, <1>6, <1>7, <1>8, <1>12, <2>1, <2>2 DEF Running

\* A write that is one of several leaves the plan as it was.
LEMMA PlanStays ==
    ASSUME NEW s, Plan(s), writes' = writes, kind' = kind, done' = done, NEW t, Range(s) \subseteq Range(t)
    PROVE  Plan(t)'
<1>1. writes' \in Seq(Range(writes'))
  BY DEF Plan
<1>2. ASSUME Inserts
      PROVE  Inserts'
  BY <1>2 DEF Inserts
<1>3. ASSUME Updates(s)
      PROVE  Updates(t)'
  BY <1>3 DEF Updates
<1>4. ASSUME Deletes(s)
      PROVE  Deletes(t)'
  <2>1. \A k : Removal(k)' <=> Removal(k)
    BY DEF Removal
  <2> QED
    BY <1>4, <2>1 DEF Deletes
<1> QED
  BY <1>1, <1>2, <1>3, <1>4 DEF Plan

-----------------------------------------------------------------------------
(* The parts of an entity *)

LEMMA LayoutFacts ==
    ASSUME NEW k \in EntityKinds, NEW l \in Layouts[k]
    PROVE  /\ l \in Seq(PartKinds) /\ Len(l) \in Nat /\ DOMAIN l = 1 .. Len(l)
           /\ Len(l) > 0 /\ MostBlocks[k] \in Nat /\ Len(l) + 1 <= MostBlocks[k]
           /\ k = "node" => \A i \in DOMAIN l : l[i] = "text" => i + 1 \in DOMAIN l /\ l[i + 1] = "value"
           /\ k = "link" => l = <<"text">>
<1>1. MaxAttributes \in Nat
  BY CrashStoreAssumption
<1>2. CASE k = "node"
  <2>1. Layouts["node"] = {w \in SeqOf(PartKinds, 2 * MaxAttributes) :
            /\ Cardinality({i \in DOMAIN w : w[i] = "value"}) \in 1 .. MaxAttributes
            /\ \A i \in DOMAIN w : w[i] = "text" => i + 1 \in DOMAIN w /\ w[i+1] = "value"}
    BY DEF Layouts
  <2>2. /\ l \in SeqOf(PartKinds, 2 * MaxAttributes)
        /\ Cardinality({i \in DOMAIN l : l[i] = "value"}) \in 1 .. MaxAttributes
        /\ \A i \in DOMAIN l : l[i] = "text" => i + 1 \in DOMAIN l /\ l[i+1] = "value"
    BY <1>2, <2>1
  <2>3. PICK n \in 0 .. 2 * MaxAttributes : l \in [1 .. n -> PartKinds]
    BY <2>2 DEF SeqOf
  <2>4. n \in Nat /\ n <= 2 * MaxAttributes
    BY <1>1
  <2>5. l \in Seq(PartKinds) /\ Len(l) = n /\ DOMAIN l = 1 .. n
    BY <2>3, <2>4
  <2> DEFINE V == {i \in DOMAIN l : l[i] = "value"}
  <2>6. V # {}
    <3>1. Cardinality(V) \in 1 .. MaxAttributes
      BY <2>2
    <3> HIDE DEF V
    <3>2. V = {} => Cardinality(V) = 0
      BY FS_EmptySet
    <3> QED
      BY <1>1, <3>1, <3>2
  <2>7. n > 0
    BY <2>4, <2>5, <2>6
  <2>8. MostBlocks["node"] = 2 * MaxAttributes + 1
    BY DEF MostBlocks
  <2>9. MostBlocks[k] \in Nat /\ n + 1 <= MostBlocks[k]
    BY <1>1, <1>2, <2>4, <2>8
  <2> QED
    BY <1>2, <2>2, <2>4, <2>5, <2>7, <2>9
<1>3. CASE k = "link"
  <2>1. l = <<"text">> /\ MostBlocks[k] = 2
    BY <1>3 DEF Layouts, MostBlocks
  <2>2. l \in Seq(PartKinds) /\ Len(l) = 1 /\ DOMAIN l = 1 .. 1
    BY <2>1 DEF PartKinds
  <2> QED
    BY <1>3, <2>1, <2>2
<1> QED
  BY <1>2, <1>3 DEF EntityKinds

LEMMA RangeSmall ==
    ASSUME NEW S, NEW v \in Seq(S)
    PROVE  IsFiniteSet(Range(v)) /\ Cardinality(Range(v)) <= Len(v) /\ Cardinality(Range(v)) \in Nat
<1> DEFINE n == Len(v)
<1>1. n \in Nat /\ v \in [1 .. n -> S]
  OBVIOUS
<1>2. IsFiniteSet(1 .. n) /\ Cardinality(1 .. n) = n
  <2>1. 1 \in Int /\ n \in Int /\ (IF 1 > n THEN 0 ELSE n - 1 + 1) = n
    BY <1>1
  <2> QED
    BY <2>1, FS_Interval
<1>3. v \in Surjection(1 .. n, Range(v))
  BY <1>1 DEF Surjection, Range
<1>4. IsFiniteSet(Range(v)) /\ Cardinality(Range(v)) <= Cardinality(1 .. n)
  BY <1>2, <1>3, FS_Surjection
<1> QED
  BY <1>2, <1>4, FS_CardinalityType

\* A set with at most so many elements and one more.
LEMMA OneMore ==
    ASSUME NEW S, IsFiniteSet(S), NEW n \in Nat, Cardinality(S) <= n, NEW x
    PROVE  IsFiniteSet({x} \union S) /\ Cardinality({x} \union S) <= n + 1
<1>1. {x} \union S = S \union {x}
  OBVIOUS
<1>2. IsFiniteSet(S \union {x}) /\ Cardinality(S \union {x}) = IF x \in S THEN Cardinality(S) ELSE Cardinality(S) + 1
  BY FS_AddElement
<1>3. Cardinality(S) \in Nat
  BY FS_CardinalityType
<1>4. Cardinality(S \union {x}) <= n + 1
  BY <1>2, <1>3
<1> QED
  BY <1>1, <1>2, <1>4

LEMMA PartsFacts ==
    ASSUME NEW v \in Seq(Ptr), WholeParts(v), kind \in EntityKinds
    PROVE  /\ Len(v) \in Nat /\ Len(v) > 0 /\ DOMAIN v = 1 .. Len(v)
           /\ MostBlocks[kind] \in Nat /\ Len(v) + 1 <= MostBlocks[kind]
           /\ \A q \in Range(v) : q \in DOMAIN file /\ file[q].holds \in PartKinds
           /\ \A x : IsFiniteSet({x} \union Range(v)) /\ Cardinality({x} \union Range(v)) <= MostBlocks[kind]
<1> DEFINE l == Held(v)
<1>1. l \in Layouts[kind] /\ DOMAIN l = DOMAIN v /\ \A k \in DOMAIN v : v[k] \in DOMAIN file /\ l[k] = file[v[k]].holds
  BY DEF WholeParts, Held
<1> HIDE DEF l
<1>2. /\ l \in Seq(PartKinds) /\ Len(l) \in Nat /\ DOMAIN l = 1 .. Len(l)
      /\ Len(l) > 0 /\ MostBlocks[kind] \in Nat /\ Len(l) + 1 <= MostBlocks[kind]
  BY <1>1, LayoutFacts, Zenon
<1>3. Len(v) = Len(l) /\ DOMAIN v = 1 .. Len(v) /\ Len(v) \in Nat
  <2>1. Len(v) \in Nat /\ DOMAIN v = 1 .. Len(v)
    OBVIOUS
  <2>2. \A a, b \in Nat : 1 .. a = 1 .. b => a = b
    <3> SUFFICES ASSUME NEW a \in Nat, NEW b \in Nat, 1 .. a = 1 .. b
                 PROVE  a = b
      OBVIOUS
    <3>1. (a \in 1 .. a \/ a = 0) /\ (b \in 1 .. b \/ b = 0)
      OBVIOUS
    <3> QED
      BY <3>1
  <2> QED
    BY <1>1, <1>2, <2>1, <2>2, Zenon
<1>4. \A k \in DOMAIN l : l[k] \in PartKinds
  BY <1>2
<1>5. \A q \in Range(v) : q \in DOMAIN file /\ file[q].holds \in PartKinds
  BY <1>1, <1>4 DEF Range
<1>6. IsFiniteSet(Range(v)) /\ Cardinality(Range(v)) <= Len(v) /\ Cardinality(Range(v)) \in Nat
  BY RangeSmall
<1>7. ASSUME NEW x
      PROVE  IsFiniteSet({x} \union Range(v)) /\ Cardinality({x} \union Range(v)) <= MostBlocks[kind]
  <2>1. IsFiniteSet({x} \union Range(v)) /\ Cardinality({x} \union Range(v)) <= Len(v) + 1
    BY <1>3, <1>6, OneMore
  <2>2. Cardinality({x} \union Range(v)) \in Nat
    BY <2>1, FS_CardinalityType
  <2> QED
    BY <1>2, <1>3, <2>1, <2>2
<1> QED
  BY <1>2, <1>3, <1>5, <1>7

LEMMA SameParts ==
    ASSUME NEW v, WholeParts(v), kind' = kind,
           \A k \in DOMAIN v : v[k] \in DOMAIN file' /\ file'[v[k]].holds = file[v[k]].holds
    PROVE  WholeParts(v)' /\ Held(v)' = Held(v)
<1>1. Held(v)' = Held(v)
  BY DEF Held
<1> QED
  BY <1>1 DEF WholeParts

\* The blocks of an entity, in the order in which they are given back: each
\* part once, and the entity itself.
LEMMA ToFreeFacts ==
    ASSUME NEW t, file[t].parts \in Seq(Ptr), WholeParts(file[t].parts), kind \in EntityKinds
    PROVE  /\ BlocksToFree(t) \in Seq({t} \union PartsAt(t)) /\ Len(BlocksToFree(t)) \in Nat
           /\ Len(BlocksToFree(t)) > 0 /\ DOMAIN BlocksToFree(t) = 1 .. Len(BlocksToFree(t))
           /\ {BlocksToFree(t)[i] : i \in 1 .. Len(BlocksToFree(t))} = {t} \union PartsAt(t)
<1> DEFINE v == file[t].parts
           f == ValueFirst(v)
           n == Len(v)
           S == {t} \union Range(v)
<1>1. v \in Seq(Ptr) /\ n \in Nat /\ n > 0 /\ DOMAIN v = 1 .. n
  BY PartsFacts
<1>2. \A k \in DOMAIN v : v[k] \in Range(v)
  BY DEF Range
<1>3. \A q \in Range(v) : \E k \in DOMAIN v : q = v[k]
  BY DEF Range
<1>4. CASE kind = "link"
  <2>1. BlocksToFree(t) = <<t>> \o v
    BY <1>4 DEF BlocksToFree
  <2>2. v \in Seq(S) /\ <<t>> \in Seq(S) /\ Len(<<t>>) = 1 /\ <<t>>[1] = t
    BY <1>1, <1>2
  <2> DEFINE b == <<t>> \o v
  <2>3. b \in Seq(S) /\ Len(b) = n + 1 /\ \A i \in 1 .. n + 1 : b[i] = IF i <= 1 THEN <<t>>[i] ELSE v[i - 1]
    BY <1>1, <2>2, ConcatProperties
  <2>4. DOMAIN b = 1 .. n + 1
    BY <1>1, <2>3
  <2> HIDE DEF b
  <2>5. b[1] = t /\ \A k \in 1 .. n : b[k + 1] = v[k] /\ k + 1 \in 1 .. n + 1
    BY <1>1, <2>2, <2>3
  <2>6. \A x \in S : \E i \in 1 .. n + 1 : b[i] = x
    <3>1. 1 \in 1 .. n + 1
      BY <1>1
    <3> QED
      BY <1>1, <1>3, <2>5, <3>1
  <2>7. \A i \in 1 .. n + 1 : b[i] \in S
    BY <2>3, <2>4
  <2> QED
    BY <1>1, <2>1, <2>3, <2>4, <2>6, <2>7 DEF PartsAt, b
<1>5. CASE kind = "node"
  <2> DEFINE l == Held(v)
  <2>1. l \in Layouts["node"] /\ DOMAIN l = DOMAIN v /\ \A k \in DOMAIN v : l[k] = file[v[k]].holds
    BY <1>5 DEF WholeParts, Held
  <2> HIDE DEF l
  <2>2. \A i \in DOMAIN v : l[i] = "text" => i + 1 \in DOMAIN v /\ l[i + 1] = "value"
    <3>1. "node" \in EntityKinds
      BY DEF EntityKinds
    <3> QED
      BY <2>1, <3>1, LayoutFacts
  <2>3. \A i : HoldsText(v, i) <=> i \in DOMAIN v /\ l[i] = "text"
    BY <2>1 DEF HoldsText
  <2> DEFINE at(k) == IF HoldsText(v, k) THEN k + 1 ELSE IF HoldsText(v, k - 1) THEN k - 1 ELSE k
  <2>4. DOMAIN f = 1 .. n /\ \A k \in 1 .. n : f[k] = v[at(k)]
    BY <1>1 DEF ValueFirst
  <2>5. \A k \in 1 .. n : at(k) \in 1 .. n /\ at(at(k)) = k
    <3> TAKE k \in 1 .. n
    <3>1. CASE HoldsText(v, k)
      <4>1. k + 1 \in 1 .. n /\ l[k + 1] = "value" /\ (k + 1) - 1 = k
        BY <1>1, <2>2, <2>3, <3>1
      <4>2. ~HoldsText(v, k + 1) /\ HoldsText(v, (k + 1) - 1)
        BY <2>3, <3>1, <4>1
      <4> QED
        BY <3>1, <4>1, <4>2
    <3>2. CASE ~HoldsText(v, k) /\ HoldsText(v, k - 1)
      <4>1. k - 1 \in 1 .. n /\ (k - 1) + 1 = k
        BY <1>1, <2>3, <3>2
      <4> QED
        BY <3>2, <4>1
    <3>3. CASE ~HoldsText(v, k) /\ ~HoldsText(v, k - 1)
      BY <3>3
    <3> QED
      BY <3>1, <3>2, <3>3
  <2> HIDE DEF at
  <2>6. f \in [1 .. n -> S]
    <3>1. f = [k \in 1 .. n |-> f[k]]
      BY <1>1 DEF ValueFirst
    <3>2. \A k \in 1 .. n : f[k] \in S
      BY <1>1, <1>2, <2>4, <2>5
    <3> HIDE DEF f, S
    <3> QED
      BY <3>1, <3>2
  <2>7. \A q \in Range(v) : \E k \in 1 .. n : f[k] = q
    BY <1>1, <1>3, <2>4, <2>5
  <2> HIDE DEF f
  <2>8. f \in Seq(S) /\ Len(f) = n
    <3> HIDE DEF n, S
    <3> QED
      BY <1>1, <2>6
  <2>9. BlocksToFree(t) = Append(f, t)
    BY <1>5 DEF BlocksToFree, f
  <2> DEFINE b == Append(f, t)
  <2>10. b \in Seq(S) /\ Len(b) = n + 1 /\ (\A i \in 1 .. n : b[i] = f[i]) /\ b[n + 1] = t
    BY <1>1, <2>8, AppendProperties
  <2>11. DOMAIN b = 1 .. n + 1
    BY <1>1, <2>10
  <2> HIDE DEF b
  <2>12. \A x \in S : \E i \in 1 .. n + 1 : b[i] = x
    <3>1. n + 1 \in 1 .. n + 1 /\ \A k \in 1 .. n : k \in 1 .. n + 1
      BY <1>1
    <3> QED
      BY <2>7, <2>10, <3>1
  <2>13. \A i \in 1 .. n + 1 : b[i] \in S
    BY <2>10, <2>11
  <2> QED
    BY <1>1, <2>9, <2>10, <2>11, <2>12, <2>13 DEF PartsAt, b
<1> QED
  BY <1>4, <1>5 DEF EntityKinds

LEMMA ToFreeSame ==
    ASSUME NEW t, kind' = kind, file'[t].parts = file[t].parts,
           \A q \in PartsAt(t) : file'[q].holds = file[q].holds
    PROVE  BlocksToFree(t)' = BlocksToFree(t) /\ PartsAt(t)' = PartsAt(t)
<1> DEFINE v == file[t].parts
<1>1. \A k \in DOMAIN v : file'[v[k]].holds = file[v[k]].holds
  BY DEF PartsAt, Range
<1>2. PICK w : w = v
  OBVIOUS
<1>3. \A k : HoldsText(w, k)' <=> HoldsText(w, k)
  BY <1>1, <1>2 DEF HoldsText
<1>4. ValueFirst(w)' = ValueFirst(w)
  BY <1>3 DEF ValueFirst
<1>5. BlocksToFree(t) = IF kind = "node" THEN Append(ValueFirst(w), t) ELSE <<t>> \o w
  BY <1>2 DEF BlocksToFree
<1>6. BlocksToFree(t)' = IF kind' = "node" THEN Append(ValueFirst(w)', t) ELSE <<t>> \o w
  BY <1>2 DEF BlocksToFree
<1> QED
  BY <1>4, <1>5, <1>6 DEF PartsAt

-----------------------------------------------------------------------------
(* What the invariant says of the list, and where a query is *)

LEMMA KeptFacts ==
    ASSUME NEW s, NEW m, ListKept(s, m)
    PROVE  /\ Len(s) \in Nat /\ DOMAIN s = 1 .. Len(s) /\ s \in Seq(Ptr)
           /\ m \in Nat /\ m <= Len(s) /\ Len(s) <= m + 1
           /\ \A i \in DOMAIN s : s[i] \in Range(s) /\ s[i] \in Ptr /\ s[i] # Null /\ s[i] \in DOMAIN file
           /\ Null \notin Range(s)
           /\ \A i, j \in DOMAIN s : s[i] = s[j] => i = j
           /\ \A i \in DOMAIN s : s[i] \in HeldBy(s) /\ \A q \in PartsAt(s[i]) : q \in HeldBy(s) /\ q \in PartsOf(s)
           /\ \A i \in DOMAIN s : file[s[i]].parts \in Seq(Ptr) /\ WholeParts(file[s[i]].parts)
           /\ HeldBy(s) \subseteq DOMAIN file /\ Null \notin HeldBy(s)
           /\ \A p \in Range(s) : file[p].holds = kind
           /\ \A p \in PartsOf(s) : file[p].holds \in PartKinds /\ p \notin Range(s)
           /\ writes \in Seq(Range(writes)) /\ kind \in EntityKinds /\ kind \notin PartKinds
           /\ MostBlocks[kind] \in Nat
<1>1. /\ s \in Seq(Ptr) /\ Len(s) \in Nat /\ DOMAIN s = 1 .. Len(s)
      /\ writes \in Seq(Range(writes)) /\ kind \in EntityKinds /\ kind \notin PartKinds
  BY DEF ListKept, Forwards, Plan, InMemory, EntityKinds, PartKinds
<1>2. m \in Nat /\ m <= Len(s) /\ Len(s) <= m + 1
  <2>1. m \in Nat /\ (m = Len(s) \/ m = Len(s) - 1)
    BY DEF ListKept, MemoryEnds
  <2>2. PICK c \in Nat : c = Len(s)
    BY <1>1
  <2>3. m <= c /\ c <= m + 1
    BY ONLY <2>1, <2>2
  <2> QED
    BY ONLY <2>1, <2>2, <2>3
<1>3. ASSUME NEW i \in DOMAIN s
      PROVE  /\ s[i] \in Ptr /\ s[i] \in DOMAIN file /\ s[i] # Null /\ s[i] \in Range(s)
             /\ file[s[i]].holds = kind /\ \A q \in PartsAt(s[i]) : q \in PartsOf(s)
             /\ WholeParts(file[s[i]].parts)
  BY <1>1, EntityListAssumption DEF ListKept, Forwards, Range, PartsOf
<1>4. ASSUME NEW p \in Range(s)
      PROVE  p \in Ptr /\ p \in DOMAIN file /\ p # Null /\ file[p].holds = kind
  BY <1>3 DEF Range
<1>5. ASSUME NEW i \in DOMAIN s
      PROVE  file[s[i]].parts \in Seq(Ptr)
  BY <1>3, FileFields DEF ListKept
<1>6. ASSUME NEW p \in PartsOf(s)
      PROVE  p \in DOMAIN file /\ p # Null /\ file[p].holds \in PartKinds
  <2>1. PICK i \in DOMAIN s : p \in PartsAt(s[i])
    BY DEF PartsOf
  <2>2. p \in DOMAIN file /\ file[p].holds \in PartKinds
    BY <1>1, <1>3, <1>5, <2>1, PartsFacts DEF PartsAt
  <2> QED
    BY <2>2, FileFields DEF ListKept
<1>7. \A i, j \in DOMAIN s : s[i] = s[j] => i = j
  BY DEF ListKept, Forwards
<1>8. MostBlocks[kind] \in Nat
  BY <1>1, CrashStoreAssumption DEF MostBlocks, EntityKinds
<1>9. \A i \in DOMAIN s : s[i] \in HeldBy(s) /\ \A q \in PartsAt(s[i]) : q \in HeldBy(s) /\ q \in PartsOf(s)
  BY <1>3 DEF HeldBy
<1>10. HeldBy(s) \subseteq DOMAIN file /\ Null \notin HeldBy(s)
  BY <1>4, <1>6 DEF HeldBy
<1>11. \A p \in PartsOf(s) : file[p].holds \in PartKinds /\ p \notin Range(s)
  BY <1>1, <1>4, <1>6
<1> QED
  BY <1>1, <1>2, <1>3, <1>4, <1>5, <1>7, <1>8, <1>9, <1>10, <1>11

LEMMA IdleFacts ==
    ASSUME writes = <<>>
    PROVE  /\ \A op : ~Running(op)
           /\ ~Created /\ ~Deletion /\ GivenBack = {} /\ InHand = {}
<1>1. \A op : ~Running(op)
  BY DEF Running
<1> QED
  BY <1>1 DEF Created, Deletion, GivenBack, InHand

LEMMA AheadFacts ==
    ASSUME NEW op, NEW at, Ahead(op, at)
    PROVE  /\ \A other : Running(other) <=> other = op
           /\ Target = at /\ writes # <<>>
BY DEF Ahead, Running, Target

\* The running query holds nothing that is not in the list, and everything
\* in the list is in use.
LEMMA QuietFacts ==
    ASSUME NEW op, NEW at, Ahead(op, at),
           \/ op \in {"parts", "header"} /\ at = Null
           \/ op \in {"entity", "chain", "header", "free_text"}
           \/ op \in {"close_next", "close_prev", "free"} /\ kind = "link"
    PROVE  GivenBack = {}
BY AheadFacts DEF GivenBack

\* The list read from its blocks, when no write changed what it says.
LEMMA SameForwards ==
    ASSUME NEW s, Forwards(s), kind' = kind,
           \A i \in DOMAIN s :
              /\ s[i] \in DOMAIN file' /\ file'[s[i]].holds = file[s[i]].holds
              /\ file'[s[i]].next = file[s[i]].next /\ file'[s[i]].parts = file[s[i]].parts
              /\ \A q \in PartsAt(s[i]) : q \in DOMAIN file' /\ file'[q].holds = file[q].holds
    PROVE  /\ Forwards(s)' /\ HeldBy(s)' = HeldBy(s) /\ PartsOf(s)' = PartsOf(s)
           /\ \A i \in DOMAIN s : PartsAt(s[i])' = PartsAt(s[i])
<1>1. \A i \in DOMAIN s : PartsAt(s[i])' = PartsAt(s[i])
  BY DEF PartsAt
<1>2. PartsOf(s)' = PartsOf(s)
  BY <1>1 DEF PartsOf
<1>3. ASSUME NEW i \in DOMAIN s
      PROVE  WholeParts(file[s[i]].parts)'
  <2>1. PICK v : v = file[s[i]].parts
    OBVIOUS
  <2>2. WholeParts(v)
    BY <2>1 DEF Forwards
  <2>3. \A k \in DOMAIN v : v[k] \in DOMAIN file' /\ file'[v[k]].holds = file[v[k]].holds
    BY <2>1 DEF PartsAt, Range
  <2>4. WholeParts(v)'
    BY <2>2, <2>3, SameParts
  <2>5. v = file'[s[i]].parts
    BY <2>1
  <2> QED
    BY <2>4, <2>5
<1>4. Forwards(s)'
  BY <1>1, <1>3 DEF Forwards
<1> QED
  BY <1>1, <1>2, <1>4 DEF HeldBy

LEMMA SameBackwards ==
    ASSUME NEW s, NEW m, Backwards(s), MemoryEnds(s, m), mem' = mem,
           ~Running("close_prev"), ~Running("close_prev")',
           \A i \in DOMAIN s : file'[s[i]].prev = file[s[i]].prev
    PROVE  Backwards(s)' /\ MemoryEnds(s, m)'
BY DEF Backwards, MemoryEnds, Closing

\* blocks that are lost
LEMMA UsedFinite == InFile => IsFiniteSet(Used)
<1> SUFFICES ASSUME InFile
             PROVE  IsFiniteSet(Used)
  OBVIOUS
<1>1. Used \subseteq DOMAIN file
  BY DEF Used, InUse
<1> QED
  BY <1>1, FS_Subset DEF InFile

LEMMA TimesMore ==
    ASSUME NEW k \in Nat, NEW a \in Int, NEW b \in Int
    PROVE  /\ k * a \in Int /\ (a <= b => k * a <= k * b)
           /\ k * (a + 1) = k * a + k
<1>1. \A i \in Int : i >= 0 => k * i >= 0
  OBVIOUS
<1>2. k * (b - a) = k * b - k * a
  OBVIOUS
<1> QED
  BY <1>1, <1>2

LEMMA LostNoMore ==
    ASSUME NEW s, NEW m \in Int, Leaks(s, m), InFile, Len(s) \in Int, cuts \in Nat, cuts' \in Nat,
           MostBlocks[kind] \in Nat, kind' = kind,
           NEW t, NEW n \in Int, Len(t) \in Int, (Len(t) - n) - cuts' <= (Len(s) - m) - cuts, InFile',
           Lost(t)' \subseteq Lost(s)
    PROVE  Leaks(t, n)'
<1>1. IsFiniteSet(Lost(s))
  BY UsedFinite, FS_Subset DEF Lost
<1>2. IsFiniteSet(Lost(t)')
  BY <1>1, FS_Subset
<1>3. Cardinality(Lost(t)') <= Cardinality(Lost(s)) /\ Cardinality(Lost(s)) \in Nat /\ Cardinality(Lost(t)') \in Nat
  BY <1>1, <1>2, FS_Subset, FS_CardinalityType
<1> DEFINE a == cuts - (Len(s) - m)
           b == cuts' - (Len(t) - n)
<1>4. a \in Int /\ b \in Int /\ a <= b
  OBVIOUS
<1>5. MostBlocks[kind] * a <= MostBlocks[kind] * b /\ MostBlocks[kind] * a \in Int /\ MostBlocks[kind] * b \in Int
  BY <1>4, TimesMore
<1>6. Cardinality(Lost(s)) <= MostBlocks[kind] * a
  BY <1>4 DEF Leaks
<1> HIDE DEF a, b
<1>7. Cardinality(Lost(t)') <= MostBlocks[kind] * b
  BY <1>3, <1>5, <1>6
<1>8. MostBlocks' = MostBlocks
  BY DEF MostBlocks
<1> QED
  BY <1>4, <1>7, <1>8 DEF Leaks, b

LEMMA LostShrinks ==
    ASSUME NEW s, NEW m \in Int, Leaks(s, m), InFile, Len(s) \in Int, cuts \in Nat, cuts' = cuts,
           MostBlocks[kind] \in Nat, kind' = kind,
           NEW t, NEW n \in Int, Len(t) \in Int, Len(t) - n <= Len(s) - m, InFile',
           Lost(t)' \subseteq Lost(s)
    PROVE  Leaks(t, n)'
<1>1. (Len(t) - n) - cuts' <= (Len(s) - m) - cuts /\ cuts' \in Nat
  OBVIOUS
<1> QED
  BY <1>1, LostNoMore

\* The blocks of one entity more are lost.
LEMMA LostGrows ==
    ASSUME NEW s, NEW m \in Int, Leaks(s, m), InFile, Len(s) \in Int, cuts \in Nat, cuts' \in Nat,
           MostBlocks[kind] \in Nat, kind' = kind,
           NEW t, NEW n \in Int, Len(t) \in Int, InFile',
           NEW X, IsFiniteSet(X), Cardinality(X) <= MostBlocks[kind], Lost(t)' \subseteq Lost(s) \union X,
           (Len(t) - n) - cuts' < (Len(s) - m) - cuts
    PROVE  Leaks(t, n)'
<1>1. IsFiniteSet(Lost(s))
  BY UsedFinite, FS_Subset DEF Lost
<1>2. IsFiniteSet(Lost(s) \union X) /\ Cardinality(Lost(s) \union X) <= Cardinality(Lost(s)) + Cardinality(X)
  <2>1. /\ IsFiniteSet(Lost(s) \union X)
        /\ Cardinality(Lost(s) \union X)
              = Cardinality(Lost(s)) + Cardinality(X) - Cardinality(Lost(s) \intersect X)
    BY <1>1, FS_Union
  <2>2. IsFiniteSet(Lost(s) \intersect X)
    BY <1>1, FS_Subset
  <2>3. Cardinality(Lost(s) \intersect X) \in Nat /\ Cardinality(Lost(s)) \in Nat /\ Cardinality(X) \in Nat
    BY <1>1, <2>2, FS_CardinalityType
  <2> QED
    BY <2>1, <2>3
<1>3. IsFiniteSet(Lost(t)') /\ Cardinality(Lost(t)') <= Cardinality(Lost(s) \union X)
  BY <1>2, FS_Subset
<1>4. /\ Cardinality(Lost(t)') \in Nat /\ Cardinality(Lost(s)) \in Nat
      /\ Cardinality(Lost(s) \union X) \in Nat /\ Cardinality(X) \in Nat
  BY <1>1, <1>2, <1>3, FS_CardinalityType
<1> DEFINE a == cuts - (Len(s) - m)
           b == cuts' - (Len(t) - n)
<1>5. a \in Int /\ b \in Int /\ a + 1 <= b
  OBVIOUS
<1>6. /\ MostBlocks[kind] * (a + 1) <= MostBlocks[kind] * b /\ MostBlocks[kind] * b \in Int
      /\ MostBlocks[kind] * (a + 1) = MostBlocks[kind] * a + MostBlocks[kind] /\ MostBlocks[kind] * a \in Int
  <2> HIDE DEF a, b
  <2>1. a + 1 \in Int
    BY <1>5
  <2> QED
    BY <1>5, <2>1, TimesMore
<1>7. Cardinality(Lost(s)) <= MostBlocks[kind] * a
  BY <1>5 DEF Leaks
<1> HIDE DEF a, b
<1>8. Cardinality(Lost(t)') <= MostBlocks[kind] * b
  BY <1>2, <1>3, <1>4, <1>6, <1>7
<1>9. MostBlocks' = MostBlocks
  BY DEF MostBlocks
<1> QED
  BY <1>5, <1>8, <1>9 DEF Leaks, b

-----------------------------------------------------------------------------
(* The beginnings of queries *)

\* An iteration over the file finds the list of the invariant, when the
\* header in the file leads to it.
LEMMA ListedIs ==
    ASSUME NEW s, NEW m, ListKept(s, m), ~Running("close_prev"), disk.first = mem.first
    PROVE  Listed = s
<1>1. Pointed(file)
  BY FileFields DEF ListKept, InFile, Pointed
<1>2. Chain(file, disk.first, s)
  <2>1. s \in Seq(DOMAIN file)
    <3>1. s \in Seq(Ptr) /\ \A i \in DOMAIN s : s[i] \in DOMAIN file
      BY KeptFacts
    <3>2. s \in Seq(Range(s)) /\ Range(s) \subseteq DOMAIN file
      BY <3>1, SeqOfItsElements DEF Range
    <3> QED
      BY <3>2
  <2>2. disk.first = AtPos(s, 1)
    BY DEF ListKept, MemoryEnds, Closing
  <2>3. \A i \in DOMAIN s : file[s[i]].next = AtPos(s, i + 1)
    BY DEF ListKept, Forwards
  <2> QED
    BY <2>1, <2>2, <2>3, KeptFacts DEF Chain
<1> QED
  BY <1>1, <1>2, WalkIsChain DEF Listed

LEMMA IdleList ==
    ASSUME NEW s, NEW m, ListKept(s, m), writes = <<>>
    PROVE  Listed = s /\ disk = mem /\ Known(m) = m /\ InMemory
<1>1. ~Running("close_prev") /\ ~Created /\ ~Deletion
  BY IdleFacts
<1> QED
  BY <1>1, ListedIs DEF ListKept, FileEnds, Known

\* A query is planned, and nothing is written yet.
LEMMA PlanningStep ==
    ASSUME NEW s, NEW m, ListKept(s, m), writes = <<>>,
           UNCHANGED <<kind, file, disk, mem, made, latest, cuts>>,
           NEW op, NEW at, Ahead(op, at)',
           \/ op = "parts" /\ at = Null
           \/ op = "free_text"
           \/ op = "free" /\ nth' = 1 /\ kind = "node"
           \/ op = "close_next" /\ kind = "link",
           Plan(s)', Keeps(s, m)', Fresh(s)'
    PROVE  ListKept(s, m)'
<1>1. /\ \A other : ~Running(other)
      /\ ~Created /\ ~Deletion /\ GivenBack = {} /\ InHand = {}
  BY IdleFacts
<1>2. /\ \A other : Running(other)' <=> other = op
      /\ Target' = at
  BY DEF Ahead, Running, Target
<1>3. GivenBack' = {} /\ InHand' = {} /\ ~Created'
  <2>1. GivenBack' = {} /\ ~Created'
    BY <1>2 DEF GivenBack, Created
  <2>2. made' = <<>>
    BY DEF ListKept, Fresh
  <2>3. Range(made') = {}
    BY <2>2 DEF Range
  <2>4. InHand' = {}
    BY <1>2, <2>3 DEF InHand
  <2> QED
    BY <2>1, <2>4
<1>4. InFile' /\ InMemory' /\ Used' = Used /\ \A p : InUse(p)' = InUse(p)
  BY DEF ListKept, InFile, InMemory, Used, InUse
<1>5. Forwards(s)' /\ HeldBy(s)' = HeldBy(s)
  <2>1. \A p : PartsAt(p)' = PartsAt(p)
    BY DEF PartsAt
  <2>2. \A v : WholeParts(v)' <=> WholeParts(v)
    BY DEF WholeParts, Held
  <2>3. PartsOf(s)' = PartsOf(s)
    BY <2>1 DEF PartsOf
  <2> QED
    BY <2>1, <2>2, <2>3 DEF ListKept, Forwards, HeldBy
<1>6. Backwards(s)' /\ MemoryEnds(s, m)'
  BY <1>1, <1>2, SameBackwards DEF ListKept
<1>7. FileEnds(s, m)'
  BY <1>1, <1>3 DEF ListKept, FileEnds
<1>8. UsedBy(s)'
  BY <1>1, <1>3, <1>4, <1>5 DEF ListKept, UsedBy
<1>10. Leaks(s, m)'
  BY <1>1, <1>3, <1>4, <1>5 DEF ListKept, Leaks, Lost, MostBlocks
<1>11. Keeps(s, Known(m))'
  BY <1>3 DEF Known
<1> QED
  BY <1>4, <1>5, <1>6, <1>7, <1>8, <1>10, <1>11 DEF ListKept

LEMMA BeginInsertKept ==
    ASSUME NEW s, NEW m, ListKept(s, m), NEW parts \in Layouts[kind], BeginInsert(parts)
    PROVE  ListKept(s, m)'
<1>1. /\ writes = <<>> /\ writes' = [i \in DOMAIN Inserting |-> Op(Inserting[i], Null)]
      /\ layout' = parts
      /\ UNCHANGED <<kind, file, disk, mem, made, latest, nth, done, cuts>>
  BY DEF BeginInsert
<1> DEFINE n == 4
<1>2. n \in Nat /\ n > 0 /\ DOMAIN Inserting = 1 .. n
  BY DEF Inserting
<1>3. /\ writes' \in Seq(Range(writes')) /\ Len(writes') = n /\ DOMAIN writes' = 1 .. n
      /\ \A k \in 1 .. n : writes'[k] = Op(Inserting[k], Null)
  <2>1. writes' \in [1 .. n -> Range(writes')]
    BY <1>1, <1>2 DEF Range
  <2>2. writes' \in Seq(Range(writes')) /\ DOMAIN writes' = 1 .. n
    BY <2>1, SeqOfNumbered
  <2> QED
    BY <1>1, <1>2, <2>2
<1>4. Inserts'
  <2> SUFFICES ASSUME NEW k \in 1 .. 4
               PROVE  /\ writes'[k] = Op(Inserting[k], Null)
                      /\ k < 4 => k < 4 /\ writes'[k + 1] = Op(Inserting[k + 1], Null)
                      /\ k = 4 => k = 4
    BY <1>3 DEF Inserts
  <2> QED
    BY <1>3
<1>5. Ahead("parts", Null)'
  <2>1. writes' # <<>> /\ Head(writes') = writes'[1]
    <3> HIDE DEF n
    <3> QED
      BY <1>2, <1>3, SeqStart
  <2> QED
    BY <1>3, <2>1, OtherOps, OpFields DEF Ahead
<1>6. Keeps(s, m)'
  BY <1>1, IdleList DEF ListKept, Keeps
<1>7. Plan(s)'
  BY <1>3, <1>4 DEF Plan
<1>8. Fresh(s)'
  <2>1. made' = <<>> /\ nth' = 1
    BY <1>1 DEF ListKept, Fresh
  <2>2. /\ \A other : Running(other)' <=> other = "parts"
        /\ Target' = Null /\ writes' # <<>>
    BY <1>5 DEF Ahead, Running, Target
  <2>3. layout' \in Layouts[kind]' /\ layout' \in Seq(PartKinds) /\ Len(layout') \in Nat /\ Len(layout') > 0
    <3>1. kind \in EntityKinds /\ kind' = kind
      BY <1>1, KeptFacts
    <3> QED
      BY <1>1, <3>1, LayoutFacts DEF Layouts
  <2>4. made' \in Seq(Ptr) /\ Len(made') = 0 /\ DOMAIN made' = {}
    BY <2>1
  <2>5. Making' /\ Len(made') < Len(layout')
    BY <2>3, <2>4 DEF Making
  <2>6. Inserted(s)'
    BY <2>2, <2>3, <2>4, <2>5 DEF Inserted
  <2>7. Exchanged(s)'
    BY <2>2 DEF Exchanged
  <2>8. Released(s)'
    BY <2>1, <2>2 DEF Released
  <2> QED
    BY <2>2, <2>6, <2>7, <2>8 DEF Fresh
<1> QED
  BY <1>1, <1>5, <1>6, <1>7, <1>8, PlanningStep

LEMMA BeginUpdateKept ==
    ASSUME NEW s, NEW m, ListKept(s, m), NEW p \in ToSet(Listed), NEW i, BeginUpdate(p, i)
    PROVE  ListKept(s, m)'
<1>1. /\ writes = <<>> /\ writes' = [j \in DOMAIN Updating |-> Op(Updating[j], p)] /\ kind = "node"
      /\ HoldsText(file[p].parts, i) /\ nth' = i /\ layout' = <<"text">>
      /\ UNCHANGED <<kind, file, disk, mem, made, latest, done, cuts>>
  BY DEF BeginUpdate
<1> DEFINE n == 3
<1>2. n \in Nat /\ n > 0 /\ DOMAIN Updating = 1 .. n
  BY DEF Updating
<1>3. /\ writes' \in Seq(Range(writes')) /\ Len(writes') = n /\ DOMAIN writes' = 1 .. n
      /\ \A k \in 1 .. n : writes'[k] = Op(Updating[k], p)
  <2>1. writes' \in [1 .. n -> Range(writes')]
    BY <1>1, <1>2 DEF Range
  <2>2. writes' \in Seq(Range(writes')) /\ DOMAIN writes' = 1 .. n
    BY <2>1, SeqOfNumbered
  <2> QED
    BY <1>1, <1>2, <2>2
<1>4. p \in Range(s)
  BY <1>1, IdleList DEF ToSet, Range
<1>5. Updates(s)'
  <2>1. \A k \in 1 .. 3 : writes'[k].op = Updating[k] /\ writes'[k].at = p
    BY <1>3, OpFields
  <2>2. \A k \in 1 .. 3 : k < 3 => writes'[k + 1] = Op(Updating[k + 1], p)
    BY <1>3
  <2>3. ASSUME NEW k \in 1 .. 3
        PROVE  /\ writes'[k].at \in Range(s)
               /\ \E j \in 1 .. 3 :
                     /\ writes'[k].op = Updating[j]
                     /\ k < 3 => j < 3 /\ writes'[k + 1] = Op(Updating[j + 1], writes'[k].at)
                     /\ k = 3 => j = 3
    BY <1>4, <2>1, <2>2
  <2>4. kind' = "node" /\ Len(writes') = 3 /\ DOMAIN writes' = 1 .. 3
    BY <1>1, <1>3
  <2> QED
    BY <2>3, <2>4 DEF Updates
<1>6. Ahead("free_text", p)'
  <2>1. writes' # <<>> /\ Head(writes') = writes'[1]
    <3> HIDE DEF n
    <3> QED
      BY <1>2, <1>3, SeqStart
  <2> QED
    BY <1>3, <2>1, OtherOps, OpFields DEF Ahead
<1>7. Keeps(s, m)'
  BY <1>1, IdleList DEF ListKept, Keeps
<1>8. Plan(s)'
  BY <1>3, <1>5 DEF Plan
<1>9. Fresh(s)'
  <2>1. made' = <<>>
    BY <1>1 DEF ListKept, Fresh
  <2>2. /\ \A other : Running(other)' <=> other = "free_text"
        /\ Target' = p /\ writes' # <<>>
    BY <1>6 DEF Ahead, Running, Target
  <2>3. Replacing'
    BY <1>1, <2>2 DEF Replacing, Replaced, HoldsText
  <2>4. Inserted(s)'
    BY <2>2 DEF Inserted
  <2>5. Exchanged(s)'
    BY <2>1, <2>2, <2>3 DEF Exchanged
  <2>6. ~Deletion'
    <3>1. \A k \in 1 .. 3 : writes'[k].op # "header"
      BY <1>3, OpFields, OtherOps
    <3>2. Len(writes') = 3
      BY <1>3
    <3> QED
      BY <3>1, <3>2 DEF Deletion
  <2>7. Released(s)'
    BY <2>2, <2>6 DEF Released
  <2> QED
    BY <2>2, <2>4, <2>5, <2>7 DEF Fresh
<1> QED
  BY <1>1, <1>6, <1>7, <1>8, <1>9, PlanningStep

\* The plan of a deletion, three writes for each of its blocks and the header.
LEMMA ThreeEach ==
    ASSUME NEW c \in Nat, NEW k \in 1 .. 3 * c
    PROVE  /\ ((k-1) % 3) + 1 \in 1 .. 3 /\ ((k-1) \div 3) + 1 \in 1 .. c
           /\ k = 3 * ((k-1) \div 3) + ((k-1) % 3) + 1
           /\ ((k-1) % 3) + 1 < 3 => /\ k + 1 <= 3 * c
                                     /\ (((k+1)-1) % 3) + 1 = ((k-1) % 3) + 2
                                     /\ (((k+1)-1) \div 3) + 1 = ((k-1) \div 3) + 1
           /\ ((k-1) % 3) + 1 = 3 /\ k + 1 <= 3 * c => (((k+1)-1) % 3) + 1 = 1
OBVIOUS

LEMMA PlanOfDelete ==
    ASSUME NEW gone, BeginDelete(gone), NEW v \in Seq(Ptr), v = Fetched(Listed, gone), Len(v) > 0
    PROVE  /\ writes' \in Seq(Range(writes'))
           /\ Len(writes') = 3 * Len(v) + 1 /\ DOMAIN writes' = 1 .. 3 * Len(v) + 1
           /\ \A k \in 1 .. 3 * Len(v) :
                 writes'[k] = Op(Deleting[kind][((k-1) % 3) + 1], v[((k-1) \div 3) + 1])
           /\ writes'[3 * Len(v) + 1] = Op("header", v[1])
<1> DEFINE h == [k \in 1 .. 3 * Len(v) |-> Op(Deleting[kind][((k-1) % 3) + 1], v[((k-1) \div 3) + 1])]
           x == Op("header", v[1])
           n == 3 * Len(v)
           R == Range(h) \union {x}
<1>1. writes' = h \o <<x>>
  BY DEF BeginDelete
<1>2. n \in Nat /\ DOMAIN h = 1 .. n
  OBVIOUS
<1>3. \A k \in 1 .. n : h[k] = Op(Deleting[kind][((k-1) % 3) + 1], v[((k-1) \div 3) + 1])
  OBVIOUS
<1>4. h \in [1 .. n -> R]
  BY <1>2 DEF Range
<1> HIDE DEF h, x, n
<1>5. h \in Seq(R) /\ Len(h) = n
  <2> HIDE DEF R
  <2>1. h \in Seq(R)
    BY <1>2, <1>4
  <2> QED
    BY <1>2, <2>1
<1>6. <<x>> \in Seq(R) /\ Len(<<x>>) = 1 /\ <<x>>[1] = x
  OBVIOUS
<1> HIDE DEF R
<1>7. /\ writes' \in Seq(R) /\ Len(writes') = n + 1 /\ DOMAIN writes' = 1 .. n + 1
      /\ \A k \in 1 .. n : writes'[k] = h[k]
      /\ writes'[n + 1] = x
  BY <1>1, <1>2, <1>5, <1>6
<1>8. writes' \in Seq(Range(writes'))
  BY <1>7, SeqOfItsElements
<1> QED
  BY <1>3, <1>7, <1>8 DEF n, x

LEMMA DeletesPlanned ==
    ASSUME NEW s, NEW gone, BeginDelete(gone), NEW v \in Seq(Ptr), v = Fetched(Listed, gone), Len(v) > 0,
           kind \in EntityKinds, kind' = kind,
           \A i, j \in DOMAIN v : v[i] = v[j] => i = j,
           \A i \in DOMAIN v : v[i] \in Range(s) /\ v[i] \notin Range(done')
    PROVE  /\ Deletes(s)' /\ writes' \in Seq(Range(writes'))
           /\ Ahead(Deleting[kind][1], v[1])'
<1> DEFINE c == Len(v)
           n == 3 * c
           place(k) == ((k-1) % 3) + 1
           item(k) == ((k-1) \div 3) + 1
<1>1. /\ writes' \in Seq(Range(writes')) /\ Len(writes') = n + 1 /\ DOMAIN writes' = 1 .. n + 1
      /\ \A k \in 1 .. n : writes'[k] = Op(Deleting[kind][place(k)], v[item(k)])
      /\ writes'[n + 1] = Op("header", v[1])
  BY PlanOfDelete
<1>2. c \in Nat /\ c > 0 /\ DOMAIN v = 1 .. c /\ n \in Nat /\ n > 0
  OBVIOUS
<1>3. \A k \in 1 .. n :
         /\ place(k) \in 1 .. 3 /\ item(k) \in 1 .. c
         /\ k = 3 * (item(k) - 1) + place(k)
         /\ place(k) < 3 => k + 1 \in 1 .. n /\ place(k + 1) = place(k) + 1 /\ item(k + 1) = item(k)
         /\ place(k) = 3 => k + 1 = n + 1 \/ (k + 1 \in 1 .. n /\ place(k + 1) = 1)
  BY <1>2
<1>4. place(1) = 1 /\ item(1) = 1
  OBVIOUS
<1> HIDE DEF place, item, n, c
<1>5. \A j \in 1 .. 3 : Deleting[kind][j] \in DeleteOps /\ Deleting[kind][j] # "header"
  BY DeletingOps DEF EntityKinds, DeleteOps
<1>6. \A i, j \in 1 .. 3 : Deleting[kind][i] = Deleting[kind][j] => i = j
  BY DeletingOps DEF EntityKinds
<1>7. /\ \A k \in 1 .. n : writes'[k].op = Deleting[kind][place(k)] /\ writes'[k].at = v[item(k)]
      /\ writes'[n + 1].op = "header" /\ writes'[n + 1].at = v[1]
  BY <1>1, OpFields
<1>8. \A i \in 1 .. c : v[i] \in Ptr /\ v[i] \in Range(s) /\ v[i] \notin Range(done')
  BY <1>2
<1>9. \A k \in 1 .. n + 1 : k \in 1 .. n \/ k = n + 1
  BY <1>2
<1>10. ASSUME NEW k \in 1 .. n + 1
       PROVE  /\ writes'[k].at \in Ptr /\ (writes'[k].op = "header" <=> k = n + 1)
  <2>1. CASE k \in 1 .. n
    <3>1. place(k) \in 1 .. 3 /\ v[item(k)] \in Ptr /\ k # n + 1
      BY <1>2, <1>3, <1>8, <2>1
    <3> QED
      BY <1>5, <1>7, <2>1, <3>1
  <2>2. CASE k = n + 1
    <3>1. v[1] \in Ptr
      BY <1>2, <1>8
    <3> QED
      BY <1>7, <2>2, <3>1
  <2> QED
    BY <1>9, <2>1, <2>2
<1>11. ASSUME NEW k \in 1 .. n
       PROVE  /\ writes'[k].at \notin Range(done')
              /\ writes'[k].at \in Range(s)
              /\ \E j \in 1 .. 3 :
                    /\ writes'[k].op = Deleting[kind][j]
                    /\ j < 3 => writes'[k + 1] = Op(Deleting[kind][j + 1], writes'[k].at)
                    /\ j = 3 => writes'[k + 1].op \in {Deleting[kind][1], "header"}
  <2>1. writes'[k].at \notin Range(done') /\ writes'[k].at \in Range(s)
    BY <1>3, <1>7, <1>8
  <2>2. place(k) < 3 => writes'[k + 1] = Op(Deleting[kind][place(k) + 1], writes'[k].at)
    BY <1>1, <1>3, <1>7
  <2>3. place(k) = 3 => writes'[k + 1].op \in {Deleting[kind][1], "header"}
    <3>1. k + 1 = n + 1 => writes'[k + 1].op = "header"
      BY <1>7
    <3>2. k + 1 \in 1 .. n /\ place(k + 1) = 1 => writes'[k + 1].op = Deleting[kind][1]
      BY <1>7
    <3> QED
      BY <1>3, <3>1, <3>2
  <2> QED
    BY <1>3, <1>7, <2>1, <2>2, <2>3
<1>12. ASSUME NEW k \in 1 .. n + 1, NEW l \in 1 .. n + 1,
              writes'[k].op = writes'[l].op, writes'[k].at = writes'[l].at
       PROVE  k = l
  <2>1. CASE k = n + 1 \/ l = n + 1
    BY <1>10, <1>12, <2>1
  <2>2. CASE k \in 1 .. n /\ l \in 1 .. n
    <3>1. place(k) = place(l) /\ v[item(k)] = v[item(l)]
      <4>1. place(k) \in 1 .. 3 /\ place(l) \in 1 .. 3
        BY <1>3, <2>2
      <4>2. Deleting[kind][place(k)] = Deleting[kind][place(l)] /\ v[item(k)] = v[item(l)]
        BY <1>7, <1>12, <2>2
      <4> QED
        BY <1>6, <4>1, <4>2
    <3>2. item(k) = item(l)
      BY <1>2, <1>3, <2>2, <3>1
    <3>3. k = 3 * (item(k) - 1) + place(k) /\ l = 3 * (item(l) - 1) + place(l)
      BY <1>3, <2>2
    <3> QED
      BY <3>1, <3>2, <3>3
  <2> QED
    BY <1>9, <2>1, <2>2
<1>13. \A k \in DOMAIN writes' : k < Len(writes') <=> k \in 1 .. n
  BY <1>1, <1>2
<1>14. Deletes(s)'
  <2>1. \A k \in DOMAIN writes' : writes'[k].at \in Ptr /\ (writes'[k].op = "header" <=> k = Len(writes'))
    BY <1>1, <1>10
  <2>2. \A k \in DOMAIN writes' : k < Len(writes') =>
          /\ writes'[k].at \notin Range(done')
          /\ \E j \in 1 .. 3 :
                /\ writes'[k].op = Deleting[kind'][j]
                /\ j < 3 => writes'[k + 1] = Op(Deleting[kind'][j + 1], writes'[k].at)
                /\ j = 3 => writes'[k + 1].op \in {Deleting[kind'][1], "header"}
    BY <1>11, <1>13
  <2>3. \A k \in DOMAIN writes' : Removal(k)' => writes'[k].at \in Range(s)
    BY <1>11, <1>13 DEF Removal
  <2>4. \A k, l \in DOMAIN writes' : writes'[k].op = writes'[l].op /\ writes'[k].at = writes'[l].at => k = l
    BY <1>1, <1>12
  <2> QED
    BY <2>1, <2>2, <2>3, <2>4 DEF Deletes
<1>15. Ahead(Deleting[kind][1], v[1])'
  <2>1. writes' # <<>> /\ Head(writes') = writes'[1]
    BY <1>1, <1>2, SeqStart
  <2>2. 1 \in 1 .. n
    BY <1>2
  <2> QED
    BY <1>4, <1>7, <2>1, <2>2 DEF Ahead
<1> QED
  BY <1>1, <1>14, <1>15

LEMMA BeginDeleteKept ==
    ASSUME NEW s, NEW m, ListKept(s, m), NEW gone \in SUBSET ToSet(Listed),
           Cardinality(gone) \in 1 .. MaxGone, BeginDelete(gone)
    PROVE  ListKept(s, m)'
<1> DEFINE n == Len(s)
           others == Ptr \ gone
<1>0. PICK v : v = Fetched(Listed, gone)
  OBVIOUS
<1>1. /\ writes = <<>> /\ done' = Fetched(done, others)
      /\ UNCHANGED <<kind, file, disk, mem, running, cuts>>
  BY DEF BeginDelete
<1>2. /\ Listed = s /\ s \in Seq(Ptr) /\ DOMAIN s = 1 .. n /\ n \in Nat
      /\ kind \in EntityKinds /\ \A i, j \in DOMAIN s : s[i] = s[j] => i = j
  BY <1>1, IdleList, KeptFacts
<1>3. \A p \in gone : p \in Range(s) /\ \E i \in 1 .. n : s[i] = p
  BY <1>2 DEF ToSet, Range
<1>4. gone # {}
  BY FS_EmptySet
<1>5. done \in Seq(Ptr) /\ Keeps(s, m)
  BY <1>1, IdleList DEF ListKept, Keeps
<1> HIDE DEF n
<1>6. v \in Seq(Ptr) /\ \E e : Places(e, v, s, n, gone)
  <2>1. s \in Seq(Ptr)
    BY <1>2
  <2>2. Fetched(s, gone) \in Seq(Ptr) /\ \E e : Places(e, Fetched(s, gone), s, Len(s), gone)
    BY ONLY <2>1, FetchedPlaces
  <2> QED
    BY <1>0, <1>2, <2>2 DEF n
<1>7. done' \in Seq(Ptr) /\ \E e : Places(e, done', done, Len(done), others)
  <2>1. done \in Seq(Ptr)
    BY <1>5
  <2>2. Fetched(done, others) \in Seq(Ptr) /\ \E e : Places(e, Fetched(done, others), done, Len(done), others)
    BY ONLY <2>1, FetchedPlaces
  <2> QED
    BY <1>1, <2>2
<1>8. \A i, j \in DOMAIN v : v[i] = v[j] => i = j
  <2>1. s \in Seq(Ptr) /\ \A i, j \in DOMAIN s : s[i] = s[j] => i = j
    BY <1>2
  <2>2. \A i, j \in DOMAIN Fetched(s, gone) : Fetched(s, gone)[i] = Fetched(s, gone)[j] => i = j
    BY ONLY <2>1, FetchedFacts
  <2> QED
    BY <1>0, <1>2, <2>2
<1> HIDE DEF others
<1>9. /\ Len(v) \in Nat /\ DOMAIN v = 1 .. Len(v) /\ Len(done) \in Nat /\ DOMAIN done = 1 .. Len(done)
      /\ DOMAIN done' = 1 .. Len(done')
  BY <1>5, <1>6, <1>7
<1>10. PICK e : Places(e, v, s, n, gone)
  BY <1>6
<1>11. \A k \in DOMAIN v : v[k] \in gone
  BY <1>10 DEF Places
<1>12. Len(v) > 0
  <2>1. PICK i \in 1 .. n : s[i] \in gone
    BY <1>3, <1>4
  <2>2. PICK k \in DOMAIN v : e[k] = i
    BY <1>10, <2>1 DEF Places
  <2> QED
    BY <1>9, <2>2
<1>13. PICK f : Places(f, done', done, Len(done), others)
  BY <1>7
<1>14. /\ \A k \in DOMAIN done' : f[k] \in DOMAIN done /\ done'[k] = done[f[k]] /\ done'[k] \in others
       /\ \A k, l \in DOMAIN done' : k < l => f[k] < f[l]
  BY <1>9, <1>13 DEF Places
<1>15. Keeps(s, m)'
  <2>1. \A k \in DOMAIN done' : \E i \in 1 .. m : done'[k] = s[i]
    BY <1>5, <1>14 DEF Keeps
  <2>2. ASSUME NEW k \in DOMAIN done', NEW l \in DOMAIN done', NEW i \in DOMAIN s, NEW j \in DOMAIN s,
               done'[k] = s[i], done'[l] = s[j], k < l
        PROVE  i < j
    <3>1. f[k] \in DOMAIN done /\ f[l] \in DOMAIN done /\ f[k] < f[l] /\ done[f[k]] = s[i] /\ done[f[l]] = s[j]
      BY <1>14, <2>2
    <3> QED
      BY <1>5, <3>1 DEF Keeps
  <2> QED
    BY <1>7, <2>1, <2>2 DEF Keeps
<1>16. \A i \in DOMAIN v : v[i] \in Range(s) /\ v[i] \notin Range(done')
  BY <1>3, <1>11, <1>14 DEF Range, others
<1>17. /\ Deletes(s)' /\ writes' \in Seq(Range(writes'))
       /\ Ahead(Deleting[kind][1], v[1])'
  <2>1. v = Fetched(Listed, gone) /\ kind \in EntityKinds /\ kind' = kind /\ v \in Seq(Ptr)
    BY <1>0, <1>1, <1>2, <1>6
  <2> QED
    BY <1>8, <1>12, <1>16, <2>1, DeletesPlanned
<1>18. Plan(s)'
  BY <1>17 DEF Plan
<1>19. \/ Deleting[kind][1] = "free" /\ kind = "node"
       \/ Deleting[kind][1] = "close_next" /\ kind = "link"
  BY <1>2, DeletingOps DEF EntityKinds
<1>20. PICK op : op = Deleting[kind][1]
  OBVIOUS
<1>21. Ahead(op, v[1])'
  BY <1>1, <1>17, <1>20 DEF Ahead
<1>22. made' = <<>> /\ nth' = 1 /\ made' = made
  BY <1>1 DEF ListKept, Fresh, running
<1>23. Fresh(s)'
  <2>1. /\ \A other : Running(other)' <=> other = op
        /\ Target' = v[1] /\ writes' # <<>>
    BY <1>21 DEF Ahead, Running, Target
  <2>2. v[1] \in Range(s)
    BY <1>9, <1>12, <1>16
  <2>3. PICK t : t = v[1]
    OBVIOUS
  <2>4. file[t].parts \in Seq(Ptr) /\ WholeParts(file[t].parts)
    BY <2>2, <2>3, KeptFacts DEF Range
  <2>5. BlocksToFree(t)' = BlocksToFree(t) /\ Len(BlocksToFree(t)) \in Nat /\ Len(BlocksToFree(t)) > 0
    BY <1>1, <1>2, <2>4, ToFreeSame, ToFreeFacts
  <2>6. op \in {"free", "close_next"} /\ (op = "free" => kind' = "node")
    BY <1>1, <1>19, <1>20
  <2>7. Inserted(s)' /\ Exchanged(s)'
    BY <2>1, <2>6 DEF Inserted, Exchanged
  <2>8. Released(s)'
    <3>1. nth' \in 1 .. Len(BlocksToFree(t)')
      BY <1>22, <2>5
    <3> QED
      BY <1>22, <2>1, <2>3, <2>6, <3>1 DEF Released
  <2> QED
    BY <2>1, <2>7, <2>8 DEF Fresh
<1> QED
  BY <1>1, <1>15, <1>18, <1>19, <1>20, <1>21, <1>22, <1>23, PlanningStep DEF running

-----------------------------------------------------------------------------
(* The writes of an insertion *)

\* Which query is running.
Insertion == Inserts /\ Target = Null /\ ~Deletion
Change(s) == Updates(s) /\ kind = "node" /\ Target \in Range(s) /\ Target # Null /\ ~Deletion
Removing(s) ==
    /\ Deletes(s) /\ Target \in Ptr /\ Target # Null /\ Deletion
    /\ Head(writes).op # "header" => Target \notin Range(done)
    /\ Head(writes).op # "header" /\ (kind = "node" \/ Head(writes).op \in {"close_next", "close_prev"})
          => Target \in Range(s)

LEMMA PlanNow ==
    ASSUME NEW s, NEW m, ListKept(s, m), writes # <<>>
    PROVE  /\ Ahead(Head(writes).op, Target)
           /\ \/ Insertion /\ Head(writes).op \in {"parts", "entity", "chain", "header"}
              \/ Change(s) /\ Head(writes).op \in {"free_text", "parts", "set_text"}
              \/ Removing(s) /\ Head(writes).op \in DeleteOps \union {"header"}
<1>1. /\ writes \in Seq(Range(writes)) /\ kind \in EntityKinds /\ Null \notin Range(s)
      /\ Inserts \/ Updates(s) \/ Deletes(s)
  BY KeptFacts DEF ListKept, Plan
<1>2. Inserts => Insertion /\ Head(writes).op \in {"parts", "entity", "chain", "header"}
  BY <1>1, InsertNow DEF Insertion
<1>3. Updates(s) => Change(s) /\ Head(writes).op \in {"free_text", "parts", "set_text"}
  BY <1>1, UpdateNow DEF Change
<1>4. Deletes(s) => Removing(s) /\ Head(writes).op \in DeleteOps \union {"header"}
  BY <1>1, DeleteNow DEF Removing
<1> QED
  BY <1>1, <1>2, <1>3, <1>4 DEF Ahead, Target

\* After a write of another query, none deletes.
LEMMA AfterInsert ==
    ASSUME writes' \in Seq(Range(writes')), writes' # <<>>, Inserts'
    PROVE  ~Deletion'
<1>1. Len(writes') \in Nat /\ Len(writes') > 0 /\ DOMAIN writes' = 1 .. Len(writes')
  BY TailFacts, EmptySeq
<1>2. \A k \in DOMAIN writes' : writes'[k].at = Null
  BY OpFields DEF Inserts
<1>3. writes'[Len(writes')].at = Null
  BY <1>1, <1>2
<1> QED
  BY <1>3 DEF Deletion

LEMMA AfterUpdate ==
    ASSUME writes' \in Seq(Range(writes')), writes' # <<>>, NEW s, Updates(s)'
    PROVE  ~Deletion'
<1>1. Len(writes') \in Nat /\ Len(writes') > 0 /\ DOMAIN writes' = 1 .. Len(writes')
  BY TailFacts, EmptySeq
<1>2. \A k \in DOMAIN writes' : writes'[k].op # "header"
  BY OtherOps DEF Updates
<1>3. writes'[Len(writes')].op # "header"
  BY <1>1, <1>2
<1> QED
  BY <1>3 DEF Deletion

\* Blocks that are not in use are not those of the list.
LEMMA NewBlock ==
    ASSUME NEW s, NEW m, ListKept(s, m), NEW p, ~InUse(p)
    PROVE  p \in HeldBy(s) => p \in GivenBack
BY DEF ListKept, UsedBy

\* One part more is in the file.
LEMMA PartWritten ==
    ASSUME InFile, Making, Len(made) < Len(layout), NEW p \in Ptr, ~InUse(p),
           file' = Written(p, Block(layout[Len(made) + 1], Null, <<>>)),
           made' = Append(made, p), layout' = layout
    PROVE  /\ \A q : q \in DOMAIN file' <=> q \in DOMAIN file \/ q = p
           /\ file'[p].holds = layout[Len(made) + 1]
           /\ \A r \in DOMAIN file : r # p => file'[r] = file[r]
           /\ InUse(p)' /\ \A q : q # p => (InUse(q)' <=> InUse(q))
           /\ InFile' /\ Making'
           /\ Len(made) \in Nat /\ Len(made') = Len(made) + 1
           /\ \A k \in DOMAIN made' : made'[k] = p \/ (k \in DOMAIN made /\ made'[k] = made[k])
           /\ Range(made') = Range(made) \union {p}
<1> DEFINE n == Len(made)
           h == layout[n + 1]
<1>1. /\ n \in Nat /\ DOMAIN made = 1 .. n /\ layout \in Seq(PartKinds) /\ made \in Seq(Ptr)
      /\ n + 1 \in DOMAIN layout /\ h \in PartKinds
  BY DEF Making
<1>2. /\ made' \in Seq(Ptr) /\ Len(made') = n + 1 /\ DOMAIN made' = 1 .. n + 1
      /\ (\A k \in 1 .. n : made'[k] = made[k]) /\ made'[n + 1] = p
  BY <1>1, AppendProperties
<1> HIDE DEF n, h
<1>3. /\ \A q : q \in DOMAIN file' <=> q \in DOMAIN file \/ q = p
      /\ DOMAIN file' \subseteq Ptr /\ IsFiniteSet(DOMAIN file')
      /\ file'[p] \in Blocks /\ ~file'[p].free
      /\ file'[p].holds = h
      /\ \A r \in DOMAIN file : r # p => file'[r] = file[r]
  <2>1. Block(h, Null, <<>>) \in Blocks /\ ~Block(h, Null, <<>>).free
        /\ Block(h, Null, <<>>).holds = h
    <3>1. <<>> \in Seq(Ptr) /\ h \in EntityKinds \union PartKinds /\ Null \in Ptr \union {Null}
      BY <1>1
    <3> QED
      BY <3>1, BlockFields
  <2>2. PICK b : b = Block(h, Null, <<>>)
    OBVIOUS
  <2>3. file' = Written(p, b)
    BY <2>2 DEF h, n
  <2> QED
    BY <2>1, <2>2, <2>3, BlockWritten
<1>4. InFile'
  BY <1>3 DEF InFile
<1>5. InUse(p)' /\ \A q : q # p => (InUse(q)' <=> InUse(q))
  BY <1>3 DEF InUse
<1>6. \A k \in 1 .. n : made[k] # p /\ InUse(made[k]) /\ file[made[k]].holds = layout[k] /\ made[k] \in DOMAIN file
  BY <1>1 DEF Making, InUse
<1>7. \A k \in 1 .. n + 1 : k \in 1 .. n \/ k = n + 1
  BY <1>1
<1>8. Making'
  <2>1. \A k \in 1 .. n + 1 : InUse(made[k])' /\ file'[made'[k]].holds = layout[k]
    BY <1>2, <1>3, <1>6, <1>7 DEF h, InUse
  <2>2. \A k, l \in 1 .. n + 1 : made'[k] = made'[l] => k = l
    BY <1>1, <1>2, <1>6, <1>7 DEF Making
  <2>3. Len(made') <= Len(layout')
    BY <1>1, <1>2 DEF n
  <2> QED
    BY <1>1, <1>2, <2>1, <2>2, <2>3 DEF Making
<1>9. \A k \in DOMAIN made' : made'[k] = p \/ (k \in DOMAIN made /\ made'[k] = made[k])
  BY <1>1, <1>2, <1>7
<1>10. Range(made') = Range(made) \union {p}
  <2>1. \A k \in 1 .. n : k \in 1 .. n + 1
    BY <1>1
  <2>2. n + 1 \in 1 .. n + 1
    BY <1>1
  <2> QED
    BY <1>1, <1>2, <1>9, <2>1, <2>2 DEF Range
<1> QED
  BY <1>1, <1>2, <1>3, <1>4, <1>5, <1>8, <1>9, <1>10 DEF n, h

LEMMA PartForInsert ==
    ASSUME NEW s, NEW m, ListKept(s, m), NEW p \in Ptr, WritePart(p), Insertion
    PROVE  ListKept(s, m)'
<1>1. /\ writes # <<>> /\ Ahead("parts", Null) /\ ~InUse(p)
      /\ file' = Written(p, Block(layout[Len(made) + 1], Null, <<>>)) /\ made' = Append(made, p)
      /\ writes' = IF Len(made) + 1 = Len(layout) THEN Tail(writes) ELSE writes
      /\ UNCHANGED <<kind, disk, mem, layout, nth, done, cuts>>
  BY DEF WritePart, Insertion, Running, Target, Ahead
<1>2. /\ Target = Null /\ ~Created /\ GivenBack = {} /\ InHand = Range(made) /\ ~Running("close_prev") /\ ~Deletion
      /\ Running("parts") /\ ~Running("entity")
  BY <1>1, AheadFacts DEF Created, GivenBack, InHand, Insertion
<1>3. p \notin HeldBy(s)
  BY <1>1, <1>2, NewBlock
<1>4. /\ InFile /\ Inserts /\ writes \in Seq(Range(writes)) /\ Running("parts")
      /\ DOMAIN s = 1 .. Len(s) /\ Len(s) \in Nat /\ m \in Nat
      /\ \A i \in DOMAIN s : s[i] \in HeldBy(s) /\ \A q \in PartsAt(s[i]) : q \in HeldBy(s)
      /\ HeldBy(s) \subseteq DOMAIN file /\ MostBlocks[kind] \in Nat
  BY <1>1, AheadFacts, KeptFacts DEF ListKept, Insertion
<1>5. /\ Making /\ Len(made) < Len(layout) /\ layout \in Layouts[kind]
      /\ \A k \in DOMAIN made : made[k] \notin HeldBy(s)
  BY <1>2 DEF ListKept, Fresh, Inserted
<1>6. /\ \A q : q \in DOMAIN file' <=> q \in DOMAIN file \/ q = p
      /\ \A r \in DOMAIN file : r # p => file'[r] = file[r]
      /\ InUse(p)' /\ \A q : q # p => (InUse(q)' <=> InUse(q))
      /\ InFile' /\ Making' /\ Len(made) \in Nat /\ Len(made') = Len(made) + 1
      /\ \A k \in DOMAIN made' : made'[k] = p \/ (k \in DOMAIN made /\ made'[k] = made[k])
      /\ Range(made') = Range(made) \union {p}
  BY <1>1, <1>4, <1>5, PartWritten
<1>7. PICK op \in {"parts", "entity"} :
         /\ Inserts' /\ writes' \in Seq(Range(writes')) /\ Ahead(op, Null)'
         /\ op = "parts" => Len(made') < Len(layout')
         /\ op = "entity" => Len(made') = Len(layout')
  <2>1. CASE Len(made) + 1 = Len(layout)
    <3>1. Inserts' /\ writes' \in Seq(Range(writes')) /\ Ahead("entity", Null)'
      BY <1>1, <1>4, <2>1, InsertStep
    <3> QED
      BY <1>1, <1>6, <2>1, <3>1
  <2>2. CASE Len(made) + 1 # Len(layout)
    <3>1. writes' = writes
      BY <1>1, <2>2
    <3>2. Inserts' /\ Ahead("parts", Null)'
      BY <1>1, <1>4, <3>1 DEF Inserts, Ahead
    <3>3. Len(made') < Len(layout')
      <4>1. Len(layout) \in Nat
        BY <1>5 DEF Making
      <4> QED
        BY <1>1, <1>5, <1>6, <2>2, <4>1
    <3> QED
      BY <1>4, <3>1, <3>2, <3>3
  <2> QED
    BY <2>1, <2>2
<1>8. /\ \A other : Running(other)' <=> other = op
      /\ Target' = Null /\ writes' # <<>>
  BY <1>7 DEF Ahead, Running, Target
<1>9. ~Created' /\ GivenBack' = {} /\ InHand' = Range(made) \union {p}
  BY <1>1, <1>6, <1>8 DEF Created, GivenBack, InHand
<1>10. InMemory'
  BY <1>1 DEF ListKept, InMemory
<1>11. Forwards(s)' /\ HeldBy(s)' = HeldBy(s)
  <2>1. Forwards(s)
    BY DEF ListKept
  <2>2. ASSUME NEW i \in DOMAIN s
        PROVE  /\ s[i] \in DOMAIN file' /\ file'[s[i]] = file[s[i]]
               /\ \A q \in PartsAt(s[i]) : q \in DOMAIN file' /\ file'[q] = file[q]
    BY <1>3, <1>4, <1>6
  <2> QED
    BY <1>1, <2>1, <2>2, SameForwards
<1>12. Backwards(s)' /\ MemoryEnds(s, m)'
  <2>1. \A i \in DOMAIN s : file'[s[i]].prev = file[s[i]].prev
    BY <1>3, <1>4, <1>6
  <2>2. Backwards(s) /\ MemoryEnds(s, m)
    BY DEF ListKept
  <2> QED
    BY <1>1, <1>2, <1>8, <2>1, <2>2, SameBackwards
<1>13. FileEnds(s, m)'
  BY <1>1, <1>2, <1>9 DEF ListKept, FileEnds
<1>14. UsedBy(s)'
  BY <1>2, <1>3, <1>6, <1>9, <1>11 DEF ListKept, UsedBy
<1>15. Fresh(s)'
  <2>1. layout' \in Layouts[kind]'
    BY <1>1, <1>5 DEF Layouts
  <2>2. \A k \in DOMAIN made' : made'[k] \notin HeldBy(s)'
    BY <1>3, <1>5, <1>6, <1>11
  <2>3. Inserted(s)'
    BY <1>6, <1>7, <1>8, <2>1, <2>2 DEF Inserted
  <2>4. Exchanged(s)'
    BY <1>8 DEF Exchanged
  <2>5. ~Deletion'
    BY <1>7, <1>8, AfterInsert
  <2>6. Released(s)'
    BY <1>8, <2>5 DEF Released
  <2> QED
    BY <1>8, <2>3, <2>4, <2>6 DEF Fresh
<1>16. Plan(s)'
  BY <1>7 DEF Plan
<1>17. Keeps(s, Known(m))'
  BY <1>1, <1>2, <1>9 DEF ListKept, Keeps, Known
<1>18. Leaks(s, m)'
  <2>1. Lost(s)' \subseteq Lost(s)
    BY <1>2, <1>6, <1>9, <1>11 DEF Lost, Used
  <2> QED
    BY <1>1, <1>4, <1>6, <2>1, LostShrinks DEF ListKept, InMemory
<1> QED
  BY <1>6, <1>10, <1>11, <1>12, <1>13, <1>14, <1>15, <1>16, <1>17, <1>18 DEF ListKept

LEMMA PartForUpdate ==
    ASSUME NEW s, NEW m, ListKept(s, m), NEW p \in Ptr, WritePart(p), Change(s)
    PROVE  ListKept(s, m)'
<1> DEFINE t == Target
           old == file[Target].parts[nth]
<1>1. /\ writes # <<>> /\ Ahead("parts", t) /\ ~InUse(p)
      /\ file' = Written(p, Block(layout[Len(made) + 1], Null, <<>>)) /\ made' = Append(made, p)
      /\ writes' = IF Len(made) + 1 = Len(layout) THEN Tail(writes) ELSE writes
      /\ kind = "node" /\ t \in Range(s) /\ t # Null
      /\ UNCHANGED <<kind, disk, mem, layout, nth, done, cuts>>
  BY DEF WritePart, Change, Running, Target, Ahead
<1>2. /\ \A other : Running(other) <=> other = "parts"
      /\ ~Created /\ InHand = Range(made) /\ ~Deletion /\ GivenBack = {old}
  BY <1>1, AheadFacts DEF Created, GivenBack, InHand, Change, Replaced
<1>3. /\ InFile /\ Updates(s) /\ writes \in Seq(Range(writes)) /\ Running("parts")
      /\ DOMAIN s = 1 .. Len(s) /\ Len(s) \in Nat /\ m \in Nat
      /\ \A i \in DOMAIN s : s[i] \in HeldBy(s) /\ s[i] \in Range(s)
                             /\ \A q \in PartsAt(s[i]) : q \in HeldBy(s) /\ q \in PartsOf(s)
      /\ HeldBy(s) \subseteq DOMAIN file
      /\ \A r \in PartsOf(s) : r \notin Range(s)
      /\ MostBlocks[kind] \in Nat
  BY <1>1, AheadFacts, KeptFacts DEF ListKept, Change
<1>4. PICK a \in DOMAIN s : t = s[a]
  BY <1>1 DEF Range
<1>5. /\ Making /\ made = <<>> /\ layout = <<"text">> /\ Len(made) < Len(layout)
      /\ nth \in DOMAIN file[t].parts /\ file[old].holds = "text"
  BY <1>1, <1>2 DEF ListKept, Fresh, Inserted, Exchanged, Replacing, Replaced
<1>6. old \in PartsAt(t) /\ old \in HeldBy(s) /\ old \notin Range(s) /\ old \in DOMAIN file
  BY <1>3, <1>4, <1>5 DEF PartsAt, Range
<1>7. (p \in HeldBy(s) => p = old) /\ p \notin Range(s)
  <2>1. p \in HeldBy(s) => p = old
    BY <1>1, <1>2, NewBlock
  <2> QED
    BY <1>6, <2>1 DEF HeldBy
<1>8. /\ \A q : q \in DOMAIN file' <=> q \in DOMAIN file \/ q = p
      /\ file'[p].holds = layout[Len(made) + 1]
      /\ \A r \in DOMAIN file : r # p => file'[r] = file[r]
      /\ InUse(p)' /\ \A q : q # p => (InUse(q)' <=> InUse(q))
      /\ InFile' /\ Making' /\ Len(made') = Len(made) + 1
      /\ Range(made') = Range(made) \union {p}
  BY <1>1, <1>3, <1>5, PartWritten
<1>9. Len(made) = 0 /\ Len(layout) = 1 /\ layout[1] = "text" /\ Range(made) = {} /\ made' = <<p>>
  BY <1>1, <1>5 DEF Range
<1>10. file'[p].holds = "text" /\ Len(made') = 1 /\ made'[1] = p /\ Range(made') = {p}
  BY <1>8, <1>9
<1>11. /\ Updates(s)' /\ writes' \in Seq(Range(writes'))
       /\ Ahead("set_text", Target)' /\ Target' = t
  <2>1. writes' = Tail(writes)
    BY <1>1, <1>9
  <2>2. writes' # <<>> => Target' = t
    BY <1>1, <1>3, <2>1, UpdateStep
  <2> QED
    BY <1>1, <1>3, <2>1, <2>2, UpdateStep DEF Ahead
<1>12. /\ \A other : Running(other)' <=> other = "set_text"
       /\ Target' = t /\ writes' # <<>>
  BY <1>11 DEF Ahead, Running
<1> HIDE DEF t, old
<1>13. InMemory'
  BY <1>1 DEF ListKept, InMemory
<1>14. \A i \in DOMAIN s : s[i] # p /\ file'[s[i]] = file[s[i]]
  BY <1>3, <1>7, <1>8
<1>15. \A q \in HeldBy(s) : q \in DOMAIN file' /\ file'[q].holds = file[q].holds
  BY <1>3, <1>5, <1>7, <1>8, <1>10
<1>16. Forwards(s)' /\ HeldBy(s)' = HeldBy(s) /\ \A i \in DOMAIN s : PartsAt(s[i])' = PartsAt(s[i])
  <2>1. Forwards(s)
    BY DEF ListKept
  <2>2. ASSUME NEW i \in DOMAIN s
        PROVE  /\ s[i] \in DOMAIN file' /\ file'[s[i]] = file[s[i]]
               /\ \A q \in PartsAt(s[i]) : q \in DOMAIN file' /\ file'[q].holds = file[q].holds
    BY <1>3, <1>14, <1>15
  <2> QED
    BY <1>1, <2>1, <2>2, SameForwards
<1>17. Backwards(s)' /\ MemoryEnds(s, m)'
  <2>1. Backwards(s) /\ MemoryEnds(s, m)
    BY DEF ListKept
  <2> QED
    BY <1>1, <1>2, <1>12, <1>14, <2>1, SameBackwards
<1>18. file'[t].parts = file[t].parts /\ Replaced' = old
  BY <1>1, <1>4, <1>12, <1>14 DEF old, t, Replaced
<1>19. ~Created' /\ GivenBack' = {old} \ {p} /\ InHand' = {p}
  BY <1>1, <1>10, <1>12, <1>18 DEF Created, GivenBack, InHand
<1>20. FileEnds(s, m)'
  BY <1>1, <1>2, <1>19 DEF ListKept, FileEnds
<1>21. UsedBy(s)'
  BY <1>2, <1>6, <1>7, <1>8, <1>16, <1>19 DEF ListKept, UsedBy
<1>22. Fresh(s)'
  <2>1. ASSUME NEW i \in DOMAIN s, p \in PartsAt(s[i])
        PROVE  s[i] = t
    <3>1. p = old
      BY <1>3, <1>7, <2>1
    <3> QED
      BY <1>4, <1>6, <2>1, <3>1 DEF ListKept, Forwards
  <2>2. ASSUME NEW k \in DOMAIN file[t].parts, file[t].parts[k] = p
        PROVE  k = nth
    <3>1. p \in PartsAt(t)
      BY <2>2 DEF PartsAt, Range
    <3>2. file[t].parts[nth] = p
      BY <1>3, <1>4, <1>7, <3>1 DEF old, t
    <3> QED
      BY <1>4, <1>5, <2>2, <3>2 DEF ListKept, Forwards, WholeParts
  <2>3. Inserted(s)'
    BY <1>8, <1>12 DEF Inserted
  <2>4. Replacing'
    <3>1. file'[old].holds = "text"
      BY <1>5, <1>6, <1>15
    <3> QED
      BY <1>1, <1>5, <1>12, <1>18, <3>1 DEF Replacing
  <2>5. Exchanged(s)'
    BY <1>1, <1>10, <1>12, <1>16, <1>18, <2>1, <2>2, <2>4 DEF Exchanged
  <2>6. ~Deletion'
    BY <1>11, <1>12, AfterUpdate
  <2>7. Released(s)'
    BY <1>12, <2>6 DEF Released
  <2> QED
    BY <1>12, <2>3, <2>5, <2>7 DEF Fresh
<1>23. Plan(s)'
  BY <1>11 DEF Plan
<1>24. Keeps(s, Known(m))'
  BY <1>1, <1>2, <1>19 DEF ListKept, Keeps, Known
<1>25. Leaks(s, m)'
  <2>1. Lost(s)' \subseteq Lost(s)
    BY <1>2, <1>8, <1>9, <1>16, <1>19 DEF Lost, Used
  <2> QED
    BY <1>1, <1>3, <1>8, <2>1, LostShrinks DEF ListKept, InMemory
<1> QED
  BY <1>8, <1>13, <1>16, <1>17, <1>20, <1>21, <1>22, <1>23, <1>24, <1>25 DEF ListKept

LEMMA WritePartKept ==
    ASSUME NEW s, NEW m, ListKept(s, m), NEW p \in Ptr, WritePart(p)
    PROVE  ListKept(s, m)'
<1>1. writes # <<>> /\ Head(writes).op = "parts"
  BY DEF WritePart, Running
<1>2. Insertion \/ Change(s)
  BY <1>1, PlanNow DEF DeleteOps
<1> QED
  BY <1>2, PartForInsert, PartForUpdate

LEMMA WriteEntityKept ==
    ASSUME NEW s, NEW m, ListKept(s, m), NEW p \in Ptr, WriteEntity(p)
    PROVE  ListKept(s, m)'
<1>1. /\ writes # <<>> /\ Head(writes).op = "entity" /\ ~InUse(p)
      /\ file' = Written(p, Block(kind, mem.last, made))
      /\ latest' = p /\ writes' = Tail(writes)
      /\ UNCHANGED <<kind, disk, mem, layout, made, nth, done, cuts>>
  BY DEF WriteEntity, Running
<1>2. Insertion /\ Ahead("entity", Null)
  <2>1. Insertion
    BY <1>1, PlanNow DEF DeleteOps
  <2> QED
    BY <1>1, <2>1 DEF Insertion, Ahead, Target
<1>3. /\ Running("entity") /\ ~Created /\ GivenBack = {} /\ InHand = Range(made) /\ ~Running("close_prev") /\ ~Deletion
      /\ ~Running("parts") /\ Target = Null
  BY <1>2, AheadFacts DEF Created, GivenBack, InHand, Insertion
<1>4. /\ InFile /\ Inserts /\ writes \in Seq(Range(writes))
      /\ DOMAIN s = 1 .. Len(s) /\ Len(s) \in Nat /\ m \in Nat
      /\ \A i \in DOMAIN s : s[i] \in HeldBy(s) /\ \A q \in PartsAt(s[i]) : q \in HeldBy(s)
      /\ HeldBy(s) \subseteq DOMAIN file /\ MostBlocks[kind] \in Nat
      /\ kind \in EntityKinds /\ mem.last \in Ptr \union {Null}
  BY <1>2, KeptFacts DEF ListKept, Insertion, InMemory, HeaderEnds
<1>5. Inserts' /\ writes' \in Seq(Range(writes')) /\ Ahead("chain", Null)'
  BY <1>1, <1>3, <1>4, InsertStep
<1>6. /\ \A other : Running(other)' <=> other = "chain"
      /\ Target' = Null /\ writes' # <<>>
  BY <1>5 DEF Ahead, Running, Target
<1>7. /\ Making /\ Len(made) = Len(layout) /\ layout \in Layouts[kind]
      /\ \A k \in DOMAIN made : made[k] \notin HeldBy(s)
  BY <1>3 DEF ListKept, Fresh, Inserted
<1>8. /\ made \in Seq(Ptr) /\ \A k \in DOMAIN made : InUse(made[k]) /\ made[k] \in DOMAIN file /\ made[k] # p
  BY <1>1, <1>7 DEF Making, InUse
<1>9. p \notin HeldBy(s)
  BY <1>1, <1>3, NewBlock
<1>10. /\ \A q : q \in DOMAIN file' <=> q \in DOMAIN file \/ q = p
       /\ DOMAIN file' \subseteq Ptr /\ IsFiniteSet(DOMAIN file')
       /\ file'[p] \in Blocks /\ ~file'[p].free
       /\ file'[p].holds = kind /\ file'[p].prev = mem.last /\ file'[p].next = Null /\ file'[p].parts = made
       /\ \A r \in DOMAIN file : r # p => file'[r] = file[r]
  <2>1. PICK x \in EntityKinds \union PartKinds, y \in Ptr \union {Null}, z \in Seq(Ptr) :
           x = kind /\ y = mem.last /\ z = made
    BY <1>4, <1>8
  <2>2. PICK b : b = Block(x, y, z)
    OBVIOUS
  <2>3. b \in Blocks /\ ~b.free /\ b.holds = x /\ b.prev = y /\ b.next = Null /\ b.parts = z
    BY <2>2, BlockFields
  <2> QED
    BY <1>1, <1>4, <2>1, <2>2, <2>3, BlockWritten
<1>11. InFile' /\ InMemory'
  BY <1>1, <1>4, <1>10 DEF InFile, ListKept, InMemory
<1>12. /\ InUse(p)' /\ \A q : q # p => (InUse(q)' <=> InUse(q))
  BY <1>10 DEF InUse
<1>13. \A i \in DOMAIN s : file'[s[i]] = file[s[i]]
  BY <1>4, <1>9, <1>10
<1>14. Forwards(s)' /\ HeldBy(s)' = HeldBy(s)
  <2>1. Forwards(s)
    BY DEF ListKept
  <2>2. ASSUME NEW i \in DOMAIN s
        PROVE  /\ s[i] \in DOMAIN file' /\ file'[s[i]] = file[s[i]]
               /\ \A q \in PartsAt(s[i]) : q \in DOMAIN file' /\ file'[q] = file[q]
    BY <1>4, <1>9, <1>10
  <2> QED
    BY <1>1, <2>1, <2>2, SameForwards
<1>15. Backwards(s)' /\ MemoryEnds(s, m)'
  <2>1. Backwards(s) /\ MemoryEnds(s, m)
    BY DEF ListKept
  <2> QED
    BY <1>1, <1>3, <1>6, <1>13, <2>1, SameBackwards
<1>16. PartsAt(p)' = Range(made)
  BY <1>10 DEF PartsAt
<1>17. ~Created' /\ GivenBack' = {} /\ InHand' = {p} \union Range(made)
  BY <1>1, <1>6, <1>16 DEF Created, GivenBack, InHand
<1>18. FileEnds(s, m)'
  BY <1>1, <1>3, <1>17 DEF ListKept, FileEnds
<1>19. UsedBy(s)'
  BY <1>3, <1>9, <1>12, <1>14, <1>17 DEF ListKept, UsedBy
<1>20. WholeParts(file[p].parts)'
  <2>1. \A k \in DOMAIN made : made[k] \in DOMAIN file' /\ file'[made[k]].holds = layout[k]
    BY <1>7, <1>8, <1>10 DEF Making
  <2>2. \A k, l \in DOMAIN made : made[k] = made[l] => k = l
    BY <1>7 DEF Making
  <2>3. Held(made)' = layout
    <3>1. layout \in Seq(PartKinds) /\ DOMAIN layout = DOMAIN made /\ layout = [k \in DOMAIN layout |-> layout[k]]
      BY <1>7, <1>8 DEF Making
    <3> QED
      BY <1>1, <2>1, <3>1 DEF Held
  <2>4. Held(made)' \in Layouts[kind]'
    BY <1>1, <1>7, <2>3 DEF Layouts
  <2> QED
    BY <1>1, <1>10, <2>1, <2>2, <2>4 DEF WholeParts, Held
<1>21. Fresh(s)'
  <2>1. \A q \in Range(made) : InUse(q)' /\ q \notin HeldBy(s)'
    BY <1>7, <1>8, <1>12, <1>14 DEF Range
  <2>2. Inserted(s)'
    BY <1>1, <1>6, <1>9, <1>10, <1>12, <1>14, <1>16, <1>20, <2>1 DEF Inserted
  <2>3. Exchanged(s)'
    BY <1>6 DEF Exchanged
  <2>4. ~Deletion'
    BY <1>5, <1>6, AfterInsert
  <2>5. Released(s)'
    BY <1>6, <2>4 DEF Released
  <2> QED
    BY <1>6, <2>2, <2>3, <2>5 DEF Fresh
<1>22. Plan(s)'
  BY <1>5 DEF Plan
<1>23. Keeps(s, Known(m))'
  BY <1>1, <1>3, <1>17 DEF ListKept, Keeps, Known
<1>24. Leaks(s, m)'
  <2>1. Lost(s)' \subseteq Lost(s)
    BY <1>3, <1>12, <1>14, <1>17 DEF Lost, Used
  <2> QED
    BY <1>1, <1>4, <1>11, <2>1, LostShrinks DEF ListKept, InMemory
<1> QED
  BY <1>11, <1>14, <1>15, <1>18, <1>19, <1>21, <1>22, <1>23, <1>24 DEF ListKept

\* what the list holds, block by block
LEMMA HeldIs ==
    ASSUME NEW s
    PROVE  /\ \A q : q \in HeldBy(s) <=> \E i \in DOMAIN s : q = s[i] \/ q \in PartsAt(s[i])
           /\ \A q : q \in HeldBy(s)' <=> \E i \in DOMAIN s : q = s[i] \/ q \in PartsAt(s[i])'
<1>1. \A q : q \in HeldBy(s) <=> \E i \in DOMAIN s : q = s[i] \/ q \in PartsAt(s[i])
  BY DEF HeldBy, PartsOf, Range
<1>2. \A q : q \in PartsOf(s)' <=> \E i \in DOMAIN s : q \in PartsAt(s[i])'
  BY DEF PartsOf
<1>3. \A q : q \in Range(s) <=> \E i \in DOMAIN s : q = s[i]
  BY DEF Range
<1> QED
  BY <1>1, <1>2, <1>3 DEF HeldBy

LEMMA HeldAre ==
    ASSUME NEW s, NEW i \in DOMAIN s
    PROVE  /\ s[i] \in HeldBy(s) /\ \A q \in PartsAt(s[i]) : q \in HeldBy(s)
           /\ s[i] \in HeldBy(s)' /\ \A q \in PartsAt(s[i])' : q \in HeldBy(s)'
BY HeldIs

\* The parts stay as they are.
LEMMA PartsStay ==
    ASSUME NEW p, file'[p].parts = file[p].parts, kind' = kind
    PROVE  /\ PartsAt(p)' = PartsAt(p)
           /\ WholeParts(file[p].parts)
              /\ (\A q \in PartsAt(p) : q \in DOMAIN file' /\ file'[q].holds = file[q].holds)
              => WholeParts(file[p].parts)'
<1>1. PICK v : v = file[p].parts
  OBVIOUS
<1>2. v = file'[p].parts
  BY <1>1
<1>3. PartsAt(p) = Range(v) /\ PartsAt(p)' = Range(v)
  BY <1>1, <1>2 DEF PartsAt
<1>4. ASSUME WholeParts(file[p].parts), \A q \in PartsAt(p) : q \in DOMAIN file' /\ file'[q].holds = file[q].holds
      PROVE  WholeParts(file[p].parts)'
  <2>1. WholeParts(v)
    BY <1>1, <1>4
  <2>2. \A k \in DOMAIN v : v[k] \in DOMAIN file' /\ file'[v[k]].holds = file[v[k]].holds
    BY <1>3, <1>4 DEF Range
  <2>3. WholeParts(v)'
    BY <2>1, <2>2, SameParts
  <2> QED
    BY <1>2, <2>3
<1> QED
  BY <1>3, <1>4

\* The blocks behind those the header knows fall off, and a new one follows.
LEMMA ChainLastKept ==
    ASSUME NEW s, NEW m, ListKept(s, m), ChainLast
    PROVE  \E t \in Seq(Ptr), k \in Nat : ListKept(t, k)'
<1>1. PICK l : l = latest
  OBVIOUS
<1>2. /\ writes # <<>> /\ Head(writes).op = "chain"
      /\ file' = IF mem.first = Null THEN file ELSE SetNext(file, mem.last, l)
      /\ mem' = [first |-> IF mem.first = Null THEN l ELSE mem.first, last |-> l]
      /\ writes' = Tail(writes) /\ latest' = l
      /\ UNCHANGED <<kind, disk, running, done, cuts>>
  BY <1>1 DEF ChainLast, Running, running
<1>3. Insertion /\ Ahead("chain", Null)
  <2>1. Insertion
    BY <1>2, PlanNow DEF DeleteOps
  <2> QED
    BY <1>2, <2>1 DEF Insertion, Ahead, Target
<1>4. PICK X : X = PartsAt(l)
  OBVIOUS
<1>5. /\ Running("chain") /\ ~Created /\ GivenBack = {} /\ InHand = {l} \union X
      /\ ~Running("close_prev") /\ ~Deletion /\ disk = mem
  <2>1. Running("chain") /\ ~Created /\ GivenBack = {} /\ InHand = {l} \union X /\ ~Running("close_prev") /\ ~Deletion
    BY <1>1, <1>3, <1>4, AheadFacts DEF Created, GivenBack, InHand, Insertion
  <2> QED
    BY <2>1 DEF ListKept, FileEnds
<1> DEFINE n == Len(s)
<1>6. /\ InFile /\ Inserts /\ writes \in Seq(Range(writes))
      /\ DOMAIN s = 1 .. n /\ n \in Nat /\ m \in Nat /\ m <= n /\ n <= m + 1 /\ (m = 0 => n = 0)
      /\ \A i \in 1 .. n : /\ s[i] \in HeldBy(s) /\ \A q \in PartsAt(s[i]) : q \in HeldBy(s)
                           /\ s[i] \in DOMAIN file /\ s[i] \in Ptr /\ s[i] # Null
      /\ HeldBy(s) \subseteq DOMAIN file
      /\ kind \in EntityKinds /\ kind \notin PartKinds /\ MostBlocks[kind] \in Nat
  <2>1. m = 0 => Len(s) = 0
    BY DEF ListKept, MemoryEnds
  <2> QED
    BY <1>3, <2>1, KeptFacts DEF ListKept, Insertion
<1> HIDE DEF n
<1>7. Inserts' /\ writes' \in Seq(Range(writes')) /\ Ahead("header", Null)'
  BY <1>2, <1>5, <1>6, InsertStep
<1>8. /\ \A other : Running(other)' <=> other = "header"
      /\ Target' = Null /\ writes' # <<>>
  BY <1>7 DEF Ahead, Running, Target
<1>9. Created' /\ GivenBack' = {} /\ InHand' = {}
  BY <1>8 DEF Created, GivenBack, InHand
<1>10. /\ l \in DOMAIN file /\ ~file[l].free /\ file[l].holds = kind /\ l \notin HeldBy(s)
       /\ file[l].next = Null /\ file[l].prev = mem.last /\ l \in Ptr /\ l # Null
       /\ WholeParts(file[l].parts) /\ file[l].parts \in Seq(Ptr)
       /\ \A x \in X : x \in DOMAIN file /\ ~file[x].free /\ x \notin HeldBy(s) /\ x # l
  <2>1. /\ l \in DOMAIN file /\ ~file[l].free /\ file[l].holds = kind /\ l \notin HeldBy(s)
        /\ file[l].next = Null /\ file[l].prev = mem.last
        /\ WholeParts(file[l].parts)
        /\ \A x \in X : x \in DOMAIN file /\ ~file[x].free /\ x \notin HeldBy(s)
    BY <1>1, <1>4, <1>5 DEF ListKept, Fresh, Inserted, InUse
  <2>2. l \in Ptr /\ l # Null /\ file[l].parts \in Seq(Ptr)
    BY <1>6, <2>1, FileFields
  <2>3. \A x \in X : file[x].holds \in PartKinds
    BY <1>4, <1>6, <2>1, <2>2, PartsFacts DEF PartsAt
  <2> QED
    BY <1>6, <2>1, <2>2, <2>3
<1>11. mem.first = AtPos(s, 1) /\ mem.last = AtPos(s, m)
  BY <1>5 DEF ListKept, MemoryEnds, Closing
<1>12. mem.first = Null => n = 0 /\ m = 0 /\ mem.last = Null
  BY <1>6, <1>11 DEF AtPos
<1>13. mem.first # Null => n > 0 /\ m > 0 /\ mem.first = s[1] /\ mem.last = s[m]
  BY <1>6, <1>11 DEF AtPos
<1>14. /\ DOMAIN file' = DOMAIN file
       /\ \A r \in DOMAIN file :
             /\ file'[r] \in Blocks
             /\ file'[r].free = file[r].free /\ file'[r].holds = file[r].holds
             /\ file'[r].parts = file[r].parts /\ file'[r].prev = file[r].prev
             /\ file'[r].next = IF r = mem.last THEN l ELSE file[r].next
  <2>1. CASE mem.first = Null
    BY <1>2, <1>6, <1>12, <2>1, FileFields DEF InFile
  <2>2. CASE mem.first # Null
    <3>1. l \in Ptr \union {Null}
      BY <1>10
    <3>2. PICK p : p = mem.last
      OBVIOUS
    <3>3. file' = SetNext(file, p, l)
      BY <1>2, <2>2, <3>2
    <3> QED
      BY <1>6, <3>1, <3>2, <3>3, NextSet
  <2> QED
    BY <2>1, <2>2
<1>15. InFile' /\ InMemory'
  <2>1. mem' \in HeaderEnds
    BY <1>2, <1>10 DEF ListKept, InMemory, HeaderEnds
  <2> QED
    BY <1>2, <1>6, <1>14, <2>1 DEF InFile, ListKept, InMemory
<1>16. \A q : InUse(q)' <=> InUse(q)
  BY <1>14 DEF InUse
<1>38. \A r \in DOMAIN file : PartsAt(r)' = PartsAt(r)
  BY <1>2, <1>14, PartsStay
<1> DEFINE k == m + 1
<1>17. PICK t : t = [i \in 1 .. k |-> IF i = k THEN l ELSE s[i]]
  OBVIOUS
<1>18. /\ k \in Nat /\ k > 0 /\ DOMAIN t = 1 .. k /\ t[k] = l /\ \A i \in 1 .. m : t[i] = s[i]
       /\ t \in [1 .. k -> Ptr]
       /\ \A i \in 1 .. k : i = k \/ (i \in 1 .. m /\ i \in 1 .. n)
  <2>0. m \in Nat /\ n \in Nat /\ m <= n
    BY <1>6
  <2>1. k \in Nat /\ k > 0 /\ \A i \in 1 .. k : i = k \/ (i \in 1 .. m /\ i \in 1 .. n)
    BY ONLY <2>0 DEF k
  <2>2. \A i \in 1 .. m : i # k /\ i \in 1 .. k
    BY <1>6
  <2> HIDE DEF k
  <2>3. DOMAIN t = 1 .. k /\ t[k] = l /\ \A i \in 1 .. m : t[i] = s[i]
    BY <1>17, <2>1, <2>2
  <2>4. \A i \in 1 .. k : t[i] \in Ptr
    BY <1>6, <1>10, <2>1, <2>3
  <2>5. t \in [1 .. k -> Ptr]
    BY <1>17, <2>3, <2>4
  <2> QED
    BY <2>1, <2>3, <2>5
<1>19. t \in Seq(Ptr) /\ Len(t) = k
  <2> HIDE DEF k
  <2>1. t \in Seq(Ptr)
    BY <1>18
  <2> QED
    BY <1>18, <2>1
<1>20. /\ Forwards(s) /\ Backwards(s)
  BY DEF ListKept
<1>21. \A i \in 1 .. m : file[s[i]].next = IF i + 1 \in 1 .. n THEN s[i + 1] ELSE Null
  <2>1. \A i \in 1 .. n : file[s[i]].next = AtPos(s, i + 1)
    BY <1>6, <1>20 DEF Forwards
  <2>2. \A i \in 1 .. m : i \in 1 .. n
    BY <1>6
  <2> QED
    BY <1>6, <2>1, <2>2 DEF AtPos
<1>22. \A i \in 1 .. n : file[s[i]].prev = IF i - 1 \in 1 .. n THEN s[i - 1] ELSE Null
  BY <1>5, <1>6, <1>20 DEF Backwards, AtPos, Closing
<1>23. /\ \A i, j \in 1 .. n : s[i] = s[j] => i = j
       /\ \A i, j \in 1 .. n : \A q \in PartsAt(s[i]) : q \in PartsAt(s[j]) => i = j
  BY <1>6, <1>20 DEF Forwards
<1>24. ASSUME NEW i \in 1 .. k
       PROVE  /\ t[i] \in DOMAIN file /\ file[t[i]].holds = kind
              /\ WholeParts(file[t[i]].parts) /\ file[t[i]].parts \in Seq(Ptr)
              /\ InUse(t[i]) /\ \A q \in PartsAt(t[i]) : q \in DOMAIN file /\ InUse(q)
  <2>1. CASE i = k
    BY <1>4, <1>10, <1>18, <2>1 DEF InUse
  <2>2. CASE i \in 1 .. m /\ i \in 1 .. n
    <3>1. InUse(s[i]) /\ \A q \in PartsAt(s[i]) : InUse(q)
      BY <1>5, <1>6, <2>2 DEF ListKept, UsedBy
    <3>2. file[s[i]].parts \in Seq(Ptr)
      BY <1>6, <2>2, FileFields
    <3> QED
      BY <1>6, <1>18, <1>20, <2>2, <3>1, <3>2 DEF Forwards, InUse
  <2> QED
    BY <1>18, <2>1, <2>2
<1>25. ASSUME NEW i \in 1 .. k
       PROVE  file'[t[i]].next = IF i + 1 \in 1 .. k THEN t[i + 1] ELSE Null
  <2>1. CASE i = k
    <3>1. l # mem.last
      BY <1>6, <1>10, <1>11 DEF AtPos
    <3> QED
      BY <1>10, <1>14, <1>18, <2>1, <3>1
  <2>2. CASE i = m /\ i \in 1 .. n
    <3>1. t[i] = mem.last /\ t[i] \in DOMAIN file
      BY <1>6, <1>11, <1>18, <2>2 DEF AtPos
    <3> QED
      BY <1>14, <1>18, <2>2, <3>1
  <2>3. CASE i \in 1 .. m /\ i \in 1 .. n /\ i # m
    <3>1. i + 1 \in 1 .. m /\ i + 1 \in 1 .. n /\ i + 1 \in 1 .. k
      BY <1>6, <2>3
    <3>2. s[i] # mem.last
      BY <1>6, <1>11, <1>23, <2>3 DEF AtPos
    <3> QED
      BY <1>6, <1>14, <1>18, <1>21, <2>3, <3>1, <3>2
  <2> QED
    BY <1>18, <2>1, <2>2, <2>3
<1>26. Forwards(t)'
  <2>1. ASSUME NEW i \in 1 .. k, NEW j \in 1 .. k, t[i] = t[j] \/ \E q \in PartsAt(t[i]) : q \in PartsAt(t[j])
        PROVE  i = j
    <3>1. CASE i = k /\ j = k
      BY <3>1
    <3>2. CASE i = k /\ j \in 1 .. m /\ j \in 1 .. n
      BY <1>4, <1>6, <1>10, <1>18, <2>1, <3>2
    <3>3. CASE j = k /\ i \in 1 .. m /\ i \in 1 .. n
      BY <1>4, <1>6, <1>10, <1>18, <2>1, <3>3
    <3>4. CASE i \in 1 .. m /\ i \in 1 .. n /\ j \in 1 .. m /\ j \in 1 .. n
      BY <1>18, <1>23, <2>1, <3>4
    <3> QED
      BY <1>18, <3>1, <3>2, <3>3, <3>4
  <2>2. \A i \in 1 .. k : PartsAt(t[i])' = PartsAt(t[i])
    BY <1>24, <1>38
  <2>3. ASSUME NEW i \in 1 .. k
        PROVE  /\ t[i] \in DOMAIN file' /\ file'[t[i]].holds = kind
               /\ WholeParts(file[t[i]].parts)'
               /\ file'[t[i]].next = AtPos(t, i + 1)
    <3>1. WholeParts(file[t[i]].parts)'
      BY <1>2, <1>14, <1>24, PartsStay
    <3> QED
      BY <1>14, <1>18, <1>24, <1>25, <3>1 DEF AtPos
  <2>4. \A i, j \in DOMAIN t : t[i] = t[j] => i = j
    BY <1>18, <2>1
  <2>5. \A i, j \in DOMAIN t : \A q \in PartsAt(t[i])' : q \in PartsAt(t[j])' => i = j
    BY <1>18, <2>1, <2>2
  <2> QED
    BY <1>2, <1>18, <1>19, <2>3, <2>4, <2>5 DEF Forwards
<1>27. Backwards(t)'
  <2>1. ASSUME NEW i \in 1 .. k
        PROVE  file'[t[i]].prev = AtPos(t, i - 1)
    <3>1. CASE i = k
      <4>1. file'[t[i]].prev = mem.last
        BY <1>10, <1>14, <1>18, <3>1
      <4>2. AtPos(t, i - 1) = AtPos(s, m)
        BY <1>6, <1>18, <3>1 DEF AtPos
      <4> QED
        BY <1>11, <4>1, <4>2
    <3>2. CASE i \in 1 .. m /\ i \in 1 .. n
      BY <1>6, <1>14, <1>18, <1>22, <3>2 DEF AtPos
    <3> QED
      BY <1>18, <3>1, <3>2
  <2>2. \A p : ~Closing(p)'
    BY <1>8 DEF Closing
  <2> QED
    BY <1>18, <2>1, <2>2 DEF Backwards
<1>28. mem'.first = t[1] /\ mem'.last = l
  <2>1. mem'.first = (IF mem.first = Null THEN l ELSE mem.first) /\ mem'.last = l
    BY <1>2
  <2> QED
    BY <1>6, <1>12, <1>13, <1>18, <2>1
<1>29. MemoryEnds(t, k)'
  <2>1. \A p : ~Closing(p)'
    BY <1>8 DEF Closing
  <2>2. AtPos(t, 1) = t[1] /\ AtPos(t, k) = l
    BY <1>18 DEF AtPos
  <2> QED
    BY <1>18, <1>19, <1>28, <2>1, <2>2 DEF MemoryEnds
<1>30. FileEnds(t, k)'
  <2>1. disk'.first = IF k = 1 THEN Null ELSE t[1]
    BY <1>2, <1>5, <1>6, <1>12, <1>13, <1>18
  <2>2. AtPos(t, k - 1) = AtPos(s, m)
    BY <1>6, <1>18 DEF AtPos
  <2>3. disk'.last = AtPos(t, k - 1)
    BY <1>2, <1>5, <1>11, <2>2
  <2> QED
    BY <1>2, <1>9, <1>18, <1>19, <2>1, <2>3 DEF FileEnds
<1>31. \A q : q \in HeldBy(t)' => InUse(q)
  <2> SUFFICES ASSUME NEW q, q \in HeldBy(t)'
               PROVE  InUse(q)
    OBVIOUS
  <2>1. PICK i \in 1 .. k : q = t[i] \/ q \in PartsAt(t[i])'
    BY <1>18, HeldIs
  <2> QED
    BY <1>24, <1>38, <2>1
<1>32. UsedBy(t)'
  BY <1>9, <1>16, <1>31 DEF UsedBy
<1>33. Fresh(t)'
  <2>1. ~Deletion'
    BY <1>7, <1>8, AfterInsert
  <2> QED
    BY <1>8, <2>1 DEF Fresh, Inserted, Exchanged, Released
<1>34. Plan(t)'
  BY <1>7 DEF Plan
<1>35. Keeps(t, Known(k))'
  <2>1. Known(k)' = m
    BY <1>6, <1>9 DEF Known
  <2>2. Keeps(s, m) /\ done' = done
    BY <1>2, <1>5 DEF ListKept, Known
  <2>3. \A d \in DOMAIN done : \E i \in 1 .. m : done[d] = t[i] /\ done[d] = s[i]
    BY <1>18, <2>2 DEF Keeps
  <2>4. \A d \in DOMAIN done, i \in 1 .. k : done[d] = t[i] => i \in 1 .. m /\ i \in 1 .. n /\ done[d] = s[i]
    <3> TAKE d \in DOMAIN done, i \in 1 .. k
    <3> HAVE done[d] = t[i]
    <3>1. i # k
      <4>1. PICK j \in 1 .. m : done[d] = s[j]
        BY <2>3
      <4>2. s[j] \in HeldBy(s)
        BY <1>6
      <4> QED
        BY <1>10, <1>18, <4>1, <4>2
    <3> QED
      BY <1>18, <3>1
  <2>5. \A d, e \in DOMAIN done, i, j \in 1 .. k : done[d] = t[i] /\ done[e] = t[j] /\ d < e => i < j
    BY <1>6, <2>2, <2>4 DEF Keeps
  <2> QED
    BY <1>18, <2>1, <2>2, <2>3, <2>5 DEF Keeps
<1>36. Leaks(t, k)'
  <2> DEFINE Y == {s[n]} \union PartsAt(s[n])
  <2>1. \A q : q \in HeldBy(s) => q \in HeldBy(t)' \/ (n = m + 1 /\ q \in Y)
    <3> TAKE q
    <3> HAVE q \in HeldBy(s)
    <3>1. PICK i \in 1 .. n : q = s[i] \/ q \in PartsAt(s[i])
      BY <1>6, HeldIs
    <3>2. CASE i \in 1 .. m
      <4>1. i \in 1 .. k /\ t[i] = s[i] /\ PartsAt(s[i])' = PartsAt(s[i])
        BY <1>6, <1>18, <1>38, <3>2
      <4>2. i \in DOMAIN t /\ (q = t[i] \/ q \in PartsAt(t[i])')
        BY <1>18, <3>1, <4>1
      <4> QED
        BY <4>2, HeldIs
    <3>3. CASE i \notin 1 .. m
      BY <1>6, <3>1, <3>3
    <3> QED
      BY <3>2, <3>3
  <2>2. l \in HeldBy(t)' /\ \A x \in X : x \in HeldBy(t)'
    <3>1. k \in 1 .. k /\ t[k] = l /\ PartsAt(l)' = X
      BY <1>4, <1>10, <1>18, <1>38
    <3> QED
      BY <1>18, <3>1, HeldIs
  <2> HIDE DEF Y
  <2>3. \A q : q \in Lost(t)' => q \in Lost(s) \/ (n = m + 1 /\ q \in Y)
    <3>1. \A q : q \in Lost(t)' => q \in Ptr /\ InUse(q) /\ q \notin HeldBy(t)'
      BY <1>16 DEF Lost, Used
    <3>2. \A q : q \in Ptr /\ InUse(q) /\ q \notin HeldBy(s) /\ q \notin {l} \union X => q \in Lost(s)
      BY <1>5 DEF Lost, Used
    <3> TAKE q
    <3> HAVE q \in Lost(t)'
    <3>3. q \in Ptr /\ InUse(q) /\ q \notin HeldBy(t)'
      BY <3>1
    <3>4. q \notin {l} \union X
      BY <2>2, <3>3
    <3>5. q \notin HeldBy(s) => q \in Lost(s)
      BY <3>2, <3>3, <3>4
    <3>6. q \in HeldBy(s) => n = m + 1 /\ q \in Y
      BY <2>1, <3>3
    <3> QED
      BY <3>5, <3>6
  <2>4. cuts \in Nat /\ cuts' = cuts /\ Leaks(s, m)
    BY <1>2 DEF ListKept, InMemory
  <2>5. CASE n = m
    <3>1. Lost(t)' \subseteq Lost(s)
      BY <1>6, <2>3, <2>5
    <3>2. Len(t) - k <= Len(s) - m
      BY <1>6, <1>18, <1>19, <2>5 DEF n
    <3> QED
      BY <1>2, <1>6, <1>15, <1>18, <1>19, <2>4, <3>1, <3>2, LostShrinks DEF n
  <2>6. CASE n = m + 1
    <3>1. Lost(t)' \subseteq Lost(s) \union Y
      BY <2>3
    <3>2. (Len(t) - k) - cuts' < (Len(s) - m) - cuts
      BY <1>6, <1>18, <1>19, <2>4, <2>6 DEF n
    <3>3. m \in Int /\ k \in Int /\ Len(s) \in Int /\ Len(t) \in Int /\ cuts' \in Nat
      BY <1>6, <1>19, <2>4 DEF n
    <3>4. IsFiniteSet(Y) /\ Cardinality(Y) <= MostBlocks[kind]
      <4>1. n \in 1 .. n
        BY <1>6, <2>6
      <4>2. file[s[n]].parts \in Seq(Ptr) /\ WholeParts(file[s[n]].parts)
        BY <1>6, <4>1, KeptFacts
      <4> QED
        BY <1>6, <4>2, PartsFacts DEF Y, PartsAt
    <3> HIDE DEF k
    <3> QED
      BY <1>2, <1>6, <1>15, <2>4, <3>1, <3>2, <3>3, <3>4, LostGrows
  <2> QED
    BY <1>6, <2>5, <2>6
<1>37. ListKept(t, k)'
  BY <1>15, <1>26, <1>27, <1>29, <1>30, <1>32, <1>33, <1>34, <1>35, <1>36 DEF ListKept
<1> QED
  BY <1>18, <1>19, <1>37

-----------------------------------------------------------------------------
(* The end of a query, and of a process *)

\* The free blocks are forgotten; those in use stay what they are.
LEMMA FreeForgotten ==
    ASSUME NEW blocks, DOMAIN blocks = DOMAIN file, InFile, \A p \in DOMAIN file : blocks[p] \in Blocks,
           \A p \in DOMAIN file : blocks[p].free = file[p].free,
           file' = WithoutFree(blocks)
    PROVE  /\ InFile'
           /\ \A p : InUse(p)' <=> InUse(p)
           /\ \A p : InUse(p) => p \in DOMAIN file' /\ file'[p] = blocks[p]
           /\ Used' = Used
<1>1. DOMAIN blocks \subseteq Ptr /\ IsFiniteSet(DOMAIN blocks)
  BY DEF InFile
<1>2. /\ DOMAIN file' = {p \in DOMAIN blocks : ~blocks[p].free}
      /\ DOMAIN file' \subseteq Ptr /\ IsFiniteSet(DOMAIN file')
      /\ \A p \in DOMAIN file' : file'[p] = blocks[p]
  BY <1>1, FreeDropped
<1>3. InFile'
  BY <1>2 DEF InFile
<1>4. \A p : InUse(p) => p \in DOMAIN file' /\ file'[p] = blocks[p]
  BY <1>2 DEF InUse
<1>5. \A p : InUse(p)' <=> InUse(p)
  BY <1>2 DEF InUse
<1> QED
  BY <1>3, <1>4, <1>5 DEF Used

\* The list after the free blocks are forgotten, if it holds none of them.
LEMMA ListStays ==
    ASSUME NEW s, NEW m, ListKept(s, m), GivenBack = {}, file' = WithoutFree(file), kind' = kind
    PROVE  /\ InFile' /\ Used' = Used
           /\ \A p : InUse(p)' <=> InUse(p)
           /\ \A i \in DOMAIN s : file'[s[i]] = file[s[i]]
           /\ Forwards(s)' /\ HeldBy(s)' = HeldBy(s) /\ \A p \in HeldBy(s) : InUse(p)
<1>1. InFile /\ Forwards(s) /\ \A p \in DOMAIN file : file[p] \in Blocks
  BY DEF ListKept, InFile
<1>2. PICK blocks : blocks = file
  OBVIOUS
<1>3. /\ InFile' /\ Used' = Used
      /\ \A p : InUse(p)' <=> InUse(p)
      /\ \A p : InUse(p) => p \in DOMAIN file' /\ file'[p] = file[p]
  BY <1>1, <1>2, FreeForgotten
<1>4. \A p \in HeldBy(s) : InUse(p)
  BY DEF ListKept, UsedBy
<1>5. \A i \in DOMAIN s : s[i] \in HeldBy(s) /\ \A q \in PartsAt(s[i]) : q \in HeldBy(s)
  BY HeldAre
<1>6. ASSUME NEW i \in DOMAIN s
      PROVE  /\ s[i] \in DOMAIN file' /\ file'[s[i]] = file[s[i]]
             /\ \A q \in PartsAt(s[i]) : q \in DOMAIN file' /\ file'[q] = file[q]
  BY <1>3, <1>4, <1>5
<1>7. Forwards(s)' /\ HeldBy(s)' = HeldBy(s)
  BY <1>1, <1>6, SameForwards
<1> QED
  BY <1>3, <1>4, <1>6, <1>7

LEMMA WriteHeaderKept ==
    ASSUME NEW s, NEW m, ListKept(s, m), WriteHeader
    PROVE  ListKept(s, m)'
<1> DEFINE n == Len(s)
<1>1. /\ writes # <<>> /\ Head(writes).op = "header"
      /\ disk' = mem /\ done' = (IF Target = Null THEN Append(done, latest) ELSE done)
      /\ file' = WithoutFree(file) /\ writes' = <<>> /\ made' = <<>> /\ nth' = 1
      /\ UNCHANGED <<kind, mem, cuts>>
  BY DEF WriteHeader, Running, Over
<1>2. \A other : Running(other) <=> other = "header"
  BY <1>1 DEF Running
<1>3. GivenBack = {} /\ InHand = {} /\ ~Running("close_prev")
  BY <1>2 DEF GivenBack, InHand
<1>4. /\ \A other : ~Running(other)'
      /\ ~Created' /\ ~Deletion' /\ GivenBack' = {} /\ InHand' = {}
  BY <1>1 DEF Running, Created, Deletion, GivenBack, InHand
<1>5. /\ DOMAIN s = 1 .. n /\ n \in Nat /\ m \in Nat /\ MostBlocks[kind] \in Nat
      /\ \A i, j \in 1 .. n : s[i] = s[j] => i = j
      /\ \A i \in 1 .. n : s[i] \in Ptr
  BY KeptFacts
<1>6. /\ InFile' /\ Used' = Used
      /\ \A p : InUse(p)' <=> InUse(p)
      /\ \A i \in DOMAIN s : file'[s[i]] = file[s[i]]
      /\ Forwards(s)' /\ HeldBy(s)' = HeldBy(s) /\ \A p \in HeldBy(s) : InUse(p)
  BY <1>1, <1>3, ListStays
<1>7. InMemory' /\ InMemory /\ InFile
  BY <1>1 DEF ListKept, InMemory
<1>8. Backwards(s)' /\ MemoryEnds(s, m)'
  <2>1. Backwards(s) /\ MemoryEnds(s, m)
    BY DEF ListKept
  <2> QED
    BY <1>1, <1>3, <1>4, <1>6, <2>1, SameBackwards
<1>9. FileEnds(s, m)'
  BY <1>1, <1>4 DEF FileEnds
<1>10. UsedBy(s)' /\ Fresh(s)'
  BY <1>1, <1>4, <1>6 DEF UsedBy, Fresh, Inserted, Exchanged, Released
<1>11. Plan(s)'
  <2>1. <<>> \in Seq(Range(<<>>))
    OBVIOUS
  <2> QED
    BY <1>1, <2>1 DEF Plan
<1>12. Leaks(s, m)'
  <2>1. Lost(s)' \subseteq Lost(s)
    BY <1>3, <1>4, <1>6 DEF Lost
  <2> QED
    BY <1>1, <1>5, <1>6, <1>7, <2>1, LostShrinks DEF ListKept, InMemory
<1>13. Keeps(s, Known(m))'
  <2>1. Known(m)' = m /\ Keeps(s, Known(m))
    BY <1>4 DEF Known, ListKept
  <2> DEFINE d == Len(done)
  <2>2. done \in Seq(Ptr) /\ DOMAIN done = 1 .. d /\ d \in Nat
    BY <2>1 DEF Keeps
  <2>3. CASE Target # Null
    <3>1. done' = done /\ Known(m) = m
      BY <1>1, <2>3 DEF Known, Created
    <3> QED
      BY <2>1, <3>1 DEF Keeps
  <2>4. CASE Target = Null
    <3>1. Created /\ m = n /\ m > 0 /\ latest = s[m]
      BY <1>2, <2>4 DEF Created, ListKept, FileEnds
    <3>2. Keeps(s, m - 1)
      BY <2>1, <3>1 DEF Known
    <3>3. PICK x : x = s[m]
      OBVIOUS
    <3>4. done' = Append(done, x) /\ x \in Ptr /\ m \in 1 .. n
      BY <1>1, <1>5, <2>4, <3>1, <3>3
    <3> HIDE DEF d, n
    <3>5. /\ done' \in Seq(Ptr) /\ DOMAIN done' = 1 .. d + 1 /\ done'[d + 1] = x
          /\ \A k \in 1 .. d : done'[k] = done[k]
      BY <2>2, <3>4 DEF d
    <3>6. \A k \in 1 .. d + 1 : k = d + 1 \/ k \in 1 .. d
      BY <2>2
    <3>7. \A k \in 1 .. d : \E i \in 1 .. m - 1 : done[k] = s[i]
      BY <2>2, <3>2 DEF Keeps
    <3>8. \A k \in 1 .. d + 1 : \E i \in 1 .. m : done'[k] = s[i]
      <4> TAKE k \in 1 .. d + 1
      <4>1. CASE k = d + 1
        BY <1>5, <3>1, <3>3, <3>5, <4>1
      <4>2. CASE k \in 1 .. d
        <5>1. PICK i \in 1 .. m - 1 : done[k] = s[i]
          BY <3>7, <4>2
        <5>2. i \in 1 .. m
          BY <1>5
        <5> QED
          BY <3>5, <4>2, <5>1, <5>2
      <4> QED
        BY <3>6, <4>1, <4>2
    <3>9. ASSUME NEW k \in 1 .. d + 1, NEW l \in 1 .. d + 1, NEW i \in 1 .. n, NEW j \in 1 .. n,
                 done'[k] = s[i], done'[l] = s[j], k < l
          PROVE  i < j
      <4>1. k \in 1 .. d /\ done[k] = s[i]
        BY <2>2, <3>5, <3>6, <3>9
      <4>2. CASE l \in 1 .. d
        BY <1>5, <2>2, <3>2, <3>5, <3>9, <4>1, <4>2 DEF Keeps
      <4>3. CASE l = d + 1
        <5>1. j = m
          BY <1>5, <3>3, <3>4, <3>5, <3>9, <4>3
        <5>2. PICK h \in 1 .. m - 1 : done[k] = s[h]
          BY <3>7, <4>1
        <5>3. h \in 1 .. n /\ h < m
          BY <1>5, <3>4
        <5>4. h = i
          BY <1>5, <4>1, <5>2, <5>3
        <5> QED
          BY <5>1, <5>3, <5>4
      <4> QED
        BY <3>6, <4>2, <4>3
    <3> QED
      BY <1>5, <2>1, <3>5, <3>8, <3>9 DEF Keeps
  <2> QED
    BY <2>3, <2>4
<1> QED
  BY <1>6, <1>7, <1>8, <1>9, <1>10, <1>11, <1>12, <1>13 DEF ListKept

LEMMA SetTextKept ==
    ASSUME NEW s, NEW m, ListKept(s, m), SetText
    PROVE  ListKept(s, m)'
<1> DEFINE n == Len(s)
<1>1. PICK t, g, l, old : t = Target /\ g = nth /\ l = made[1] /\ old = file[t].parts[g]
  OBVIOUS
<1>2. /\ writes # <<>> /\ Head(writes).op = "set_text"
      /\ file' = WithoutFree([file EXCEPT ![t].parts[g] = l]) /\ writes' = Tail(writes)
      /\ made' = <<>> /\ nth' = 1
      /\ UNCHANGED <<kind, disk, mem, done, cuts>>
  BY <1>1 DEF SetText, Running, Over
<1>3. \A other : Running(other) <=> other = "set_text"
  BY <1>2 DEF Running
<1>4. Change(s)
  BY <1>2, PlanNow DEF DeleteOps
<1>5. /\ Making /\ Replacing /\ Len(made) = 1
      /\ \A i \in DOMAIN s : l \in PartsAt(s[i]) => s[i] = t
      /\ \A k \in DOMAIN file[t].parts : file[t].parts[k] = l => k = g
  BY <1>1, <1>3 DEF ListKept, Fresh, Inserted, Exchanged
<1>6. /\ InUse(l) /\ l \in DOMAIN file /\ file[l].holds = "text" /\ l \in Ptr /\ Range(made) = {l}
      /\ g \in DOMAIN file[t].parts /\ file[old].holds = "text"
  <2>1. made \in Seq(Ptr) /\ DOMAIN made = 1 .. 1 /\ layout = <<"text">>
    BY <1>5 DEF Making, Replacing
  <2>2. 1 \in DOMAIN made /\ l = made[1] /\ layout[1] = "text" /\ l \in Ptr
    BY <1>1, <2>1
  <2>3. InUse(l) /\ file[l].holds = "text"
    BY <1>5, <2>2 DEF Making
  <2>4. \A k \in DOMAIN made : made[k] = l
    BY <2>1, <2>2
  <2>5. Range(made) = {l}
    BY <2>2, <2>4 DEF Range
  <2> QED
    BY <1>1, <1>5, <2>2, <2>3, <2>5 DEF Replacing, Replaced, InUse
<1>7. /\ ~Created /\ ~Deletion /\ GivenBack = {old} \ {l} /\ InHand = {l} /\ ~Running("close_prev")
      /\ disk = mem
  <2>1. ~Created /\ ~Deletion /\ GivenBack = {old} \ {l} /\ InHand = {l} /\ ~Running("close_prev")
    BY <1>1, <1>3, <1>4, <1>6 DEF Created, GivenBack, InHand, Change, Replaced
  <2> QED
    BY <2>1 DEF ListKept, FileEnds
<1>8. writes' = <<>>
  <2>1. Updates(s) /\ writes \in Seq(Range(writes))
    BY <1>4, KeptFacts DEF Change
  <2> QED
    BY <1>2, <1>3, <2>1, UpdateStep
<1>9. /\ \A other : ~Running(other)'
      /\ ~Created' /\ ~Deletion' /\ GivenBack' = {} /\ InHand' = {}
  BY <1>8 DEF Running, Created, Deletion, GivenBack, InHand
<1>10. /\ DOMAIN s = 1 .. n /\ n \in Nat /\ m \in Nat /\ s \in Seq(Ptr) /\ MostBlocks[kind] \in Nat
       /\ \A i \in 1 .. n : /\ s[i] \in DOMAIN file /\ s[i] \in HeldBy(s)
                            /\ file[s[i]].parts \in Seq(Ptr) /\ WholeParts(file[s[i]].parts)
                            /\ \A q \in PartsAt(s[i]) : q \in HeldBy(s) /\ q \in PartsOf(s)
       /\ \A p \in PartsOf(s) : p \notin Range(s)
       /\ \A i \in 1 .. n : s[i] \in Range(s)
       /\ InFile /\ Forwards(s) /\ HeldBy(s) \subseteq DOMAIN file
  BY KeptFacts DEF ListKept
<1> HIDE DEF n
<1>11. PICK a \in 1 .. n : t = s[a]
  BY <1>1, <1>4, <1>10 DEF Change, Range
<1> DEFINE v == file[t].parts
<1>12. /\ v \in Seq(Ptr) /\ WholeParts(v) /\ old \in PartsAt(t) /\ t \in DOMAIN file
       /\ \A k \in DOMAIN v : v[k] \in PartsAt(t)
       /\ \A i \in 1 .. n : l \in PartsAt(s[i]) => i = a
       /\ \A i \in 1 .. n : i # a => s[i] # t
  <2>1. \A k \in DOMAIN v : v[k] \in PartsAt(t)
    BY DEF PartsAt, Range
  <2> QED
    BY <1>1, <1>5, <1>6, <1>10, <1>11, <2>1 DEF Forwards
<1> HIDE DEF v
<1>13. PICK blocks : blocks = [file EXCEPT ![t].parts[g] = l]
  OBVIOUS
<1>14. /\ DOMAIN blocks = DOMAIN file
       /\ \A r \in DOMAIN file :
             /\ blocks[r] \in Blocks
             /\ blocks[r].free = file[r].free /\ blocks[r].holds = file[r].holds
             /\ blocks[r].prev = file[r].prev /\ blocks[r].next = file[r].next
             /\ r # t => blocks[r].parts = file[r].parts
       /\ blocks[t].parts = [v EXCEPT ![g] = l] /\ DOMAIN blocks[t].parts = DOMAIN v
       /\ \A k \in DOMAIN v : blocks[t].parts[k] = IF k = g THEN l ELSE v[k]
  <2>1. t \in DOMAIN file /\ g \in DOMAIN file[t].parts /\ l \in Ptr /\ InFile
    BY <1>6, <1>10, <1>12
  <2> QED
    BY <1>13, <2>1, PartPointed DEF v
<1>15. /\ InFile' /\ Used' = Used
       /\ \A p : InUse(p)' <=> InUse(p)
       /\ \A p : InUse(p) => p \in DOMAIN file' /\ file'[p] = blocks[p]
  <2>1. file' = WithoutFree(blocks)
    BY <1>2, <1>13
  <2> QED
    BY <1>10, <1>14, <2>1, FreeForgotten
<1>16. /\ \A p \in HeldBy(s) : p # old => InUse(p)
       /\ \A i \in 1 .. n : s[i] # old
       /\ \A i \in 1 .. n : i # a => \A q \in PartsAt(s[i]) : q # old
       /\ \A k \in DOMAIN v : v[k] = old => k = g
  <2>1. \A p \in HeldBy(s) : p # old => InUse(p)
    BY <1>7 DEF ListKept, UsedBy
  <2>2. \A i \in 1 .. n : s[i] # old
    BY <1>10, <1>11, <1>12
  <2>3. \A i \in 1 .. n : i # a => \A q \in PartsAt(s[i]) : q # old
    BY <1>10, <1>11, <1>12 DEF Forwards
  <2>4. \A k \in DOMAIN v : v[k] = old => k = g
    BY <1>1, <1>6, <1>12 DEF WholeParts, v
  <2> QED
    BY <2>1, <2>2, <2>3, <2>4
<1>17. \A i \in 1 .. n : InUse(s[i]) /\ (i # a => \A q \in PartsAt(s[i]) : InUse(q))
  BY <1>10, <1>16
<1>18. \A k \in DOMAIN v : k # g => InUse(v[k])
  BY <1>10, <1>11, <1>12, <1>16
<1>19. /\ \A i \in 1 .. n : /\ s[i] \in DOMAIN file' /\ file'[s[i]] = blocks[s[i]]
                            /\ file'[s[i]].prev = file[s[i]].prev /\ file'[s[i]].next = file[s[i]].next
                            /\ file'[s[i]].holds = file[s[i]].holds
                            /\ i # a => file'[s[i]].parts = file[s[i]].parts
       /\ DOMAIN file'[t].parts = DOMAIN v
       /\ \A k \in DOMAIN v : file'[t].parts[k] = IF k = g THEN l ELSE v[k]
  BY <1>10, <1>11, <1>12, <1>14, <1>15, <1>17
<1>20. /\ \A i \in 1 .. n : i # a => PartsAt(s[i])' = PartsAt(s[i])
       /\ PartsAt(t)' = (PartsAt(t) \ {old}) \union {l}
  <2>1. \A i \in 1 .. n : i # a => PartsAt(s[i])' = PartsAt(s[i])
    BY <1>19 DEF PartsAt
  <2>2. PartsAt(t) = {v[k] : k \in DOMAIN v}
    BY DEF PartsAt, Range, v
  <2>3. PartsAt(t)' = {file'[t].parts[k] : k \in DOMAIN v}
    BY <1>19 DEF PartsAt, Range
  <2>4. g \in DOMAIN v /\ v[g] = old
    BY <1>1, <1>6 DEF v
  <2> QED
    BY <1>16, <1>19, <2>1, <2>2, <2>3, <2>4
<1>21. \A q \in HeldBy(s)' : InUse(q)
  <2> SUFFICES ASSUME NEW q, q \in HeldBy(s)'
               PROVE  InUse(q)
    OBVIOUS
  <2>1. PICK i \in DOMAIN s : q = s[i] \/ q \in PartsAt(s[i])'
    BY HeldIs
  <2>2. CASE q = s[i]
    BY <1>10, <1>17, <2>2
  <2>3. CASE i # a /\ q \in PartsAt(s[i])'
    BY <1>10, <1>17, <1>20, <2>3
  <2>4. CASE i = a /\ q \in PartsAt(s[i])'
    <3>1. q = l \/ (q \in PartsAt(t) /\ q # old)
      BY <1>11, <1>20, <2>4
    <3> QED
      BY <1>6, <1>10, <1>11, <1>16, <3>1
  <2> QED
    BY <1>10, <2>1, <2>2, <2>3, <2>4
<1>22. WholeParts(file[t].parts)'
  <2>1. PICK w : w = file'[t].parts
    OBVIOUS
  <2>2. DOMAIN w = DOMAIN v /\ \A k \in DOMAIN v : w[k] = IF k = g THEN l ELSE v[k]
    BY <1>19, <2>1
  <2>3. \A k \in DOMAIN v : InUse(w[k]) /\ file[w[k]].holds = file[v[k]].holds
    <3> TAKE k \in DOMAIN v
    <3>1. CASE k = g
      BY <1>1, <1>6, <2>2, <3>1 DEF v
    <3>2. CASE k # g
      BY <1>18, <2>2, <3>2
    <3> QED
      BY <3>1, <3>2
  <2>4. \A k \in DOMAIN v : w[k] \in DOMAIN file' /\ file'[w[k]].holds = file[v[k]].holds
    BY <1>14, <1>15, <2>3 DEF InUse
  <2>5. \A k, j \in DOMAIN v : w[k] = w[j] => k = j
    <3>1. \A k, j \in DOMAIN v : v[k] = v[j] => k = j
      BY <1>12 DEF WholeParts
    <3>2. \A k \in DOMAIN v : v[k] = l => k = g
      BY <1>5 DEF v
    <3> QED
      BY <2>2, <3>1, <3>2
  <2>6. Held(w)' = Held(v)
    BY <2>2, <2>4 DEF Held
  <2>7. Held(w)' \in Layouts[kind]'
    BY <1>2, <1>12, <2>6 DEF WholeParts, Layouts
  <2>8. WholeParts(w)'
    BY <2>2, <2>4, <2>5, <2>7 DEF WholeParts
  <2> QED
    BY <2>1, <2>8
<1>23. Forwards(s)'
  <2>1. ASSUME NEW i \in 1 .. n
        PROVE  WholeParts(file[s[i]].parts)'
    <3>1. CASE i = a
      BY <1>11, <1>22, <3>1
    <3>2. CASE i # a
      <4>1. \A q \in PartsAt(s[i]) : q \in DOMAIN file' /\ file'[q].holds = file[q].holds
        BY <1>14, <1>15, <1>17, <3>2 DEF InUse
      <4> QED
        BY <1>2, <1>10, <1>19, <3>2, <4>1, PartsStay
    <3> QED
      BY <3>1, <3>2
  <2>2. ASSUME NEW i \in 1 .. n, NEW j \in 1 .. n, NEW q \in PartsAt(s[i])', q \in PartsAt(s[j])'
        PROVE  i = j
    <3>1. \A x, y \in 1 .. n : \A r \in PartsAt(s[x]) : r \in PartsAt(s[y]) => x = y
      BY <1>10 DEF Forwards
    <3>2. \A x \in 1 .. n : \A r \in PartsAt(s[x])' : r \in PartsAt(s[x]) \/ (x = a /\ r = l)
      BY <1>11, <1>20
    <3>3. q \in PartsAt(s[i]) \/ (i = a /\ q = l)
      BY <3>2
    <3>4. q \in PartsAt(s[j]) \/ (j = a /\ q = l)
      BY <2>2, <3>2
    <3>5. CASE q = l
      BY <1>12, <3>3, <3>4, <3>5
    <3>6. CASE q # l
      BY <3>1, <3>3, <3>4, <3>6
    <3> QED
      BY <3>5, <3>6
  <2>3. \A i \in 1 .. n : /\ s[i] \in DOMAIN file' /\ file'[s[i]].holds = kind'
                          /\ file'[s[i]].next = AtPos(s, i + 1)
    BY <1>2, <1>10, <1>19 DEF Forwards
  <2>4. \A i, j \in 1 .. n : s[i] = s[j] => i = j
    BY <1>10 DEF Forwards
  <2> QED
    BY <1>10, <2>1, <2>2, <2>3, <2>4 DEF Forwards
<1>24. InMemory' /\ InMemory
  BY <1>2 DEF ListKept, InMemory
<1>25. Backwards(s)' /\ MemoryEnds(s, m)'
  <2>1. Backwards(s) /\ MemoryEnds(s, m)
    BY DEF ListKept
  <2> QED
    BY <1>2, <1>7, <1>9, <1>10, <1>19, <2>1, SameBackwards
<1>26. FileEnds(s, m)'
  BY <1>2, <1>7, <1>9 DEF FileEnds
<1>27. UsedBy(s)' /\ Fresh(s)'
  BY <1>2, <1>9, <1>15, <1>21 DEF UsedBy, Fresh, Inserted, Exchanged, Released
<1>28. Plan(s)'
  <2>1. <<>> \in Seq(Range(<<>>))
    OBVIOUS
  <2> QED
    BY <1>8, <2>1 DEF Plan
<1>29. Keeps(s, Known(m))'
  BY <1>2, <1>7, <1>9 DEF ListKept, Keeps, Known
<1>30. Leaks(s, m)'
  <2>1. ASSUME NEW q, q \in Lost(s)'
        PROVE  q \in Lost(s)
    <3>1. q \in Used /\ q \notin HeldBy(s)' /\ InUse(q)
      BY <1>15, <2>1 DEF Lost, Used
    <3>2. q # l
      <4>1. a \in DOMAIN s /\ l \in PartsAt(s[a])'
        BY <1>10, <1>11, <1>20
      <4> QED
        BY <3>1, <4>1, HeldIs
    <3>3. q \notin HeldBy(s)
      <4> SUFFICES ASSUME q \in HeldBy(s)
                   PROVE  FALSE
        OBVIOUS
      <4>1. PICK i \in 1 .. n : q = s[i] \/ q \in PartsAt(s[i])
        BY <1>10, HeldIs
      <4>2. s[i] \in HeldBy(s)' /\ \A x \in PartsAt(s[i])' : x \in HeldBy(s)'
        BY <1>10, HeldAre
      <4>3. i = a /\ q = old
        BY <1>11, <1>20, <3>1, <4>1, <4>2
      <4>4. old \in {old} \ {l}
        BY <3>2, <4>3
      <4> QED
        BY <1>7, <3>1, <4>3, <4>4 DEF ListKept, UsedBy
    <3> QED
      BY <1>7, <3>1, <3>2, <3>3 DEF Lost
  <2>2. Lost(s)' \subseteq Lost(s)
    BY <2>1
  <2> QED
    BY <1>2, <1>10, <1>15, <1>24, <2>2, LostShrinks DEF ListKept, InMemory, n
<1> QED
  BY <1>15, <1>23, <1>24, <1>25, <1>26, <1>27, <1>28, <1>29, <1>30 DEF ListKept

\* Nothing was given back that the list leads to, outside of the windows, and
\* the query has the blocks of one entity at most.
LEMMA OutsideWindow ==
    ASSUME NEW s, NEW m, ListKept(s, m), writes # <<>>, ~Window
    PROVE  /\ GivenBack = {} /\ ~Running("close_prev")
           /\ ~Created => disk = mem
           /\ IsFiniteSet(InHand) /\ Cardinality(InHand) <= MostBlocks[kind]
<1>1. kind \in EntityKinds /\ MostBlocks[kind] \in Nat /\ InFile
  BY KeptFacts DEF ListKept
<1>2. GivenBack = {} /\ ~Running("close_prev")
  <2>1. CASE Running("free") /\ kind = "node"
    <3>1. nth <= 1 \/ ~(nth > 1)
      BY <2>1 DEF Window
    <3>2. Removing(s)
      BY <2>1, PlanNow DEF Running
    <3>3. PICK t : t = Target
      OBVIOUS
    <3>4. file[t].parts \in Seq(Ptr) /\ WholeParts(file[t].parts)
      BY <2>1, <3>2, <3>3, KeptFacts DEF Removing, Running, Range
    <3>5. Len(BlocksToFree(t)) \in Nat
      BY <1>1, <3>4, ToFreeFacts
    <3>6. nth \in 1 .. Len(BlocksToFree(t))
      BY <2>1, <3>3 DEF ListKept, Fresh, Released
    <3>7. nth = 1
      BY <2>1, <3>5, <3>6 DEF Window
    <3>8. 1 .. nth - 1 = {}
      BY <3>7
    <3>9. {BlocksToFree(Target)[i] : i \in 1 .. nth - 1} = {}
      BY <3>8
    <3> QED
      BY <2>1, <3>9 DEF GivenBack, Running
  <2>2. CASE ~(Running("free") /\ kind = "node")
    BY <2>2 DEF Window, GivenBack
  <2>3. ~Running("close_prev")
    BY DEF Window
  <2> QED
    BY <2>1, <2>2, <2>3
<1>3. ~Created => disk = mem
  <2>1. CASE Target # Null
    BY <2>1 DEF Window
  <2>2. CASE Target = Null
    <3>1. ~Deletion
      BY <2>2, PlanNow DEF Insertion, Change, Removing
    <3> QED
      BY <3>1 DEF ListKept, FileEnds
  <2> QED
    BY <2>1, <2>2
<1>4. IsFiniteSet(InHand) /\ Cardinality(InHand) <= MostBlocks[kind]
  <2>1. CASE (Running("parts") /\ Target = Null) \/ Running("entity")
    <3>1. InHand = Range(made) /\ Making
      <4>1. Running("parts") \/ Running("entity")
        BY <2>1
      <4> QED
        BY <4>1 DEF InHand, ListKept, Fresh, Inserted, Running
    <3>2. layout \in Layouts[kind]
      <4>1. Target = Null
        BY <2>1, PlanNow DEF Running, Insertion, DeleteOps
      <4> QED
        BY <2>1, <4>1 DEF ListKept, Fresh, Inserted
    <3>3. Len(layout) \in Nat /\ Len(layout) + 1 <= MostBlocks[kind]
      BY <1>1, <3>2, LayoutFacts, Zenon
    <3>4. made \in Seq(Ptr) /\ Len(made) \in Nat /\ Len(made) <= Len(layout)
      BY <3>1 DEF Making
    <3>5. IsFiniteSet(Range(made)) /\ Cardinality(Range(made)) <= Len(made) /\ Cardinality(Range(made)) \in Nat
      BY <3>4, RangeSmall
    <3> QED
      BY <1>1, <3>1, <3>3, <3>4, <3>5
  <2>2. CASE Running("chain")
    <3>1. PICK l : l = latest
      OBVIOUS
    <3>2. InHand = {l} \union PartsAt(l)
      BY <2>2, <3>1 DEF InHand, Running
    <3>3. WholeParts(file[l].parts) /\ l \in DOMAIN file
      BY <2>2, <3>1 DEF ListKept, Fresh, Inserted, InUse
    <3>4. file[l].parts \in Seq(Ptr)
      BY <1>1, <3>3, FileFields
    <3> QED
      BY <1>1, <3>2, <3>3, <3>4, PartsFacts DEF PartsAt
  <2>3. CASE Running("free") /\ kind = "link"
    <3>1. PICK l : l = Target
      OBVIOUS
    <3>2. InHand = {l} \union PartsAt(l)
      BY <2>3, <3>1 DEF InHand, Running
    <3>3. WholeParts(file[l].parts) /\ l \in DOMAIN file
      BY <2>3, <3>1 DEF ListKept, Fresh, Released
    <3>4. file[l].parts \in Seq(Ptr)
      BY <1>1, <3>3, FileFields
    <3> QED
      BY <1>1, <3>2, <3>3, <3>4, PartsFacts DEF PartsAt
  <2>4. CASE InHand = {}
    BY <1>1, <2>4, FS_EmptySet
  <2>5. ~Running("set_text") /\ ~(Running("parts") /\ Target # Null)
    BY DEF Window
  <2> QED
    BY <2>1, <2>2, <2>3, <2>4, <2>5 DEF InHand
<1> QED
  BY <1>2, <1>3, <1>4

LEMMA CutKept ==
    ASSUME NEW s, NEW m, ListKept(s, m), Cut, ~hurt'
    PROVE  \E t \in Seq(Ptr), k \in Nat : ListKept(t, k)'
<1> DEFINE n == Len(s)
<1>1. /\ writes # <<>> /\ ~Window /\ mem' = disk /\ writes' = <<>>
      /\ cuts' = cuts + 1 /\ file' = WithoutFree(file) /\ made' = <<>> /\ nth' = 1
      /\ UNCHANGED <<kind, disk, done>>
  BY DEF Cut, Over
<1>2. /\ GivenBack = {} /\ ~Running("close_prev")
      /\ ~Created => disk = mem
      /\ IsFiniteSet(InHand) /\ Cardinality(InHand) <= MostBlocks[kind]
  BY <1>1, OutsideWindow
<1>3. PICK X : X = InHand
  OBVIOUS
<1>4. /\ \A other : ~Running(other)'
      /\ ~Created' /\ ~Deletion' /\ GivenBack' = {} /\ InHand' = {}
      /\ \A p : ~Closing(p) /\ ~Closing(p)'
  BY <1>1, <1>2 DEF Running, Created, Deletion, GivenBack, InHand, Closing
<1>5. /\ DOMAIN s = 1 .. n /\ n \in Nat /\ m \in Nat /\ s \in Seq(Ptr)
      /\ \A i \in 1 .. n : s[i] \in Ptr
      /\ kind \in EntityKinds /\ MostBlocks[kind] \in Nat
  BY KeptFacts
<1>6. /\ InFile' /\ Used' = Used
      /\ \A p : InUse(p)' <=> InUse(p)
      /\ \A i \in DOMAIN s : file'[s[i]] = file[s[i]]
      /\ Forwards(s)' /\ HeldBy(s)' = HeldBy(s) /\ \A p \in HeldBy(s) : InUse(p)
  BY <1>1, <1>2, ListStays
<1>7. InMemory' /\ InMemory /\ InFile /\ cuts \in Nat /\ cuts' \in Nat
  BY <1>1 DEF ListKept, InMemory
<1>8. \A t, k : FileEnds(t, k)' /\ Fresh(t)' /\ Plan(t)'
  <2>1. <<>> \in Seq(Range(<<>>))
    OBVIOUS
  <2>2. disk' = mem'
    BY <1>1
  <2> QED
    BY <1>1, <1>4, <2>1, <2>2 DEF FileEnds, Fresh, Inserted, Exchanged, Released, Plan
<1>9. UsedBy(s)'
  BY <1>4, <1>6 DEF UsedBy
<1>10. Backwards(s)'
  <2>1. Backwards(s)
    BY DEF ListKept
  <2> QED
    BY <1>4, <1>6, <2>1 DEF Backwards
<1>11. Keeps(s, Known(m)) /\ MemoryEnds(s, m) /\ Leaks(s, m)
  BY DEF ListKept
<1>12. CASE ~Created
  <2>1. MemoryEnds(s, m)'
    BY <1>1, <1>2, <1>4, <1>11, <1>12 DEF MemoryEnds
  <2>2. Keeps(s, Known(m))'
    BY <1>1, <1>4, <1>11, <1>12 DEF Keeps, Known
  <2>3. Lost(s)' \subseteq Lost(s) \union X
    BY <1>3, <1>4, <1>6 DEF Lost
  <2>4. Leaks(s, m)'
    <3>1. (Len(s) - m) - cuts' < (Len(s) - m) - cuts
      BY <1>1, <1>5, <1>7
    <3>2. m \in Int /\ Len(s) \in Int
      BY <1>5
    <3> QED
      BY <1>1, <1>2, <1>3, <1>5, <1>6, <1>7, <1>11, <2>3, <3>1, <3>2, LostGrows
  <2>5. ListKept(s, m)'
    BY <1>6, <1>7, <1>8, <1>9, <1>10, <2>1, <2>2, <2>4 DEF ListKept
  <2> QED
    BY <1>5, <2>5
<1>13. CASE Created
  <2>1. /\ m = n /\ m > 0 /\ disk.first = IF m = 1 THEN Null ELSE s[1]
        /\ disk.last = AtPos(s, m - 1)
    BY <1>13 DEF ListKept, FileEnds
  <2>2. Keeps(s, m - 1)
    BY <1>11, <1>13 DEF Known
  <2>3. InHand = {}
    BY <1>13 DEF Created, Running, InHand
  <2>4. CASE m > 1
    <3> DEFINE k == m - 1
    <3>1. MemoryEnds(s, k)'
      <4>1. mem'.first = AtPos(s, 1) /\ mem'.last = AtPos(s, k)
        BY <1>1, <1>5, <2>1, <2>4 DEF AtPos
      <4>2. k \in Nat /\ k = Len(s) - 1 /\ k # 0
        BY <1>5, <2>1, <2>4
      <4> QED
        BY <1>4, <4>1, <4>2 DEF MemoryEnds
    <3>2. Keeps(s, Known(k))'
      BY <1>1, <1>4, <2>2 DEF Keeps, Known
    <3>3. Leaks(s, k)'
      <4>1. Lost(s)' \subseteq Lost(s)
        BY <1>4, <1>6, <2>3 DEF Lost
      <4>2. (Len(s) - k) - cuts' <= (Len(s) - m) - cuts
        BY <1>1, <1>5, <1>7
      <4>3. m \in Int /\ k \in Int /\ Len(s) \in Int
        BY <1>5
      <4> HIDE DEF k
      <4> QED
        BY <1>1, <1>5, <1>6, <1>7, <1>11, <4>1, <4>2, <4>3, LostNoMore
    <3>4. ListKept(s, k)'
      BY <1>6, <1>7, <1>8, <1>9, <1>10, <3>1, <3>2, <3>3 DEF ListKept
    <3>5. k \in Nat
      BY <1>5, <2>4
    <3> QED
      BY <1>5, <3>4, <3>5
  <2>5. CASE m = 1
    <3>1. PICK e : e = <<>>
      OBVIOUS
    <3>2. e \in Seq(Ptr) /\ Len(e) = 0 /\ DOMAIN e = {} /\ e = <<>>
      BY <3>1
    <3>3. Forwards(e)' /\ Backwards(e)'
      BY <3>2 DEF Forwards, Backwards
    <3>4. \A q : q \notin HeldBy(e)'
      BY <3>2, HeldIs
    <3>5. UsedBy(e)'
      BY <3>4 DEF UsedBy
    <3>6. MemoryEnds(e, 0)'
      <4>1. disk.last = Null
        BY <1>5, <2>1, <2>5 DEF AtPos
      <4>2. disk.first = Null
        BY <2>1, <2>5
      <4> QED
        BY <1>1, <3>2, <4>1, <4>2 DEF MemoryEnds, AtPos
    <3>7. Keeps(e, Known(0))'
      <4>1. Known(0)' = 0
        BY <1>4 DEF Known
      <4>2. done' = done /\ DOMAIN done = {} /\ done \in Seq(Ptr)
        BY <1>1, <2>2, <2>5 DEF Keeps
      <4> QED
        BY <4>1, <4>2 DEF Keeps
    <3>8. Leaks(e, 0)'
      <4>1. PICK x : x = s[1]
        OBVIOUS
      <4> DEFINE Y == {x} \union PartsAt(x)
      <4>2. HeldBy(s) \subseteq Y
        <5> SUFFICES ASSUME NEW q, q \in HeldBy(s)
                     PROVE  q \in Y
          OBVIOUS
        <5>1. PICK i \in DOMAIN s : q = s[i] \/ q \in PartsAt(s[i])
          BY HeldIs
        <5>2. i = 1
          BY <1>5, <2>1, <2>5
        <5> QED
          BY <4>1, <5>1, <5>2
      <4>3. IsFiniteSet(Y) /\ Cardinality(Y) <= MostBlocks[kind]
        <5>1. 1 \in DOMAIN s
          BY <1>5, <2>1, <2>5
        <5>2. file[x].parts \in Seq(Ptr) /\ WholeParts(file[x].parts)
          BY <4>1, <5>1, KeptFacts
        <5> QED
          BY <1>5, <5>2, PartsFacts DEF PartsAt
      <4> HIDE DEF Y
      <4>4. Lost(e)' \subseteq Lost(s) \union Y
        BY <1>6, <2>3, <4>2 DEF Lost
      <4>5. (Len(e) - 0) - cuts' < (Len(s) - m) - cuts
        BY <1>1, <1>5, <1>7, <2>1, <3>2
      <4>6. m \in Int /\ Len(s) \in Int /\ Len(e) \in Int /\ 0 \in Int
        BY <1>5, <3>2
      <4> QED
        BY <1>1, <1>5, <1>6, <1>7, <1>11, <4>3, <4>4, <4>5, <4>6, LostGrows
    <3>9. ListKept(e, 0)'
      BY <1>6, <1>7, <1>8, <3>3, <3>5, <3>6, <3>7, <3>8 DEF ListKept
    <3> QED
      BY <3>2, <3>9
  <2> QED
    BY <1>5, <2>1, <2>4, <2>5
<1> QED
  BY <1>12, <1>13

-----------------------------------------------------------------------------
(* A block is given back *)

\* What the list leads to is the same after a block was given back, and so
\* are the blocks of every entity.
LEMMA FreedList ==
    ASSUME NEW s, NEW m, ListKept(s, m), NEW p, file' = Freed(p), kind' = kind
    PROVE  /\ InFile' /\ DOMAIN file' = DOMAIN file
           /\ \A r \in DOMAIN file :
                 /\ file'[r].holds = file[r].holds /\ file'[r].parts = file[r].parts
                 /\ file'[r].prev = file[r].prev /\ file'[r].next = file[r].next
           /\ \A q : InUse(q)' <=> InUse(q) /\ q # p
           /\ Forwards(s)' /\ HeldBy(s)' = HeldBy(s)
           /\ \A t \in DOMAIN file : WholeParts(file[t].parts) =>
                 /\ WholeParts(file[t].parts)'
                 /\ BlocksToFree(t)' = BlocksToFree(t) /\ PartsAt(t)' = PartsAt(t)
<1>1. InFile /\ Forwards(s)
  BY DEF ListKept
<1>2. /\ DOMAIN file' = DOMAIN file
      /\ \A r \in DOMAIN file :
            /\ file'[r] \in Blocks
            /\ file'[r].holds = file[r].holds /\ file'[r].parts = file[r].parts
            /\ file'[r].prev = file[r].prev /\ file'[r].next = file[r].next
            /\ ~file'[r].free <=> r # p /\ ~file[r].free
  BY <1>1, FreeSet
<1>3. InFile'
  BY <1>1, <1>2 DEF InFile
<1>4. \A q : InUse(q)' <=> InUse(q) /\ q # p
  BY <1>2 DEF InUse
<1>5. Forwards(s)' /\ HeldBy(s)' = HeldBy(s)
  <2>1. ASSUME NEW i \in DOMAIN s
        PROVE  /\ s[i] \in DOMAIN file' /\ file'[s[i]].holds = file[s[i]].holds
               /\ file'[s[i]].next = file[s[i]].next /\ file'[s[i]].parts = file[s[i]].parts
               /\ \A q \in PartsAt(s[i]) : q \in DOMAIN file' /\ file'[q].holds = file[q].holds
    <3>1. s[i] \in DOMAIN file /\ s[i] \in HeldBy(s) /\ \A q \in PartsAt(s[i]) : q \in DOMAIN file
      BY KeptFacts
    <3> QED
      BY <1>2, <3>1
  <2> QED
    BY <1>1, <2>1, SameForwards
<1>6. ASSUME NEW t \in DOMAIN file, WholeParts(file[t].parts)
      PROVE  /\ WholeParts(file[t].parts)'
             /\ BlocksToFree(t)' = BlocksToFree(t) /\ PartsAt(t)' = PartsAt(t)
  <2>1. \A q \in PartsAt(t) : q \in DOMAIN file' /\ file'[q].holds = file[q].holds
    BY <1>2, <1>6 DEF WholeParts, PartsAt, Range
  <2>2. file'[t].parts = file[t].parts
    BY <1>2
  <2> QED
    BY <1>6, <2>1, <2>2, PartsStay, ToFreeSame
<1> QED
  BY <1>2, <1>3, <1>4, <1>5, <1>6

\* The list is what it was, and what the query has in hand besides, when the
\* plan says that the block is given back.
LEMMA GivingBackKept ==
    ASSUME NEW s, NEW m, ListKept(s, m), NEW p, file' = Freed(p),
           UNCHANGED <<kind, disk, mem, latest, done, cuts>>,
           ~Running("close_prev"), ~Running("close_prev")', ~Created, ~Created',
           Deletion \/ disk = mem, Deletion => Deletion' \/ disk = mem,
           Plan(s)', Fresh(s)',
           \A q \in HeldBy(s) : q \in GivenBack' <=> q \in GivenBack \/ q = p,
           \A q \in InHand : InUse(q) => q = p \/ q \in InHand'
    PROVE  ListKept(s, m)'
<1>1. InFile /\ Forwards(s) /\ Backwards(s) /\ MemoryEnds(s, m) /\ UsedBy(s) /\ Leaks(s, m) /\ InMemory
  BY DEF ListKept
<1>2. /\ InFile'
      /\ \A r \in DOMAIN file : file'[r].prev = file[r].prev
      /\ \A q : InUse(q)' <=> InUse(q) /\ q # p
      /\ Forwards(s)' /\ HeldBy(s)' = HeldBy(s)
  BY FreedList
<1>3. InMemory'
  BY <1>1 DEF InMemory
<1>4. Backwards(s)' /\ MemoryEnds(s, m)'
  <2>1. \A i \in DOMAIN s : file'[s[i]].prev = file[s[i]].prev
    BY <1>1, <1>2 DEF Forwards
  <2> QED
    BY <1>1, <2>1, SameBackwards
<1>5. FileEnds(s, m)'
  <2>1. ~Deletion' => disk = mem
    OBVIOUS
  <2> QED
    BY <2>1 DEF FileEnds
<1>6. UsedBy(s)'
  BY <1>1, <1>2 DEF UsedBy
<1>7. Keeps(s, Known(m))'
  BY DEF ListKept, Keeps, Known
<1>8. Leaks(s, m)'
  <2>1. ASSUME NEW q, q \in Lost(s)'
        PROVE  q \in Lost(s)
    <3>1. q \in Ptr /\ InUse(q) /\ q # p /\ q \notin HeldBy(s) /\ q \notin InHand'
      BY <1>2, <2>1 DEF Lost, Used
    <3>2. q \notin InHand
      BY <3>1
    <3> QED
      BY <3>1, <3>2 DEF Lost, Used
  <2>2. Lost(s)' \subseteq Lost(s)
    BY <2>1
  <2>3. m \in Int /\ Len(s) \in Int /\ Len(s) - m <= Len(s) - m /\ MostBlocks[kind] \in Nat
    BY KeptFacts
  <2>4. cuts \in Nat /\ cuts' = cuts
    BY <1>1 DEF InMemory
  <2> QED
    BY <1>1, <1>2, <2>2, <2>3, <2>4, LostShrinks
<1> QED
  BY <1>2, <1>3, <1>4, <1>5, <1>6, <1>7, <1>8 DEF ListKept

\* The plan of a deletion goes on, and removes from the same list.
LEMMA DeleteGoesOn ==
    ASSUME NEW s, NEW m, ListKept(s, m), writes # <<>>, Removing(s), ~Running("header"),
           writes' = Tail(writes), kind' = kind, done' = done
    PROVE  /\ Deletes(s)' /\ Plan(s)' /\ writes' # <<>> /\ Deletion' /\ Target' # Null
           /\ kind = "node" =>
                 /\ Running("free") => Ahead("close_next", Target)'
                 /\ Running("close_next") => Ahead("close_prev", Target)'
           /\ kind = "link" =>
                 /\ Running("close_next") => Ahead("close_prev", Target)'
                 /\ Running("free") => Head(writes').op \in {"close_next", "header"}
           /\ (kind = "node" /\ Head(writes).op # "close_prev") \/ (kind = "link" /\ Head(writes).op # "free")
                 => Target' = Target
<1>1. writes \in Seq(Range(writes)) /\ kind \in EntityKinds /\ Deletes(s)
  BY KeptFacts DEF Removing
<1>2. Later(s)
  BY <1>1 DEF Deletes, Later
<1>3. /\ Deletes(s)' /\ writes' \in Seq(Range(writes'))
      /\ Running("header") <=> writes' = <<>>
      /\ writes' # <<>> => Deletion'
      /\ kind = "node" =>
            /\ Running("free") => Ahead("close_next", Target)'
            /\ Running("close_next") => Ahead("close_prev", Target)'
      /\ kind = "link" =>
            /\ Running("close_next") => Ahead("close_prev", Target)'
            /\ Running("free") => Head(writes').op \in {"close_next", "header"}
      /\ Head(writes).op # Deleting[kind][3] /\ Head(writes).op # "header" => Target' = Target
  BY <1>1, <1>2, DeleteStep
<1>4. Target' # Null
  <2>1. Deletes(s)' /\ writes' \in Seq(Range(writes')) /\ writes' # <<>>
    BY <1>3
  <2>2. Len(writes') > 0 /\ DOMAIN writes' = 1 .. Len(writes') /\ Len(writes') \in Nat
    BY <2>1, EmptySeq
  <2>3. Head(writes') = writes'[1] /\ 1 \in DOMAIN writes'
    BY <2>1, <2>2, SeqStart
  <2>4. writes'[1].at \in Ptr
    BY <2>1, <2>3 DEF Deletes
  <2> QED
    BY <2>3, <2>4, EntityListAssumption DEF Target
<1> QED
  BY <1>3, <1>4, DeletingOps DEF Plan, Running

\* A text is given back that is replaced.
LEMMA FreeTextKept ==
    ASSUME NEW s, NEW m, ListKept(s, m), FreeText
    PROVE  ListKept(s, m)'
<1>1. PICK t, g, x : t = Target /\ g = nth /\ x = file[t].parts[g]
  OBVIOUS
<1>2. /\ writes # <<>> /\ Head(writes).op = "free_text" /\ file' = Freed(x) /\ writes' = Tail(writes)
      /\ UNCHANGED <<kind, disk, mem, layout, made, latest, nth, done, cuts>>
  BY <1>1 DEF FreeText, Running, running
<1>3. \A other : Running(other) <=> other = "free_text"
  BY <1>2 DEF Running
<1>4. ~Created /\ GivenBack = {} /\ InHand = {} /\ ~Running("close_prev")
  BY <1>3 DEF Created, GivenBack, InHand
<1>5. t \in Range(s) /\ t # Null /\ ~Deletion /\ Updates(s) /\ writes \in Seq(Range(writes))
  BY <1>1, <1>2, PlanNow, KeptFacts DEF Change, DeleteOps
<1>6. /\ Plan(s)' /\ Ahead("parts", t)' /\ Target' = t
      /\ \A other : Running(other)' <=> other = "parts"
  <2>1. Updates(s)' /\ writes' \in Seq(Range(writes')) /\ Ahead("parts", Target)' /\ Target' = Target
    <3>1. Updates(s)' /\ writes' \in Seq(Range(writes')) /\ Ahead("parts", Target)'
      BY <1>2, <1>3, <1>5, UpdateStep
    <3>2. writes' # <<>>
      BY <3>1 DEF Ahead
    <3> QED
      BY <1>2, <1>5, <3>1, <3>2, UpdateStep
  <2> QED
    BY <1>1, <2>1 DEF Plan, Ahead, Running
<1>7. ~Deletion' /\ ~Created'
  <2>1. Updates(s)' /\ writes' \in Seq(Range(writes')) /\ writes' # <<>>
    BY <1>2, <1>5, <1>6, UpdateStep DEF Ahead
  <2> QED
    BY <1>6, <2>1, AfterUpdate DEF Created
<1>8. /\ disk = mem /\ InFile
      /\ Replacing /\ made = <<>>
      /\ t \in DOMAIN file /\ WholeParts(file[t].parts)
  <2>1. t \in DOMAIN file /\ WholeParts(file[t].parts)
    BY <1>5, KeptFacts DEF Range
  <2> QED
    BY <1>3, <1>4, <1>5, <2>1 DEF ListKept, FileEnds, Fresh, Exchanged
<1>9. x \in DOMAIN file /\ g \in DOMAIN file[t].parts /\ file[x].holds = "text" /\ layout = <<"text">>
  BY <1>1, <1>8 DEF Replacing, Replaced, WholeParts
<1>10. file'[t].parts = file[t].parts /\ file'[x].holds = "text"
  BY <1>2, <1>8, <1>9, FreedList
<1>11. GivenBack' = {x} /\ InHand' = {} /\ ~Running("close_prev")'
  <2>1. Replaced' = x
    BY <1>1, <1>2, <1>6, <1>10 DEF Replaced
  <2>2. Range(made') = {}
    BY <1>2, <1>8 DEF Range
  <2> QED
    BY <1>1, <1>5, <1>6, <2>1, <2>2 DEF GivenBack, InHand
<1>12. Fresh(s)'
  <2>1. Making' /\ Len(made') < Len(layout')
    BY <1>2, <1>8, <1>9 DEF Making, PartKinds
  <2>2. Replacing'
    BY <1>1, <1>2, <1>6, <1>9, <1>10 DEF Replacing, Replaced
  <2>3. made' = <<>> /\ Target' # Null /\ writes' # <<>>
    BY <1>2, <1>5, <1>6, <1>8 DEF Ahead
  <2> QED
    BY <1>6, <1>7, <2>1, <2>2, <2>3 DEF Fresh, Inserted, Exchanged, Released
<1> QED
  BY <1>2, <1>4, <1>5, <1>6, <1>7, <1>8, <1>11, <1>12, GivingBackKept

\* One of the blocks of a node that is in the list is given back.
LEMMA FreeNodeKept ==
    ASSUME NEW s, NEW m, ListKept(s, m), Free, kind = "node"
    PROVE  ListKept(s, m)'
<1>1. PICK t, B, g : t = Target /\ B = BlocksToFree(t) /\ g = nth
  OBVIOUS
<1>2. /\ writes # <<>> /\ Head(writes).op = "free" /\ file' = Freed(B[g])
      /\ IF g < Len(B) THEN nth' = g + 1 /\ writes' = writes ELSE nth' = 1 /\ writes' = Tail(writes)
      /\ UNCHANGED <<kind, disk, mem, layout, made, latest, done, cuts>>
  BY <1>1 DEF Free, Running
<1>3. \A other : Running(other) <=> other = "free"
  BY <1>2 DEF Running
<1>4. ~Created /\ InHand = {} /\ ~Running("close_prev") /\ GivenBack = {B[i] : i \in 1 .. g - 1}
  BY <1>1, <1>3 DEF Created, GivenBack, InHand
<1>5. Removing(s) /\ Deletion /\ t \in Range(s) /\ t # Null
  <2>1. Removing(s)
    BY <1>2, PlanNow
  <2> QED
    BY <1>1, <1>2, <2>1 DEF Removing
<1>6. t \in DOMAIN file /\ WholeParts(file[t].parts) /\ file[t].parts \in Seq(Ptr)
  <2>1. PICK i \in DOMAIN s : t = s[i]
    BY <1>5 DEF Range
  <2> QED
    BY <2>1, KeptFacts
<1>7. /\ Len(B) \in Nat /\ g \in 1 .. Len(B)
      /\ {B[i] : i \in 1 .. Len(B)} = {t} \union PartsAt(t)
  <2>1. g \in 1 .. Len(B) /\ kind \in EntityKinds
    BY <1>1, <1>3, KeptFacts DEF ListKept, Fresh, Released
  <2> QED
    BY <1>1, <1>6, <2>1, ToFreeFacts
<1>8. BlocksToFree(t)' = B /\ PartsAt(t)' = PartsAt(t)
  BY <1>1, <1>2, <1>6, FreedList
<1>9. \A q : q \in {B[i] : i \in 1 .. g} <=> q \in {B[i] : i \in 1 .. g - 1} \/ q = B[g]
  <2>1. \A i : i \in 1 .. g <=> i \in 1 .. g - 1 \/ i = g
    BY <1>7
  <2> QED
    BY <2>1
<1>10. CASE g < Len(B)
  <2>1. writes' = writes /\ nth' = g + 1
    BY <1>2, <1>10
  <2>2. /\ \A other : Running(other)' <=> other = "free"
        /\ Target' = t /\ Deletion' /\ writes' # <<>> /\ Plan(s)'
    <3>1. Plan(s)'
      BY <1>2, <2>1, PlanStays DEF ListKept
    <3> QED
      BY <1>1, <1>2, <1>3, <1>5, <2>1, <3>1 DEF Running, Deletion, Target
  <2>3. ~Created' /\ InHand' = {} /\ ~Running("close_prev")' /\ GivenBack' = {B[i] : i \in 1 .. g}
    <3>1. (g + 1) - 1 = g
      BY <1>7
    <3> QED
      BY <1>2, <1>8, <2>1, <2>2, <3>1 DEF Created, GivenBack, InHand
  <2>4. Fresh(s)'
    <3>1. nth' \in 1 .. Len(BlocksToFree(t)')
      BY <1>7, <1>8, <1>10, <2>1
    <3> QED
      BY <1>2, <2>2, <3>1 DEF Fresh, Inserted, Exchanged, Released
  <2> QED
    BY <1>2, <1>4, <1>5, <1>9, <2>2, <2>3, <2>4, GivingBackKept
<1>11. CASE ~(g < Len(B))
  <2>1. writes' = Tail(writes) /\ nth' = 1 /\ g = Len(B)
    BY <1>2, <1>7, <1>11
  <2>2. /\ Plan(s)' /\ Deletion' /\ writes' # <<>> /\ Target' = t
        /\ \A other : Running(other)' <=> other = "close_next"
    <3>1. Plan(s)' /\ Deletion' /\ writes' # <<>> /\ Target' = Target /\ Ahead("close_next", Target)'
      BY <1>2, <1>3, <1>5, <2>1, DeleteGoesOn
    <3> QED
      BY <1>1, <3>1 DEF Ahead, Running
  <2>3. ~Created' /\ InHand' = {} /\ ~Running("close_prev")' /\ GivenBack' = {B[i] : i \in 1 .. g}
    <3>1. ~Created' /\ InHand' = {} /\ ~Running("close_prev")'
      BY <1>2, <2>2 DEF Created, InHand
    <3>2. PartsAt(Target)' = PartsAt(t)'
      BY <2>2 DEF PartsAt
    <3>3. GivenBack' = {t} \union PartsAt(t)
      BY <1>2, <1>8, <2>2, <3>2 DEF GivenBack
    <3> QED
      BY <1>7, <2>1, <3>1, <3>3
  <2>4. Fresh(s)'
    BY <2>1, <2>2 DEF Fresh, Inserted, Exchanged, Released
  <2> QED
    BY <1>2, <1>4, <1>5, <1>9, <2>2, <2>3, <2>4, GivingBackKept
<1> QED
  BY <1>10, <1>11

\* One of the blocks of a link that has left the list is given back.
LEMMA FreeLinkKept ==
    ASSUME NEW s, NEW m, ListKept(s, m), Free, kind = "link"
    PROVE  ListKept(s, m)'
<1>1. PICK t, B, g : t = Target /\ B = BlocksToFree(t) /\ g = nth
  OBVIOUS
<1>2. /\ writes # <<>> /\ Head(writes).op = "free" /\ file' = Freed(B[g])
      /\ IF g < Len(B) THEN nth' = g + 1 /\ writes' = writes ELSE nth' = 1 /\ writes' = Tail(writes)
      /\ UNCHANGED <<kind, disk, mem, layout, made, latest, done, cuts>>
  BY <1>1 DEF Free, Running
<1>3. \A other : Running(other) <=> other = "free"
  BY <1>2 DEF Running
<1>4. ~Created /\ InHand = {t} \union PartsAt(t) /\ ~Running("close_prev") /\ GivenBack = {}
  BY <1>1, <1>3 DEF Created, GivenBack, InHand
<1>5. Removing(s) /\ Deletion
  <2>1. Removing(s)
    BY <1>2, PlanNow
  <2> QED
    BY <2>1 DEF Removing
<1>6. /\ t \in DOMAIN file /\ WholeParts(file[t].parts) /\ file[t].parts \in Seq(Ptr)
      /\ t \notin HeldBy(s) /\ \A q \in PartsAt(t) : q \notin HeldBy(s)
      /\ \A i \in 1 .. g - 1 : ~InUse(B[i])
      /\ g \in 1 .. Len(B)
  <2>1. /\ t \in DOMAIN file /\ WholeParts(file[t].parts)
        /\ t \notin HeldBy(s) /\ \A q \in PartsAt(t) : q \notin HeldBy(s)
        /\ \A i \in 1 .. g - 1 : ~InUse(B[i])
        /\ g \in 1 .. Len(B)
    BY <1>1, <1>3 DEF ListKept, Fresh, Released
  <2> QED
    BY <2>1, FileFields DEF ListKept
<1>7. Len(B) \in Nat /\ {B[i] : i \in 1 .. Len(B)} = {t} \union PartsAt(t)
  <2>1. kind \in EntityKinds
    BY KeptFacts
  <2> QED
    BY <1>1, <1>6, <2>1, ToFreeFacts
<1>8. /\ BlocksToFree(t)' = B /\ PartsAt(t)' = PartsAt(t) /\ WholeParts(file[t].parts)'
      /\ DOMAIN file' = DOMAIN file /\ HeldBy(s)' = HeldBy(s)
      /\ \A q : InUse(q)' <=> InUse(q) /\ q # B[g]
  BY <1>1, <1>2, <1>6, FreedList
<1>9. B[g] \notin HeldBy(s)
  BY <1>6, <1>7
<1>10. CASE g < Len(B)
  <2>1. writes' = writes /\ nth' = g + 1
    BY <1>2, <1>10
  <2>2. /\ \A other : Running(other)' <=> other = "free"
        /\ Target' = t /\ Deletion' /\ writes' # <<>> /\ Plan(s)' /\ t # Null
    <3>1. Plan(s)'
      BY <1>2, <2>1, PlanStays DEF ListKept
    <3> QED
      BY <1>1, <1>2, <1>3, <1>5, <2>1, <3>1 DEF Running, Deletion, Removing, Target
  <2>3. ~Created' /\ InHand' = InHand /\ ~Running("close_prev")' /\ GivenBack' = {}
    <3>1. ~Created' /\ ~Running("close_prev")' /\ GivenBack' = {}
      BY <1>2, <2>2 DEF Created, GivenBack
    <3>2. PartsAt(Target)' = PartsAt(t)'
      BY <2>2 DEF PartsAt
    <3>3. InHand' = {t} \union PartsAt(t)
      BY <1>2, <1>8, <2>2, <3>2 DEF InHand
    <3> QED
      BY <1>4, <3>1, <3>3
  <2>4. Fresh(s)'
    <3>1. nth' \in 1 .. Len(BlocksToFree(t)')
      BY <1>6, <1>7, <1>8, <1>10, <2>1
    <3>2. \A i \in 1 .. nth' - 1 : ~InUse(BlocksToFree(t)[i])'
      <4>1. \A i \in 1 .. nth' - 1 : i \in 1 .. g - 1 \/ i = g
        BY <1>6, <1>7, <2>1
      <4>2. \A i \in 1 .. nth' - 1 : ~InUse(B[i])'
        BY <1>6, <1>8, <4>1
      <4> QED
        BY <1>8, <4>2
    <3>3. t \in DOMAIN file' /\ t \notin HeldBy(s)' /\ \A q \in PartsAt(t)' : q \notin HeldBy(s)'
      BY <1>6, <1>8
    <3>4. PartsAt(Target)' = PartsAt(t)' /\ BlocksToFree(Target)' = BlocksToFree(t)'
      BY <2>2 DEF PartsAt, BlocksToFree, ValueFirst, HoldsText
    <3>5. WholeParts(file[t].parts)' /\ Deletion'
      BY <1>8, <2>2
    <3>6. nth' \in 1 .. Len(BlocksToFree(Target)') /\ \A i \in 1 .. nth' - 1 : ~InUse(BlocksToFree(Target)[i])'
      BY <3>1, <3>2, <3>4
    <3>7. Released(s)'
      BY <2>2, <3>3, <3>4, <3>5, <3>6 DEF Released
    <3> QED
      BY <2>2, <3>7 DEF Fresh, Inserted, Exchanged
  <2> QED
    BY <1>2, <1>4, <1>5, <1>9, <2>2, <2>3, <2>4, GivingBackKept
<1>11. CASE ~(g < Len(B))
  <2>1. writes' = Tail(writes) /\ nth' = 1 /\ g = Len(B)
    BY <1>2, <1>6, <1>7, <1>11
  <2>2. /\ Plan(s)' /\ Deletion' /\ writes' # <<>> /\ Target' # Null
        /\ \A other : Running(other)' => other \in {"close_next", "header"}
    <3>1. Plan(s)' /\ Deletion' /\ writes' # <<>> /\ Target' # Null /\ Head(writes').op \in {"close_next", "header"}
      BY <1>2, <1>3, <1>5, <2>1, DeleteGoesOn
    <3> QED
      BY <3>1 DEF Running
  <2>3. ~Created' /\ ~Running("close_prev")' /\ GivenBack' = {}
    BY <1>2, <2>2 DEF Created, GivenBack
  <2>4. Fresh(s)'
    BY <2>1, <2>2 DEF Fresh, Inserted, Exchanged, Released
  <2>5. \A q \in InHand : InUse(q) => q = B[g]
    <3> SUFFICES ASSUME NEW q \in InHand, InUse(q)
                 PROVE  q = B[g]
      OBVIOUS
    <3>1. PICK i \in 1 .. Len(B) : q = B[i]
      BY <1>4, <1>7
    <3>2. i \in 1 .. g - 1 \/ i = g
      BY <1>6, <1>7, <2>1
    <3> QED
      BY <1>6, <3>1, <3>2
  <2> QED
    BY <1>2, <1>4, <1>5, <1>9, <2>2, <2>3, <2>4, <2>5, GivingBackKept
<1> QED
  BY <1>10, <1>11

LEMMA FreeKept ==
    ASSUME NEW s, NEW m, ListKept(s, m), Free
    PROVE  ListKept(s, m)'
<1>1. kind = "node" \/ kind = "link"
  BY KeptFacts DEF EntityKinds
<1> QED
  BY <1>1, FreeNodeKept, FreeLinkKept

-----------------------------------------------------------------------------
(* The list is closed around a block *)

LEMMA CloseNextKept ==
    ASSUME NEW s, NEW m, ListKept(s, m), CloseNext
    PROVE  ListKept(s, m)'
<1> DEFINE n == Len(s)
<1>1. PICK t, after, before : t = Target /\ after = file[t].next /\ before = file[t].prev
  OBVIOUS
<1>2. /\ writes # <<>> /\ Head(writes).op = "close_next" /\ writes' = Tail(writes)
      /\ file' = SetPrev(file, after, before)
      /\ mem' = IF mem.first = t THEN [mem EXCEPT !.first = after] ELSE mem
      /\ UNCHANGED <<kind, disk, layout, made, latest, nth, done, cuts>>
  BY <1>1 DEF CloseNext, Running, running
<1>3. \A other : Running(other) <=> other = "close_next"
  BY <1>2 DEF Running
<1>4. ~Created /\ ~Running("close_prev") /\ \A p : ~Closing(p)
  BY <1>3 DEF Created, Closing
<1>5. Removing(s) /\ t \in Range(s) /\ t # Null
  <2>1. Removing(s)
    BY <1>2, PlanNow DEF Change
  <2> QED
    BY <1>1, <1>2, <2>1 DEF Removing
<1>6. /\ Plan(s)' /\ Deletion /\ Deletion' /\ Target' = t /\ Ahead("close_prev", t)'
  <2>1. kind = "node" \/ kind = "link"
    BY KeptFacts DEF EntityKinds
  <2>2. Plan(s)' /\ Deletion' /\ Target' = Target /\ Ahead("close_prev", Target)'
    BY <1>2, <1>3, <1>5, <2>1, DeleteGoesOn
  <2> QED
    BY <1>1, <1>5, <2>2 DEF Removing, Ahead
<1>7. /\ DOMAIN s = 1 .. n /\ n \in Nat /\ m \in Nat /\ s \in Seq(Ptr)
      /\ \A i \in 1 .. n : s[i] \in DOMAIN file /\ s[i] # Null /\ s[i] \in Ptr
      /\ \A i, j \in 1 .. n : s[i] = s[j] => i = j
      /\ InFile /\ Forwards(s) /\ Backwards(s) /\ MemoryEnds(s, m) /\ InMemory
  BY KeptFacts DEF ListKept
<1> HIDE DEF n
<1>8. PICK a \in 1 .. n : t = s[a]
  BY <1>5, <1>7 DEF Range
<1>9. /\ after = AtPos(s, a + 1) /\ before = AtPos(s, a - 1)
      /\ \A i \in 1 .. n : file[s[i]].prev = AtPos(s, i - 1)
      /\ mem.first = AtPos(s, 1) /\ mem.last = AtPos(s, m)
  BY <1>1, <1>4, <1>7, <1>8 DEF Forwards, Backwards, MemoryEnds
<1>10. /\ \A other : Running(other)' <=> other = "close_prev"
       /\ \A p : Closing(p)' <=> p = t
  <2>1. \A other : Running(other)' <=> other = "close_prev"
    BY <1>6 DEF Ahead, Running
  <2> QED
    BY <1>6, <2>1 DEF Closing
<1>11. before \in Ptr \union {Null} /\ after \in Ptr \union {Null}
  BY <1>1, <1>7, <1>8, FileFields
<1>12. /\ DOMAIN file' = DOMAIN file
       /\ \A r \in DOMAIN file :
             /\ file'[r] \in Blocks
             /\ file'[r].free = file[r].free /\ file'[r].holds = file[r].holds
             /\ file'[r].parts = file[r].parts /\ file'[r].next = file[r].next
             /\ file'[r].prev = IF r = after THEN before ELSE file[r].prev
  BY <1>2, <1>7, <1>11, PrevSet
<1>13. InFile' /\ InMemory'
  <2>1. mem' \in HeaderEnds
    BY <1>2, <1>7, <1>11 DEF InMemory, HeaderEnds
  <2> QED
    BY <1>2, <1>7, <1>12, <2>1 DEF InFile, InMemory
<1>14. \A q : InUse(q)' <=> InUse(q)
  BY <1>12 DEF InUse
<1>15. Forwards(s)' /\ HeldBy(s)' = HeldBy(s)
  <2>1. ASSUME NEW i \in DOMAIN s
        PROVE  /\ s[i] \in DOMAIN file' /\ file'[s[i]].holds = file[s[i]].holds
               /\ file'[s[i]].next = file[s[i]].next /\ file'[s[i]].parts = file[s[i]].parts
               /\ \A q \in PartsAt(s[i]) : q \in DOMAIN file' /\ file'[q].holds = file[q].holds
    <3>1. s[i] \in DOMAIN file /\ \A q \in PartsAt(s[i]) : q \in DOMAIN file
      BY KeptFacts
    <3> QED
      BY <1>12, <3>1
  <2> QED
    BY <1>2, <1>7, <2>1, SameForwards
<1>16. \A i \in 0 .. n + 1 : AtPos(s, i) = t <=> i = a
  BY <1>5, <1>7, <1>8 DEF AtPos
<1>17. Backwards(s)'
  <2>1. ASSUME NEW i \in 1 .. n
        PROVE  file'[s[i]].prev = AtPos(s, IF AtPos(s, i - 1) = t THEN i - 2 ELSE i - 1)
    <3>1. AtPos(s, i - 1) = t <=> i = a + 1
      BY <1>7, <1>16
    <3>2. s[i] = after <=> i = a + 1
      BY <1>7, <1>9 DEF AtPos
    <3>3. CASE i = a + 1
      BY <1>7, <1>9, <1>12, <3>1, <3>2, <3>3
    <3>4. CASE i # a + 1
      BY <1>7, <1>9, <1>12, <3>1, <3>2, <3>4
    <3> QED
      BY <3>3, <3>4
  <2> QED
    BY <1>7, <1>10, <2>1 DEF Backwards
<1>18. MemoryEnds(s, m)'
  <2>1. AtPos(s, 1) = t <=> a = 1
    BY <1>7, <1>16
  <2>2. mem'.last = mem.last
    BY <1>2, <1>7 DEF InMemory, HeaderEnds
  <2>3. mem'.first = IF mem.first = t THEN after ELSE mem.first
    BY <1>2, <1>7 DEF InMemory, HeaderEnds
  <2>4. mem'.first = AtPos(s, IF AtPos(s, 1) = t THEN 2 ELSE 1)
    <3>1. CASE a = 1
      BY <1>9, <2>1, <2>3, <3>1
    <3>2. CASE a # 1
      BY <1>9, <2>1, <2>3, <3>2
    <3> QED
      BY <3>1, <3>2
  <2> QED
    BY <1>7, <1>9, <1>10, <2>2, <2>4 DEF MemoryEnds
<1>19. FileEnds(s, m)'
  BY <1>6, <1>10 DEF FileEnds, Created
<1>20. GivenBack' = GivenBack /\ InHand = {} /\ InHand' = {}
  <2>1. InHand = {} /\ InHand' = {}
    BY <1>3, <1>10 DEF InHand
  <2>2. file'[t].parts = file[t].parts
    BY <1>7, <1>8, <1>12
  <2>3. PartsAt(Target)' = PartsAt(t)
    BY <1>6, <2>2 DEF PartsAt
  <2>4. GivenBack = IF kind = "node" THEN {t} \union PartsAt(t) ELSE {}
    BY <1>1, <1>3 DEF GivenBack
  <2>5. GivenBack' = IF kind = "node" THEN {t} \union PartsAt(t) ELSE {}
    BY <1>2, <1>6, <1>10, <2>3 DEF GivenBack
  <2> QED
    BY <2>1, <2>4, <2>5
<1>21. UsedBy(s)'
  BY <1>14, <1>15, <1>20 DEF ListKept, UsedBy
<1>22. Fresh(s)'
  <2>1. nth' = 1 /\ writes' # <<>>
    BY <1>2, <1>3, <1>6 DEF ListKept, Fresh, Released, Ahead
  <2> QED
    BY <1>10, <2>1 DEF Fresh, Inserted, Exchanged, Released
<1>23. Keeps(s, Known(m))'
  BY <1>2, <1>4, <1>10 DEF ListKept, Keeps, Known, Created
<1>24. Leaks(s, m)'
  <2>1. Lost(s)' \subseteq Lost(s)
    BY <1>14, <1>15, <1>20 DEF Lost, Used
  <2>2. m \in Int /\ Len(s) \in Int /\ Len(s) - m <= Len(s) - m /\ cuts \in Nat /\ cuts' = cuts /\ Leaks(s, m)
    BY <1>2, <1>7 DEF n, InMemory, ListKept
  <2>3. MostBlocks[kind] \in Nat /\ kind' = kind
    BY <1>2, KeptFacts
  <2> QED
    BY <1>7, <1>13, <2>1, <2>2, <2>3, LostShrinks
<1> QED
  BY <1>6, <1>13, <1>15, <1>17, <1>18, <1>19, <1>21, <1>22, <1>23, <1>24 DEF ListKept

\* A block that is closed around is not removed a second time.
LEMMA NotAgain ==
    ASSUME writes \in Seq(Range(writes)), writes # <<>>, kind \in EntityKinds, NEW s, Deletes(s),
           Running("close_prev"), NEW k \in DOMAIN writes, k > 1, Removal(k)
    PROVE  writes[k].at # Target
<1> DEFINE n == Len(writes)
           t == writes[1].at
<1>1. /\ n \in Nat /\ DOMAIN writes = 1 .. n /\ 1 \in DOMAIN writes
      /\ writes[1].op = "close_prev" /\ Target = t
  BY WritesTail DEF Running, Target
<1>2. /\ \A i \in 1 .. n : writes[i].op = "header" <=> i = n
      /\ \A i \in 1 .. n : i < n =>
            \E j \in 1 .. 3 :
                /\ writes[i].op = Deleting[kind][j]
                /\ j < 3 => writes[i + 1] = Op(Deleting[kind][j + 1], writes[i].at)
      /\ \A i, l \in 1 .. n : writes[i].op = writes[l].op /\ writes[i].at = writes[l].at => i = l
  BY <1>1 DEF Deletes
<1> HIDE DEF n, t
<1>3. ASSUME NEW i \in 1 .. n, i < n
      PROVE  /\ i + 1 \in 1 .. n
             /\ writes[i].op = "close_next" => writes[i + 1].op = "close_prev" /\ writes[i + 1].at = writes[i].at
             /\ kind = "node" /\ writes[i].op = "free" =>
                   writes[i + 1].op = "close_next" /\ writes[i + 1].at = writes[i].at
             /\ writes[i].op \in DeleteOps
  <2>1. PICK j \in 1 .. 3 :
                /\ writes[i].op = Deleting[kind][j]
                /\ j < 3 => writes[i + 1] = Op(Deleting[kind][j + 1], writes[i].at)
    BY <1>2, <1>3
  <2>2. j < 3 => writes[i + 1].op = Deleting[kind][j + 1] /\ writes[i + 1].at = writes[i].at
    BY <2>1, OpFields
  <2>3. j = 1 \/ j = 2 \/ j = 3
    OBVIOUS
  <2>4. i + 1 \in 1 .. n
    BY <1>1, <1>3
  <2> QED
    BY <2>1, <2>2, <2>3, <2>4, DeletingOps DEF EntityKinds, DeleteOps
<1>4. ASSUME NEW i \in 1 .. n, i > 1, writes[i].at = t
      PROVE  writes[i].op # "close_prev"
  BY <1>1, <1>2, <1>4 DEF t
<1>5. ASSUME NEW i \in 1 .. n, i > 1, writes[i].at = t, i < n
      PROVE  writes[i].op # "close_next"
  <2>1. i + 1 \in 1 .. n /\ i + 1 > 1
    BY <1>3, <1>5
  <2> QED
    BY <1>3, <1>4, <1>5, <2>1
<1>6. ASSUME NEW i \in 1 .. n, i > 1, writes[i].at = t, i < n, kind = "node"
      PROVE  writes[i].op # "free"
  <2> SUFFICES ASSUME writes[i].op = "free"
               PROVE  FALSE
    OBVIOUS
  <2>1. i + 1 \in 1 .. n /\ i + 1 > 1 /\ writes[i + 1].op = "close_next" /\ writes[i + 1].at = t
    BY <1>3, <1>6
  <2>2. i + 1 < n
    BY <1>1, <1>2, <2>1
  <2> QED
    BY <1>5, <2>1, <2>2
<1>7. k \in 1 .. n /\ k < n /\ (kind = "node" \/ writes[k].op \in {"close_next", "close_prev"})
  BY <1>1 DEF Removal, n
<1>8. writes[k].op \in DeleteOps
  BY <1>3, <1>7
<1> QED
  BY <1>1, <1>4, <1>5, <1>6, <1>7, <1>8 DEF DeleteOps

LEMMA ClosePrevKept ==
    ASSUME NEW s, NEW m, ListKept(s, m), ClosePrev, ~hurt'
    PROVE  \E r \in Seq(Ptr), k \in Nat : ListKept(r, k)'
<1> DEFINE n == Len(s)
<1>1. PICK t, after, before : t = Target /\ after = file[t].next /\ before = file[t].prev
  OBVIOUS
<1>2. /\ writes # <<>> /\ Head(writes).op = "close_prev" /\ writes' = Tail(writes)
      /\ file' = SetNext(file, before, after)
      /\ mem' = IF mem.last = t THEN [mem EXCEPT !.last = before] ELSE mem
      /\ mem.last = t => after = Null
      /\ UNCHANGED <<kind, disk, layout, made, latest, nth, done, cuts>>
  BY <1>1 DEF ClosePrev, Running, running
<1>3. /\ \A other : Running(other) <=> other = "close_prev"
      /\ \A p : Closing(p) <=> p = t
  BY <1>1, <1>2 DEF Running, Closing
<1>4. Removing(s) /\ t \in Range(s) /\ t \notin Range(done) /\ t # Null /\ ~Created
  <2>1. Removing(s)
    BY <1>2, PlanNow DEF Change
  <2> QED
    BY <1>1, <1>2, <1>3, <2>1 DEF Removing, Created
<1>5. /\ DOMAIN s = 1 .. n /\ n \in Nat /\ m \in Nat /\ s \in Seq(Ptr)
      /\ m <= n /\ n <= m + 1 /\ (m = 0 => n = 0)
      /\ \A i \in 1 .. n : s[i] \in DOMAIN file /\ s[i] # Null /\ s[i] \in Ptr
      /\ \A i, j \in 1 .. n : s[i] = s[j] => i = j
      /\ InFile /\ Forwards(s) /\ Backwards(s) /\ MemoryEnds(s, m) /\ InMemory
      /\ kind \in EntityKinds /\ writes \in Seq(Range(writes)) /\ Deletes(s) /\ MostBlocks[kind] \in Nat
  <2>1. m = 0 => Len(s) = 0
    BY DEF ListKept, MemoryEnds
  <2> QED
    BY <1>4, <2>1, KeptFacts DEF ListKept, Removing
<1> HIDE DEF n
<1>6. PICK a \in 1 .. n : t = s[a]
  BY <1>4, <1>5 DEF Range
<1>7. \A i \in 0 .. n + 1 : AtPos(s, i) = t <=> i = a
  BY <1>4, <1>5, <1>6 DEF AtPos
<1>8. \A i \in 1 .. n : file[s[i]].prev = AtPos(s, IF i = a + 1 THEN i - 2 ELSE i - 1)
  <2> TAKE i \in 1 .. n
  <2>1. AtPos(s, i - 1) = t <=> i = a + 1
    BY <1>5, <1>7
  <2>2. file[s[i]].prev = AtPos(s, IF AtPos(s, i - 1) = t THEN i - 2 ELSE i - 1)
    BY <1>3, <1>5 DEF Backwards
  <2> QED
    BY <2>1, <2>2
<1>9. /\ after = AtPos(s, a + 1) /\ before = AtPos(s, a - 1)
      /\ mem.first = AtPos(s, IF a = 1 THEN 2 ELSE 1) /\ mem.last = AtPos(s, m)
  <2>1. AtPos(s, 1) = t <=> a = 1
    BY <1>5, <1>7
  <2>2. mem.first = AtPos(s, IF AtPos(s, 1) = t THEN 2 ELSE 1) /\ mem.last = AtPos(s, m)
    BY <1>3, <1>5 DEF MemoryEnds
  <2>3. before = AtPos(s, IF a = a + 1 THEN a - 2 ELSE a - 1)
    BY <1>1, <1>6, <1>8
  <2>4. a # a + 1
    OBVIOUS
  <2> QED
    BY <1>1, <1>5, <1>6, <2>1, <2>2, <2>3, <2>4 DEF Forwards
<1>10. mem.last = t <=> a = m
  BY <1>5, <1>7, <1>9
<1>11. a = m => n = m
  BY <1>2, <1>5, <1>9, <1>10 DEF AtPos
<1>12. before \in Ptr \union {Null} /\ after \in Ptr \union {Null}
  BY <1>1, <1>5, <1>6, FileFields
<1>13. /\ DOMAIN file' = DOMAIN file
       /\ \A r \in DOMAIN file :
             /\ file'[r] \in Blocks
             /\ file'[r].free = file[r].free /\ file'[r].holds = file[r].holds
             /\ file'[r].parts = file[r].parts /\ file'[r].prev = file[r].prev
             /\ file'[r].next = IF r = before THEN after ELSE file[r].next
  BY <1>2, <1>5, <1>12, NextSet
<1>14. InFile' /\ InMemory'
  <2>1. mem' \in HeaderEnds
    BY <1>2, <1>5, <1>12 DEF InMemory, HeaderEnds
  <2> QED
    BY <1>2, <1>5, <1>13, <2>1 DEF InFile, InMemory
<1>15. \A q : InUse(q)' <=> InUse(q)
  BY <1>13 DEF InUse
\* the list without the block
<1> DEFINE nn == n - 1
           from(j) == IF j < a THEN j ELSE j + 1
<1>16. PICK r : r = RemoveAt(s, a)
  OBVIOUS
<1>17. /\ r \in Seq(Ptr) /\ Len(r) = nn /\ DOMAIN r = 1 .. nn /\ nn \in Nat
       /\ \A j \in 1 .. nn : r[j] = s[from(j)]
  <2>1. a \in DOMAIN s /\ s \in Seq(Ptr)
    BY <1>5
  <2>2. /\ RemoveAt(s, a) \in Seq(Ptr)
        /\ DOMAIN RemoveAt(s, a) = 1 .. Len(s) - 1 /\ Len(RemoveAt(s, a)) = Len(s) - 1
        /\ \A j \in 1 .. Len(s) - 1 : RemoveAt(s, a)[j] = s[IF j < a THEN j ELSE j + 1]
    BY <2>1, RemoveAtFacts
  <2>3. Len(s) - 1 = nn /\ nn \in Nat
    BY <1>5 DEF n
  <2>4. r \in Seq(Ptr) /\ Len(r) = nn /\ DOMAIN r = 1 .. nn
    BY <1>16, <2>2, <2>3
  <2>5. \A j \in 1 .. nn : r[j] = s[from(j)]
    BY <1>16, <2>2, <2>3
  <2> QED
    BY <2>3, <2>4, <2>5
<1>18. /\ \A j \in 1 .. nn : from(j) \in 1 .. n /\ from(j) # a
       /\ \A i, j \in 1 .. nn : (from(i) = from(j) => i = j) /\ (from(i) < from(j) <=> i < j)
       /\ \A i \in 1 .. n : i # a => \E j \in 1 .. nn : from(j) = i
  <2>1. \A j \in 1 .. nn : from(j) \in 1 .. n /\ from(j) # a
    BY <1>5
  <2>2. \A i, j \in 1 .. nn : (from(i) = from(j) => i = j) /\ (from(i) < from(j) <=> i < j)
    BY <1>5
  <2>3. ASSUME NEW i \in 1 .. n, i # a
        PROVE  \E j \in 1 .. nn : from(j) = i
    <3>1. CASE i < a
      <4>1. i \in 1 .. nn /\ from(i) = i
        BY <1>5, <3>1
      <4> QED
        BY <4>1
    <3>2. CASE i > a
      <4>1. i - 1 \in 1 .. nn /\ from(i - 1) = i
        BY <1>5, <3>2
      <4> QED
        BY <4>1
    <3> QED
      BY <2>3, <3>1, <3>2
  <2> QED
    BY <2>1, <2>2, <2>3
<1>19. /\ \A j \in 1 .. nn : from(j) = a - 1 <=> j = a - 1
       /\ \A j \in 1 .. nn : from(j) # a - 1 => AtPos(s, from(j) + 1) = AtPos(r, j + 1)
       /\ a - 1 \in 1 .. nn => AtPos(s, a + 1) = AtPos(r, (a - 1) + 1)
  <2>1. \A j \in 1 .. nn : from(j) = a - 1 <=> j = a - 1
    BY <1>5
  <2>2. ASSUME NEW j \in 1 .. nn, from(j) # a - 1
        PROVE  AtPos(s, from(j) + 1) = AtPos(r, j + 1)
    <3>1. from(j) + 1 = from(j + 1)
      BY <1>5, <2>2
    <3>2. from(j) + 1 \in 1 .. n <=> j + 1 \in 1 .. nn
      BY <1>5, <2>2
    <3> HIDE DEF from, nn
    <3> QED
      BY <1>5, <1>17, <3>1, <3>2 DEF AtPos
  <2>3. ASSUME a - 1 \in 1 .. nn
        PROVE  AtPos(s, a + 1) = AtPos(r, (a - 1) + 1)
    <3>1. (a - 1) + 1 = a /\ from(a) = a + 1 /\ (a + 1 \in 1 .. n <=> a \in 1 .. nn)
      BY <1>5, <2>3
    <3> HIDE DEF from, nn
    <3> QED
      BY <1>5, <1>17, <3>1 DEF AtPos
  <2> QED
    BY <2>1, <2>2, <2>3
<1>20. \A j \in 1 .. nn : AtPos(s, IF from(j) = a + 1 THEN from(j) - 2 ELSE from(j) - 1) = AtPos(r, j - 1)
  <2> TAKE j \in 1 .. nn
  <2>1. CASE from(j) = a + 1
    <3>1. j = a /\ from(j) - 2 = j - 1 /\ (j - 1 \in 1 .. nn <=> j - 1 \in 1 .. n)
          /\ (j - 1 \in 1 .. nn => from(j - 1) = j - 1)
      BY <1>5, <2>1
    <3> HIDE DEF from, nn
    <3> QED
      BY <1>5, <1>17, <2>1, <3>1 DEF AtPos
  <2>2. CASE from(j) # a + 1
    <3>1. /\ from(j) - 1 \in 1 .. n <=> j - 1 \in 1 .. nn
          /\ j - 1 \in 1 .. nn => from(j - 1) = from(j) - 1
      BY <1>5, <2>2
    <3> HIDE DEF from, nn
    <3> QED
      BY <1>5, <1>17, <2>2, <3>1 DEF AtPos
  <2> QED
    BY <2>1, <2>2
<1> HIDE DEF from
<1>21. \A j \in 1 .. nn : /\ from(j) \in 1 .. n /\ from(j) # a /\ r[j] = s[from(j)]
                          /\ r[j] \in DOMAIN file /\ r[j] # t /\ r[j] \in Range(s)
                          /\ file[r[j]].holds = kind
                          /\ WholeParts(file[r[j]].parts) /\ WholeParts(file[r[j]].parts)'
                          /\ file'[r[j]].parts = file[r[j]].parts /\ PartsAt(r[j])' = PartsAt(r[j])
                          /\ \A q \in PartsAt(r[j]) : q \notin PartsAt(t)
  <2> TAKE j \in 1 .. nn
  <2>1. from(j) \in 1 .. n /\ from(j) # a /\ r[j] = s[from(j)]
    BY <1>17, <1>18
  <2>2. r[j] \in DOMAIN file /\ r[j] # t /\ r[j] \in Range(s) /\ file[r[j]].holds = kind
    BY <1>5, <1>6, <2>1 DEF Forwards, Range
  <2>3. WholeParts(file[r[j]].parts) /\ \A q \in PartsAt(r[j]) : q \in DOMAIN file
    BY <1>5, <2>1, KeptFacts
  <2>4. file'[r[j]].parts = file[r[j]].parts
    BY <1>13, <2>2
  <2>5. \A q \in PartsAt(r[j]) : q \in DOMAIN file' /\ file'[q].holds = file[q].holds
    BY <1>13, <2>3
  <2>6. WholeParts(file[r[j]].parts)' /\ PartsAt(r[j])' = PartsAt(r[j])
    BY <1>2, <2>3, <2>4, <2>5, PartsStay
  <2>7. \A q \in PartsAt(r[j]) : q \notin PartsAt(t)
    BY <1>5, <1>6, <2>1 DEF Forwards
  <2> QED
    BY <2>1, <2>2, <2>3, <2>4, <2>6, <2>7
<1>22. Forwards(r)'
  <2>1. ASSUME NEW j \in 1 .. nn
        PROVE  file'[r[j]].next = AtPos(r, j + 1)
    <3>1. from(j) \in 1 .. n /\ r[j] = s[from(j)] /\ r[j] \in DOMAIN file
      BY <1>17, <1>18, <1>21
    <3>2. file[r[j]].next = AtPos(s, from(j) + 1)
      BY <1>5, <3>1 DEF Forwards
    <3>3. r[j] = before <=> from(j) = a - 1
      BY <1>5, <1>6, <1>9, <3>1 DEF AtPos
    <3>4. CASE from(j) = a - 1
      <4>1. j = a - 1
        BY <1>19, <3>4
      <4> QED
        BY <1>9, <1>13, <1>19, <3>1, <3>3, <3>4, <4>1
    <3>5. CASE from(j) # a - 1
      BY <1>13, <1>19, <3>1, <3>2, <3>3, <3>5
    <3> QED
      BY <3>4, <3>5
  <2>2. \A i, j \in 1 .. nn : r[i] = r[j] => i = j
    <3> TAKE i, j \in 1 .. nn
    <3> HAVE r[i] = r[j]
    <3>1. from(i) = from(j)
      BY <1>5, <1>21
    <3> QED
      BY <1>18, <3>1
  <2>3. \A i, j \in 1 .. nn : \A q \in PartsAt(r[i])' : q \in PartsAt(r[j])' => i = j
    <3> TAKE i, j \in 1 .. nn
    <3> TAKE q \in PartsAt(r[i])'
    <3> HAVE q \in PartsAt(r[j])'
    <3>1. q \in PartsAt(s[from(i)]) /\ q \in PartsAt(s[from(j)])
      BY <1>21
    <3>2. from(i) = from(j)
      BY <1>5, <1>21, <3>1 DEF Forwards
    <3> QED
      BY <1>18, <3>2
  <2>4. ASSUME NEW j \in 1 .. nn
        PROVE  r[j] \in DOMAIN file' /\ file'[r[j]].holds = kind'
    BY <1>2, <1>13, <1>21
  <2> QED
    BY <1>17, <1>21, <2>1, <2>2, <2>3, <2>4 DEF Forwards
\* what is left of the query
<1>23. \A q \in Range(s) : q # t => q \in Range(r)
  <2> TAKE q \in Range(s)
  <2> HAVE q # t
  <2>1. PICK i \in 1 .. n : q = s[i]
    BY <1>5 DEF Range
  <2>2. PICK j \in 1 .. nn : from(j) = i
    BY <1>6, <1>18, <2>1
  <2> QED
    BY <1>17, <2>1, <2>2 DEF Range
<1>24. Later(r)
  <2> SUFFICES ASSUME NEW k \in DOMAIN writes, k > 1, Removal(k)
               PROVE  writes[k].at \in Range(r)
    BY DEF Later
  <2>1. writes[k].at # t
    BY <1>1, <1>2, <1>3, <1>5, NotAgain
  <2>2. writes[k].at \in Range(s)
    BY <1>5 DEF Deletes
  <2> QED
    BY <1>23, <2>1, <2>2
<1>25. /\ Deletes(r)' /\ Plan(r)' /\ writes' # <<>> /\ Deletion'
       /\ kind = "node" => Head(writes').op \in {"free", "header"}
       /\ kind = "link" => Ahead("free", t)'
  <2>1. /\ Deletes(r)' /\ writes' \in Seq(Range(writes'))
        /\ Running("header") <=> writes' = <<>>
        /\ writes' # <<>> => Deletion'
        /\ kind = "node" => Head(writes').op \in {"free", "header"}
        /\ kind = "link" => Ahead("free", Target)'
        /\ Head(writes).op # Deleting[kind][3] /\ Head(writes).op # "header" => Target' = Target
    BY <1>2, <1>3, <1>5, <1>24, DeleteStep
  <2>2. writes' # <<>>
    BY <1>3, <2>1
  <2>3. kind = "link" => Target' = t
    BY <1>1, <1>2, <2>1, DeletingOps
  <2> QED
    BY <2>1, <2>2, <2>3 DEF Plan, Ahead
<1>26. \A other : Running(other)' => other \in {"header", "free"}
  BY <1>5, <1>25 DEF Running, Ahead, EntityKinds
<1>27. Target' # Null
  <2>1. Len(writes') > 0 /\ DOMAIN writes' = 1 .. Len(writes') /\ Len(writes') \in Nat
        /\ writes' \in Seq(Range(writes'))
    BY <1>25, EmptySeq DEF Plan
  <2>2. Head(writes') = writes'[1] /\ 1 \in DOMAIN writes'
    BY <2>1, SeqStart
  <2>3. writes'[1].at \in Ptr
    BY <1>25, <2>2 DEF Deletes
  <2> QED
    BY <2>2, <2>3, EntityListAssumption DEF Target
<1>28. ~Created' /\ \A p : ~Closing(p)'
  BY <1>26, <1>27 DEF Created, Closing
<1>29. Backwards(r)'
  <2>1. ASSUME NEW j \in 1 .. nn
        PROVE  file'[r[j]].prev = AtPos(r, j - 1)
    <3>1. from(j) \in 1 .. n /\ r[j] = s[from(j)] /\ r[j] \in DOMAIN file
      BY <1>17, <1>18, <1>21
    <3>2. file'[r[j]].prev = AtPos(s, IF from(j) = a + 1 THEN from(j) - 2 ELSE from(j) - 1)
      BY <1>8, <1>13, <3>1
    <3> QED
      BY <1>20, <3>2
  <2> QED
    BY <1>17, <1>28, <2>1 DEF Backwards
<1>30. PICK k : k = IF a <= m THEN m - 1 ELSE m
  OBVIOUS
<1>31. /\ k \in Nat /\ k \in {nn, nn - 1} /\ (k = 0 => nn = 0)
       /\ Len(r) - k <= Len(s) - m
  <2>1. k \in Nat /\ k \in {nn, nn - 1} /\ (k = 0 => nn = 0)
    <3>1. CASE a <= m
      <4>1. k = m - 1 /\ m >= 1
        BY <1>5, <1>30, <3>1
      <4>2. m = 1 => n = 1
        BY <1>5, <1>11, <3>1
      <4> QED
        BY <1>5, <4>1, <4>2
    <3>2. CASE ~(a <= m)
      BY <1>5, <1>30, <3>2
    <3> QED
      BY <3>1, <3>2
  <2>2. nn - k <= n - m
    BY <1>5, <1>30
  <2> QED
    BY <1>17, <2>1, <2>2 DEF n
<1>32. MemoryEnds(r, k)'
  <2>1. mem'.first = mem.first /\ mem'.last = IF a = m THEN before ELSE mem.last
    BY <1>2, <1>5, <1>10 DEF InMemory, HeaderEnds
  <2>2. AtPos(r, 1) = AtPos(s, IF a = 1 THEN 2 ELSE 1)
    <3>1. 1 \in 1 .. nn <=> (IF a = 1 THEN 2 ELSE 1) \in 1 .. n
      BY <1>5
    <3>2. from(1) = IF a = 1 THEN 2 ELSE 1
      BY <1>5 DEF from
    <3> HIDE DEF nn
    <3> QED
      BY <1>5, <1>17, <3>1, <3>2 DEF AtPos
  <2>3. AtPos(r, k) = IF a = m THEN before ELSE mem.last
    <3>1. CASE a = m
      <4>1. k = a - 1 /\ (a - 1 \in 1 .. nn <=> a - 1 \in 1 .. n) /\ (a - 1 \in 1 .. nn => from(a - 1) = a - 1)
        BY <1>5, <1>11, <1>30, <3>1 DEF from
      <4> HIDE DEF nn
      <4> QED
        BY <1>5, <1>9, <1>17, <3>1, <4>1 DEF AtPos
    <3>2. CASE a # m
      <4>1. k \in 1 .. nn /\ from(k) = m /\ m \in 1 .. n
        BY <1>5, <1>30, <3>2 DEF from
      <4> HIDE DEF nn
      <4> QED
        BY <1>5, <1>9, <1>17, <3>2, <4>1 DEF AtPos
    <3> QED
      BY <3>1, <3>2
  <2>4. k = 0 => r = <<>>
    BY <1>17, <1>31, EmptySeq
  <2> HIDE DEF nn
  <2> QED
    BY <1>9, <1>17, <1>28, <1>31, <2>1, <2>2, <2>3, <2>4 DEF MemoryEnds
<1>33. FileEnds(r, k)'
  BY <1>25, <1>28 DEF FileEnds
\* the blocks
<1>34. \A q : q \in HeldBy(r)' => q \in HeldBy(s) /\ q # t /\ q \notin PartsAt(t)
  <2> SUFFICES ASSUME NEW q, q \in HeldBy(r)'
               PROVE  q \in HeldBy(s) /\ q # t /\ q \notin PartsAt(t)
    OBVIOUS
  <2>1. PICK j \in 1 .. nn : q = r[j] \/ q \in PartsAt(r[j])
    <3>1. PICK j \in DOMAIN r : q = r[j] \/ q \in PartsAt(r[j])'
      BY HeldIs
    <3> QED
      BY <1>17, <1>21, <3>1
  <2>2. r[j] \in HeldBy(s) /\ \A y \in PartsAt(r[j]) : y \in HeldBy(s) /\ y \in PartsOf(s)
    BY <1>5, <1>21, KeptFacts
  <2>3. /\ t \notin PartsOf(s) /\ r[j] \notin PartsOf(s)
        /\ \A y \in PartsAt(t) : y \in PartsOf(s)
    <3>1. \A p \in PartsOf(s) : p \notin Range(s)
      BY KeptFacts
    <3>2. \A y \in PartsAt(t) : y \in PartsOf(s)
      BY <1>5, <1>6, KeptFacts
    <3> QED
      BY <1>4, <1>21, <3>1, <3>2
  <2> QED
    BY <1>21, <2>1, <2>2, <2>3
<1>35. \A q : q \in HeldBy(s) /\ q # t /\ q \notin PartsAt(t) => q \in HeldBy(r)'
  <2> SUFFICES ASSUME NEW q, q \in HeldBy(s), q # t, q \notin PartsAt(t)
               PROVE  q \in HeldBy(r)'
    OBVIOUS
  <2>1. PICK i \in 1 .. n : q = s[i] \/ q \in PartsAt(s[i])
    BY <1>5, HeldIs
  <2>2. i # a
    BY <1>6, <2>1
  <2>3. PICK j \in 1 .. nn : from(j) = i
    BY <1>18, <2>2
  <2>4. j \in DOMAIN r /\ r[j] = s[i] /\ PartsAt(r[j])' = PartsAt(s[i])
    BY <1>17, <1>21, <2>3
  <2>5. r[j] \in HeldBy(r)' /\ \A y \in PartsAt(r[j])' : y \in HeldBy(r)'
    BY <2>4, HeldAre
  <2> QED
    BY <2>1, <2>4, <2>5
<1>36. /\ InHand = {} /\ GivenBack = IF kind = "node" THEN {t} \union PartsAt(t) ELSE {}
       /\ GivenBack' = {} /\ InHand' = IF kind = "link" THEN {t} \union PartsAt(t) ELSE {}
       /\ nth = 1 /\ nth' = 1
  <2>1. InHand = {} /\ GivenBack = IF kind = "node" THEN {t} \union PartsAt(t) ELSE {}
    BY <1>1, <1>3 DEF InHand, GivenBack
  <2>2. nth = 1 /\ nth' = 1
    <3>1. Deletion /\ ~Running("free")
      BY <1>3, <1>4 DEF Removing
    <3> QED
      BY <1>2, <3>1 DEF ListKept, Fresh, Released
  <2>3. CASE kind = "node"
    <3>1. \A other : Running(other)' => other \in {"free", "header"}
      BY <1>25, <2>3 DEF Running
    <3>2. {BlocksToFree(Target)[i] : i \in 1 .. nth - 1}' = {}
      <4>1. 1 .. nth' - 1 = {}
        BY <2>2
      <4> QED
        BY <4>1
    <3>3. GivenBack' = {} /\ InHand' = {}
      <4>1. kind' = "node"
        BY <1>2, <2>3
      <4>2. CASE Running("free")'
        <5>1. \A other : Running(other)' <=> other = "free"
          BY <4>2 DEF Running
        <5>2. GivenBack' = {BlocksToFree(Target)[i] : i \in 1 .. nth - 1}' /\ InHand' = {}
          BY <4>1, <5>1 DEF InHand, GivenBack
        <5> QED
          BY <3>2, <5>2
      <4>3. CASE ~Running("free")'
        <5>1. \A other : Running(other)' => other = "header"
          BY <3>1, <4>3
        <5> QED
          BY <4>1, <5>1 DEF InHand, GivenBack
      <4> QED
        BY <4>2, <4>3
    <3> QED
      BY <2>1, <2>2, <2>3, <3>3
  <2>4. CASE kind = "link"
    <3>1. (\A other : Running(other)' <=> other = "free") /\ Target' = t
      BY <1>25, <2>4 DEF Running, Ahead, Target
    <3>2. file'[t].parts = file[t].parts
      BY <1>5, <1>6, <1>13
    <3>3. PartsAt(Target)' = PartsAt(t)
      BY <3>1, <3>2 DEF PartsAt
    <3> QED
      BY <1>2, <2>1, <2>2, <2>4, <3>1, <3>3 DEF InHand, GivenBack
  <2> QED
    BY <1>5, <2>3, <2>4 DEF EntityKinds
<1>37. UsedBy(r)'
  <2>1. \A q \in HeldBy(s) : q # t /\ q \notin PartsAt(t) => InUse(q)
    BY <1>36 DEF ListKept, UsedBy
  <2> QED
    BY <1>15, <1>34, <1>36, <2>1 DEF UsedBy
<1>38. Fresh(r)'
  <2>1. ASSUME NEW i \in 1 .. n
        PROVE  1 \in 1 .. Len(BlocksToFree(s[i])')
    <3>1. PICK y : y = s[i]
      OBVIOUS
    <3>2. /\ y \in DOMAIN file /\ WholeParts(file[y].parts) /\ file[y].parts \in Seq(Ptr)
          /\ \A q \in PartsAt(y) : q \in DOMAIN file
      BY <1>5, <3>1, KeptFacts
    <3>3. BlocksToFree(y)' = BlocksToFree(y)
      <4>1. file'[y].parts = file[y].parts /\ \A q \in PartsAt(y) : file'[q].holds = file[q].holds
        BY <1>13, <3>2
      <4> QED
        BY <1>2, <4>1, ToFreeSame
    <3>4. Len(BlocksToFree(y)) \in Nat /\ Len(BlocksToFree(y)) > 0
      BY <1>5, <3>2, ToFreeFacts
    <3> QED
      BY <3>1, <3>3, <3>4
  <2>2. CASE kind = "node"
    <3>1. \A other : Running(other)' => other \in {"free", "header"}
      BY <1>25, <2>2 DEF Running
    <3>2. ASSUME Running("free")'
          PROVE  nth' \in 1 .. Len(BlocksToFree(Target)')
      <4>1. Target' \in Range(r)
        <5>1. Len(writes') > 0 /\ DOMAIN writes' = 1 .. Len(writes') /\ Len(writes') \in Nat
          BY <1>25, EmptySeq DEF Plan
        <5>2. Head(writes') = writes'[1] /\ 1 \in DOMAIN writes'
          BY <1>25, <5>1, SeqStart DEF Plan
        <5>3. writes'[1].op # "header"
          BY <3>2, <5>2 DEF Running
        <5>4. 1 # Len(writes')
          BY <1>25, <5>2, <5>3 DEF Deletes
        <5>5. Removal(1)'
          <6>1. 1 < Len(writes')
            BY <5>1, <5>4
          <6>2. kind' = "node"
            BY <1>2, <2>2
          <6> QED
            BY <6>1, <6>2 DEF Removal
        <5> QED
          BY <1>25, <5>2, <5>5 DEF Deletes, Target
      <4>2. PICK j \in 1 .. nn : Target' = r[j]
        BY <1>17, <4>1 DEF Range
      <4>3. from(j) \in 1 .. n /\ r[j] = s[from(j)]
        BY <1>21
      <4>4. 1 \in 1 .. Len(BlocksToFree(r[j])')
        <5>1. 1 \in 1 .. Len(BlocksToFree(s[from(j)])')
          BY <2>1, <4>3
        <5>2. BlocksToFree(s[from(j)])' = BlocksToFree(r[j])'
          BY <4>3 DEF BlocksToFree
        <5> QED
          BY <5>1, <5>2
      <4>5. BlocksToFree(Target)' = BlocksToFree(r[j])'
        BY <4>2 DEF BlocksToFree
      <4> QED
        BY <1>36, <4>4, <4>5
    <3> QED
      BY <1>2, <1>25, <1>36, <2>2, <3>1, <3>2 DEF Fresh, Inserted, Exchanged, Released
  <2>3. CASE kind = "link"
    <3>1. (\A other : Running(other)' <=> other = "free") /\ Target' = t
      BY <1>25, <2>3 DEF Running, Ahead, Target
    <3>2. /\ t \in DOMAIN file' /\ WholeParts(file[t].parts)' /\ PartsAt(t)' = PartsAt(t)
          /\ file'[t].parts = file[t].parts
      <4>1. t \in DOMAIN file /\ file'[t].parts = file[t].parts
        BY <1>5, <1>6, <1>13
      <4>2. WholeParts(file[t].parts) /\ \A q \in PartsAt(t) : q \in DOMAIN file
        BY <1>5, <1>6, KeptFacts
      <4>3. \A q \in PartsAt(t) : q \in DOMAIN file' /\ file'[q].holds = file[q].holds
        BY <1>13, <4>2
      <4> QED
        BY <1>2, <1>13, <4>1, <4>2, <4>3, PartsStay
    <3>3. t \notin HeldBy(r)' /\ \A q \in PartsAt(t)' : q \notin HeldBy(r)'
      BY <1>34, <3>2
    <3>4. 1 \in 1 .. Len(BlocksToFree(t)')
      <4>1. 1 \in 1 .. Len(BlocksToFree(s[a])')
        BY <2>1
      <4>2. BlocksToFree(s[a])' = BlocksToFree(t)'
        BY <1>6 DEF BlocksToFree
      <4> QED
        BY <4>1, <4>2
    <3>5. BlocksToFree(Target)' = BlocksToFree(t)' /\ PartsAt(Target)' = PartsAt(t)'
      BY <3>1 DEF BlocksToFree, PartsAt
    <3>6. Released(r)'
      <4>1. /\ nth' \in 1 .. Len(BlocksToFree(Target)')
            /\ \A i \in 1 .. nth' - 1 : ~InUse(BlocksToFree(Target)[i])'
        BY <1>36, <3>4, <3>5
      <4>2. PartsAt(Target)' = PartsAt(t)'
        BY <3>5
      <4> QED
        BY <3>1, <3>2, <3>3, <4>1, <4>2 DEF Released
    <3> QED
      BY <1>25, <3>1, <3>6 DEF Fresh, Inserted, Exchanged
  <2> QED
    BY <1>5, <2>2, <2>3 DEF EntityKinds
<1>39. Keeps(r, Known(k))'
  <2>1. Known(k)' = k /\ Keeps(s, m) /\ done' = done
    BY <1>2, <1>4, <1>28 DEF Known, ListKept
  <2>2. \A d \in DOMAIN done : done[d] # t
    BY <1>4 DEF Range
  <2>3. \A d \in DOMAIN done : \E j \in 1 .. k : done[d] = r[j]
    <3> TAKE d \in DOMAIN done
    <3>1. PICK i \in 1 .. m : done[d] = s[i]
      BY <2>1 DEF Keeps
    <3>2. i \in 1 .. n /\ i # a
      BY <1>5, <1>6, <2>2, <3>1
    <3>3. PICK j \in 1 .. nn : from(j) = i
      BY <1>18, <3>2
    <3>4. j \in 1 .. k
      BY <1>5, <1>30, <3>1, <3>3 DEF from
    <3> QED
      BY <1>17, <3>1, <3>3, <3>4
  <2>4. \A d, e \in DOMAIN done, i, j \in 1 .. nn : done[d] = r[i] /\ done[e] = r[j] /\ d < e => i < j
    <3> TAKE d, e \in DOMAIN done, i, j \in 1 .. nn
    <3> HAVE done[d] = r[i] /\ done[e] = r[j] /\ d < e
    <3>1. from(i) \in DOMAIN s /\ from(j) \in DOMAIN s /\ done[d] = s[from(i)] /\ done[e] = s[from(j)]
      BY <1>5, <1>17, <1>18
    <3>2. from(i) < from(j)
      BY <2>1, <3>1 DEF Keeps
    <3> QED
      BY <1>18, <3>2
  <2> QED
    BY <1>17, <2>1, <2>3, <2>4 DEF Keeps
<1>40. Leaks(r, k)'
  <2>1. ASSUME NEW q, q \in Lost(r)'
        PROVE  q \in Lost(s)
    <3>1. q \in Ptr /\ InUse(q) /\ q \notin HeldBy(r)' /\ q \notin InHand'
      BY <1>15, <2>1 DEF Lost, Used
    <3>2. q = t \/ q \in PartsAt(t) => q \notin Used
      <4>1. t \in HeldBy(s) /\ \A y \in PartsAt(t) : y \in HeldBy(s)
        BY <1>5, <1>6, HeldAre
      <4>2. kind = "link" => q # t /\ q \notin PartsAt(t)
        BY <1>36, <3>1
      <4>3. kind = "node" => ~InUse(t) /\ \A y \in PartsAt(t) : ~InUse(y)
        BY <1>36, <4>1 DEF ListKept, UsedBy
      <4> QED
        BY <1>5, <4>2, <4>3 DEF EntityKinds, Used
    <3>3. q \in Used
      BY <3>1 DEF Used
    <3> QED
      BY <1>35, <1>36, <3>1, <3>2, <3>3 DEF Lost
  <2>2. Lost(r)' \subseteq Lost(s)
    BY <2>1
  <2>3. /\ m \in Int /\ k \in Int /\ Len(s) \in Int /\ Len(r) \in Int
        /\ cuts \in Nat /\ cuts' = cuts /\ kind' = kind /\ Leaks(s, m)
    BY <1>2, <1>5, <1>17, <1>31 DEF n, InMemory, ListKept
  <2> QED
    BY <1>5, <1>14, <1>31, <2>2, <2>3, LostShrinks
<1>41. ListKept(r, k)'
  BY <1>14, <1>22, <1>25, <1>29, <1>32, <1>33, <1>37, <1>38, <1>39, <1>40 DEF ListKept
<1> QED
  BY <1>17, <1>31, <1>41

-----------------------------------------------------------------------------
LEMMA CrashInitKept == CrashInit => CrashInvariant
<1> SUFFICES ASSUME CrashInit
             PROVE  CrashInvariant
  OBVIOUS
<1>1. /\ file = <<>> /\ DOMAIN file = {} /\ disk = Empty /\ mem = Empty /\ writes = <<>> /\ done = <<>>
      /\ cuts = 0 /\ kind \in EntityKinds /\ made = <<>> /\ nth = 1
  BY DEF CrashInit
<1>2. PICK e : e = <<>>
  OBVIOUS
<1>3. e \in Seq(Ptr) /\ Len(e) = 0 /\ DOMAIN e = {} /\ e = <<>>
  BY <1>2
<1>4. /\ \A other : ~Running(other)
      /\ ~Created /\ ~Deletion /\ GivenBack = {} /\ InHand = {}
  BY <1>1, IdleFacts
<1>5. InFile
  BY <1>1, FS_EmptySet DEF InFile
<1>6. InMemory
  BY <1>1 DEF InMemory, HeaderEnds, Empty
<1>7. Forwards(e) /\ Backwards(e)
  BY <1>3 DEF Forwards, Backwards
<1>8. MemoryEnds(e, 0)
  BY <1>1, <1>3 DEF MemoryEnds, AtPos, Empty
<1>9. FileEnds(e, 0) /\ Fresh(e)
  BY <1>1, <1>4 DEF FileEnds, Fresh, Inserted, Exchanged, Released
<1>10. UsedBy(e)
  <2>1. \A q : q \notin HeldBy(e)
    BY <1>3, HeldIs
  <2> QED
    BY <2>1 DEF UsedBy
<1>11. Plan(e)
  <2>1. <<>> \in Seq(Range(<<>>))
    OBVIOUS
  <2> QED
    BY <1>1, <2>1 DEF Plan
<1>12. Keeps(e, Known(0))
  <2>1. done \in Seq(Ptr) /\ DOMAIN done = {}
    BY <1>1
  <2> QED
    BY <2>1 DEF Keeps
<1>13. Leaks(e, 0)
  <2>1. Lost(e) = {}
    BY <1>1 DEF Lost, Used, InUse
  <2>2. Cardinality(Lost(e)) = 0
    BY <2>1, FS_EmptySet
  <2>3. MostBlocks[kind] \in Nat
    BY <1>1, CrashStoreAssumption DEF MostBlocks, EntityKinds
  <2> QED
    BY <1>1, <1>3, <2>2, <2>3 DEF Leaks
<1>14. ListKept(e, 0)
  BY <1>5, <1>6, <1>7, <1>8, <1>9, <1>10, <1>11, <1>12, <1>13 DEF ListKept
<1> QED
  BY <1>3, <1>14 DEF CrashInvariant

LEMMA CrashNextKept == CrashInvariant /\ [CrashNext]_crashVars => CrashInvariant'
<1> SUFFICES ASSUME CrashInvariant, [CrashNext]_crashVars, ~hurt'
             PROVE  (\E s \in Seq(Ptr), m \in Nat : ListKept(s, m))'
  BY DEF CrashInvariant
<1>1. CASE UNCHANGED crashVars
  <2>1. ~hurt
    BY <1>1 DEF crashVars
  <2>2. PICK s \in Seq(Ptr), m \in Nat : ListKept(s, m)
    BY <2>1 DEF CrashInvariant
  <2>3. ListKept(s, m)'
    <3>1. UNCHANGED <<kind, file, disk, mem, writes, layout, made, latest, nth, done, cuts>>
      BY <1>1 DEF crashVars, running
    <3>2. /\ \A other : Running(other)' <=> Running(other)
          /\ Target' = Target /\ (Created' <=> Created) /\ (Deletion' <=> Deletion)
          /\ \A p : PartsAt(p)' = PartsAt(p) /\ BlocksToFree(p)' = BlocksToFree(p) /\ (InUse(p)' <=> InUse(p))
          /\ \A v : WholeParts(v)' <=> WholeParts(v)
      <4>1. \A v : ValueFirst(v)' = ValueFirst(v)
        BY <3>1 DEF ValueFirst, HoldsText
      <4>2. \A p : BlocksToFree(p)' = BlocksToFree(p)
        BY <3>1, <4>1 DEF BlocksToFree
      <4>3. \A v : WholeParts(v)' <=> WholeParts(v)
        BY <3>1 DEF WholeParts, Held
      <4>4. \A p : PartsAt(p)' = PartsAt(p) /\ (InUse(p)' <=> InUse(p))
        BY <3>1 DEF PartsAt, InUse
      <4>5. /\ \A other : Running(other)' <=> Running(other)
            /\ Target' = Target /\ (Created' <=> Created) /\ (Deletion' <=> Deletion)
        BY <3>1 DEF Running, Target, Created, Deletion
      <4> QED
        BY <4>2, <4>3, <4>4, <4>5
    <3>3. InFile' /\ InMemory' /\ Keeps(s, Known(m))'
      BY <2>2, <3>1, <3>2 DEF ListKept, InFile, InMemory, Keeps, Known
    <3>4. Forwards(s)' /\ PartsOf(s)' = PartsOf(s) /\ HeldBy(s)' = HeldBy(s) /\ Used' = Used
      BY <2>2, <3>1, <3>2 DEF ListKept, Forwards, PartsOf, HeldBy, Used
    <3>5. Backwards(s)' /\ MemoryEnds(s, m)' /\ FileEnds(s, m)'
      BY <2>2, <3>1, <3>2 DEF ListKept, Backwards, MemoryEnds, Closing, FileEnds
    <3>6. GivenBack' = GivenBack /\ InHand' = InHand
      <4>1. PartsAt(Target)' = PartsAt(Target) /\ BlocksToFree(Target)' = BlocksToFree(Target)
            /\ PartsAt(latest)' = PartsAt(latest) /\ Replaced' = Replaced
        BY <3>1, <3>2 DEF PartsAt, BlocksToFree, ValueFirst, HoldsText, Replaced
      <4> QED
        BY <3>1, <3>2, <4>1 DEF GivenBack, InHand
    <3>7. Leaks(s, m)' /\ UsedBy(s)'
      BY <2>2, <3>1, <3>2, <3>4, <3>6 DEF ListKept, Leaks, Lost, UsedBy, MostBlocks
    <3>8. Plan(s)'
      BY <2>2, <3>1, PlanStays DEF ListKept
    <3>9. Fresh(s)'
      <4>1. Inserted(s)'
        BY <2>2, <3>1, <3>2, <3>4 DEF ListKept, Fresh, Inserted, Making, PartsAt, Layouts
      <4>2. Exchanged(s)'
        BY <2>2, <3>1, <3>2, <3>4 DEF ListKept, Fresh, Exchanged, Replacing, Replaced
      <4>3. Released(s)'
        BY <2>2, <3>1, <3>2, <3>4 DEF ListKept, Fresh, Released, BlocksToFree, ValueFirst, HoldsText, PartsAt
      <4> QED
        BY <2>2, <3>1, <4>1, <4>2, <4>3 DEF ListKept, Fresh
    <3> QED
      BY <3>3, <3>4, <3>5, <3>7, <3>8, <3>9 DEF ListKept
  <2> QED
    BY <2>3
<1>2. CASE CrashNext
  <2>1. PICK s \in Seq(Ptr), m \in Nat : ListKept(s, m)
    BY <1>2 DEF CrashInvariant, CrashNext
  <2>2. CASE \E parts \in Layouts[kind] : BeginInsert(parts)
    BY <2>1, <2>2, BeginInsertKept
  <2>3. CASE \E gone \in SUBSET ToSet(Listed) : Cardinality(gone) \in 1 .. MaxGone /\ BeginDelete(gone)
    BY <2>1, <2>3, BeginDeleteKept
  <2>4. CASE \E p \in ToSet(Listed) : \E k \in DOMAIN file[p].parts : BeginUpdate(p, k)
    BY <2>1, <2>4, BeginUpdateKept
  <2>5. CASE \E p \in Ptr : WritePart(p)
    BY <2>1, <2>5, WritePartKept
  <2>6. CASE \E p \in Ptr : WriteEntity(p)
    BY <2>1, <2>6, WriteEntityKept
  <2>7. CASE ChainLast
    BY <2>1, <2>7, ChainLastKept
  <2>8. CASE WriteHeader
    BY <2>1, <2>8, WriteHeaderKept
  <2>9. CASE FreeText
    BY <2>1, <2>9, FreeTextKept
  <2>10. CASE Free
    BY <2>1, <2>10, FreeKept
  <2>11. CASE CloseNext
    BY <2>1, <2>11, CloseNextKept
  <2>12. CASE ClosePrev
    BY <2>1, <2>12, ClosePrevKept
  <2>13. CASE SetText
    BY <2>1, <2>13, SetTextKept
  <2>14. CASE Cut
    BY <2>1, <2>14, CutKept
  <2> QED
    BY <1>2, <2>2, <2>3, <2>4, <2>5, <2>6, <2>7, <2>8, <2>9, <2>10, <2>11, <2>12, <2>13, <2>14 DEF CrashNext
<1> QED
  BY <1>1, <1>2

\* As long as no process ended where it must not, the blocks in the file are
\* such a list after every single write of create_node, link_create,
\* delete_nodes, link_delete, value_update and database_update_header, and
\* after every process that ended before it had written all.
THEOREM CrashKept == CrashSpec => []CrashInvariant
<1> QED
  BY CrashInitKept, CrashNextKept, PTL DEF CrashSpec

LEMMA KeptIsRecoverable ==
    ASSUME NEW s, NEW m, ListKept(s, m), ~Window
    PROVE  /\ IsInjective(Listed)
           /\ \A p \in ToSet(Listed) :
                 /\ InUse(p) /\ file[p].holds = kind
                 /\ \A k \in DOMAIN file[p].parts : InUse(file[p].parts[k])
                 /\ LayoutOf(p) \in Layouts[kind]
           /\ Fetched(Listed, ToSet(done)) = done
<1> DEFINE n == Len(s)
<1>1. /\ GivenBack = {} /\ ~Running("close_prev")
      /\ ~Created => disk = mem
  <2>1. CASE writes = <<>>
    BY <2>1, IdleFacts DEF ListKept, FileEnds
  <2>2. CASE writes # <<>>
    BY <2>2, OutsideWindow
  <2> QED
    BY <2>1, <2>2
<1>2. /\ DOMAIN s = 1 .. n /\ n \in Nat /\ m \in Nat /\ m <= n /\ s \in Seq(Ptr)
      /\ \A i, j \in 1 .. n : s[i] = s[j] => i = j
      /\ Forwards(s) /\ Keeps(s, Known(m)) /\ InFile
  BY KeptFacts DEF ListKept
<1>3. mem.first = AtPos(s, 1)
  BY <1>1 DEF ListKept, MemoryEnds, Closing
<1>4. CASE Listed = s
  <2>1. IsInjective(Listed)
    BY <1>2, <1>4 DEF IsInjective
  <2>2. ASSUME NEW p \in ToSet(Listed)
        PROVE  /\ InUse(p) /\ file[p].holds = kind
               /\ \A k \in DOMAIN file[p].parts : InUse(file[p].parts[k])
               /\ LayoutOf(p) \in Layouts[kind]
    <3>1. PICK i \in DOMAIN s : p = s[i]
      BY <1>4, <2>2 DEF ToSet
    <3>2. s[i] \in HeldBy(s) /\ \A q \in PartsAt(s[i]) : q \in HeldBy(s)
      BY HeldAre
    <3>3. \A q \in HeldBy(s) : InUse(q)
      BY <1>1 DEF ListKept, UsedBy
    <3>4. InUse(p) /\ \A q \in PartsAt(p) : InUse(q)
      BY <3>1, <3>2, <3>3
    <3>5. \A k \in DOMAIN file[p].parts : InUse(file[p].parts[k])
      BY <3>4 DEF PartsAt, Range
    <3>6. file[p].holds = kind /\ WholeParts(file[p].parts)
      BY <1>2, <3>1 DEF Forwards
    <3>7. LayoutOf(p) \in Layouts[kind]
      BY <3>6 DEF WholeParts, Held, LayoutOf
    <3> QED
      BY <3>4, <3>5, <3>6, <3>7
  <2>3. Fetched(s, ToSet(done)) = done
    <3>1. PICK d : d = done
      OBVIOUS
    <3>2. d \in Seq(Ptr) /\ s \in Seq(Ptr)
      BY <1>2, <3>1 DEF Keeps
    <3>3. \A k \in DOMAIN d : \E i \in DOMAIN s : d[k] = s[i]
      <4>1. Known(m) \in Int /\ Known(m) <= n
        BY <1>2 DEF Known
      <4> QED
        BY <1>2, <3>1, <4>1 DEF Keeps
    <3>4. \A k, l \in DOMAIN d, i, j \in DOMAIN s : d[k] = s[i] /\ d[l] = s[j] /\ k < l => i < j
      BY <1>2, <3>1 DEF Keeps
    <3>5. DOMAIN d = 1 .. Len(d) /\ DOMAIN s = 1 .. Len(s)
      BY <3>2
    <3>6. SubList(d, s)
      BY <1>2, <3>3, <3>4, <3>5 DEF SubList
    <3>7. Fetched(s, ToSet(d)) = d
      BY ONLY <3>2, <3>6, FetchedIs
    <3> QED
      BY <3>1, <3>7
  <2> QED
    BY <1>4, <2>1, <2>2, <2>3
<1>5. CASE Created /\ m = 1
  <2>1. disk.first = Null /\ Known(m) = 0
    BY <1>5 DEF ListKept, FileEnds, Known
  <2>2. Listed = <<>>
    <3>1. Pointed(file)
      BY <1>2, FileFields DEF InFile, Pointed
    <3>2. Chain(file, disk.first, <<>>)
      BY <2>1 DEF Chain, AtPos
    <3> QED
      BY <3>1, <3>2, WalkIsChain DEF Listed
  <2>3. done = <<>>
    <3>1. done \in Seq(Ptr) /\ DOMAIN done = {}
      BY <1>2, <2>1 DEF Keeps
    <3> QED
      BY <3>1
  <2>4. Fetched(<<>>, {}) = <<>>
    <3>1. PICK e : e = <<>>
      OBVIOUS
    <3>2. e \in Seq(Ptr) /\ Len(e) = 0
      BY <3>1
    <3>3. SubList(e, e) /\ ToSet(e) = {}
      BY <3>2 DEF SubList, ToSet
    <3>4. Fetched(e, ToSet(e)) = e
      BY ONLY <3>2, <3>3, FetchedIs
    <3> QED
      BY <3>1, <3>3, <3>4
  <2>5. ToSet(Listed) = {} /\ ToSet(done) = {} /\ IsInjective(Listed)
    BY <2>2, <2>3 DEF ToSet, IsInjective
  <2> QED
    BY <2>2, <2>3, <2>4, <2>5
<1>6. CASE ~(Created /\ m = 1)
  <2>1. disk.first = mem.first
    <3>1. CASE Created
      <4>1. m = n /\ m > 0 /\ disk.first = s[1]
        BY <1>6, <3>1 DEF ListKept, FileEnds
      <4> QED
        BY <1>2, <1>3, <4>1 DEF AtPos
    <3>2. CASE ~Created
      BY <1>1, <3>2
    <3> QED
      BY <3>1, <3>2
  <2>2. Listed = s
    BY <1>1, <2>1, ListedIs
  <2> QED
    BY <1>4, <2>2
<1> QED
  BY <1>5, <1>6

\* Outside of the windows whoever opens the file finds, by an iteration from the
\* header in it, every entity whose creation was completed, in order, and only
\* blocks of the right kind that are in use with their parts.
THEOREM AlwaysRecoverable == CrashSpec => []Recoverable
<1>1. CrashInvariant => Recoverable
  <2> SUFFICES ASSUME CrashInvariant, ~hurt, ~Window
               PROVE  /\ IsInjective(Listed)
                      /\ \A p \in ToSet(Listed) :
                            /\ InUse(p) /\ file[p].holds = kind
                            /\ \A k \in DOMAIN file[p].parts : InUse(file[p].parts[k])
                            /\ LayoutOf(p) \in Layouts[kind]
                      /\ Fetched(Listed, ToSet(done)) = done
    BY DEF Recoverable
  <2>1. PICK s \in Seq(Ptr), m \in Nat : ListKept(s, m)
    BY DEF CrashInvariant
  <2> QED
    BY <2>1, KeptIsRecoverable
<1> QED
  BY <1>1, CrashKept, PTL

LEMMA KeptIsBounded ==
    ASSUME NEW s, NEW m, ListKept(s, m), writes = <<>>
    PROVE  Cardinality({p \in Ptr : InUse(p)} \ Owned) <= MostBlocks[kind] * cuts
<1>1. Listed = s /\ InHand = {} /\ InFile /\ cuts \in Nat
  BY IdleList, IdleFacts DEF ListKept, InMemory
<1>2. Owned = HeldBy(s)
  <2>1. \A q : q \in Owned <=> \E p \in ToSet(s) : q = p \/ q \in PartsAt(p)
    BY <1>1 DEF Owned, PartsAt, ToSet, Range
  <2>2. \A q : q \in Owned <=> \E i \in DOMAIN s : q = s[i] \/ q \in PartsAt(s[i])
    BY <2>1 DEF ToSet
  <2>3. \A q : q \in HeldBy(s) <=> \E i \in DOMAIN s : q = s[i] \/ q \in PartsAt(s[i])
    BY HeldIs, HeldAre
  <2>4. PICK owned, held : owned = Owned /\ held = HeldBy(s)
    OBVIOUS
  <2>5. \A q : q \in owned <=> q \in held
    BY <2>2, <2>3, <2>4
  <2> QED
    BY <2>4, <2>5
<1>3. {p \in Ptr : InUse(p)} \ Owned = Lost(s)
  BY <1>1, <1>2 DEF Lost, Used
<1>4. IsFiniteSet(Lost(s))
  BY <1>1, UsedFinite, FS_Subset DEF Lost
<1>5. Cardinality(Lost(s)) \in Nat
  BY <1>4, FS_CardinalityType
<1>6. PICK c, k, e : c = MostBlocks[kind] /\ k = cuts /\ e = Len(s) - m
  OBVIOUS
<1>7. c \in Nat /\ k \in Nat /\ e \in Nat /\ Cardinality(Lost(s)) <= c * (k - e)
  BY <1>1, <1>6, KeptFacts DEF ListKept, Leaks
<1>8. c * (k - e) <= c * k /\ c * (k - e) \in Int /\ c * k \in Int
  <2>1. k - e <= k /\ k - e \in Int
    BY <1>7
  <2> QED
    BY <1>7, <2>1, TimesMore
<1>9. Cardinality(Lost(s)) <= c * k
  BY <1>5, <1>7, <1>8
<1> QED
  BY <1>3, <1>6, <1>9

\* When no query runs, the blocks that are in use for nothing are at most those
\* of one entity, with all its values and texts, for each process that ended in
\* a query.
THEOREM AlwaysLeakBounded == CrashSpec => []LeakBounded
<1>1. CrashInvariant => LeakBounded
  <2> SUFFICES ASSUME CrashInvariant, ~hurt, writes = <<>>
               PROVE  Cardinality({p \in Ptr : InUse(p)} \ Owned) <= MostBlocks[kind] * cuts
    BY DEF LeakBounded
  <2>1. PICK s \in Seq(Ptr), m \in Nat : ListKept(s, m)
    BY DEF CrashInvariant
  <2> QED
    BY <2>1, KeptIsBounded
<1> QED
  BY <1>1, CrashKept, PTL
==============================================================================
