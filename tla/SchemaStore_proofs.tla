------------------------- MODULE SchemaStore_proofs -------------------------
(***************************************************************************)
(* The list of the schemas, proved for any addresses, names and numbers of *)
(* attributes: it ends, its blocks have one owner each, and what makes it  *)
(* lose its end is a drop of the last schema.                              *)
(***************************************************************************)
EXTENDS SchemaStore, EntityList_proofs

-----------------------------------------------------------------------------
(* The invariant.  After a drop of the last schema of several there may be *)
(* schemas that the list does not hold.  None of them leads into the list, *)
(* or a drop in the list would leave a pointer to a free block; and the    *)
(* end that the header remembers, be it in the list or not, leads nowhere. *)

Listing ==
    /\ Pointed(schema)
    /\ Chain(schema, first, Listed)
    /\ \A q \in DOMAIN schema :
          /\ {"name", "owns", "next"} \subseteq DOMAIN schema[q]
          /\ schema[q].next \in DOMAIN schema \union {Null}
          /\ q \notin Range(Listed) => schema[q].next \notin Range(Listed)
    /\ last # Null => last \in DOMAIN schema /\ schema[last].next = Null

Inv == Listing /\ OwnedOnce

\* Schemas that were in the list lead where they led.
LEMMA SameChain ==
    ASSUME NEW list, NEW start, NEW s, Chain(list, start, s), NEW other,
           \A q \in Range(s) : q \in DOMAIN other /\ other[q].next = list[q].next
    PROVE  Chain(other, start, s)
<1>1. s \in Seq(DOMAIN list) /\ \A i \in DOMAIN s : s[i] \in Range(s)
  BY DEF Chain, Range
<1>2. s \in Seq(Range(s))
  BY <1>1, SeqOfItsElements
<1>3. s \in Seq(DOMAIN other)
  BY <1>2
<1> QED
  BY <1>1, <1>3 DEF Chain

\* A chain begins where it is said to, with no block if that is nowhere.
LEMMA ChainStart ==
    ASSUME NEW list, NEW start, NEW s, Pointed(list), Chain(list, start, s)
    PROVE  start = Null <=> s = <<>>
<1>1. s \in Seq(DOMAIN list) /\ start = AtPos(s, 1) /\ \A i \in DOMAIN s : s[i] # Null
  BY EntityListAssumption DEF Pointed, Chain
<1>2. s = <<>> <=> 1 \notin DOMAIN s
  BY <1>1
<1> QED
  BY <1>1, <1>2 DEF AtPos

LEMMA InitInv == Init => Inv
<1> SUFFICES ASSUME Init
             PROVE  Inv
  OBVIOUS
<1>1. DOMAIN schema = {} /\ first = Null /\ last = Null /\ used = {}
  BY DEF Init
<1>2. Pointed(schema) /\ Chain(schema, first, <<>>)
  BY <1>1, FS_EmptySet DEF Pointed, Chain, AtPos
<1>3. Listed = <<>>
  BY <1>2, WalkIsChain DEF Listed
<1> QED
  BY <1>1, <1>2, <1>3 DEF Inv, Listing, OwnedOnce

-----------------------------------------------------------------------------
(* The creation of a schema *)

LEMMA ListedFacts ==
    ASSUME Inv
    PROVE  /\ Listed \in Seq(DOMAIN schema) /\ Len(Listed) \in Nat /\ DOMAIN Listed = 1 .. Len(Listed)
           /\ Range(Listed) \subseteq DOMAIN schema
           /\ \A i \in DOMAIN Listed : Listed[i] \in Range(Listed) /\ Listed[i] # Null
           /\ \A i, j \in DOMAIN Listed : Listed[i] = Listed[j] => i = j
           /\ (first = Null <=> Listed = <<>>)
           /\ (last \in Range(Listed) => Listed # <<>> /\ last = Listed[Len(Listed)])
<1>1. /\ Listed \in Seq(DOMAIN schema) /\ Len(Listed) \in Nat /\ DOMAIN Listed = 1 .. Len(Listed)
      /\ \A i \in DOMAIN Listed : Listed[i] \in DOMAIN schema /\ Listed[i] # Null
      /\ first = AtPos(Listed, 1)
      /\ \A i \in DOMAIN Listed : schema[Listed[i]].next = AtPos(Listed, i + 1)
      /\ \A i, j \in DOMAIN Listed : Listed[i] = Listed[j] => i = j
  BY EntityListAssumption DEF Inv, Listing, Pointed, Chain
<1>3. first = Null <=> Listed = <<>>
  BY ChainStart DEF Inv, Listing
<1>4. ASSUME last \in Range(Listed)
      PROVE  Listed # <<>> /\ last = Listed[Len(Listed)]
  <2>1. PICK k \in DOMAIN Listed : last = Listed[k]
    BY <1>4 DEF Range
  <2>2. schema[last].next = Null
    BY <1>1, <2>1 DEF Inv, Listing
  <2>3. k + 1 \notin DOMAIN Listed
    BY <1>1, <2>1, <2>2 DEF AtPos
  <2>4. k = Len(Listed)
    BY <1>1, <2>3
  <2> QED
    BY <1>1, <2>1, <2>4
<1> QED
  BY <1>1, <1>3, <1>4 DEF Range

\* What a creation writes: the new schema comes behind the last one, if the
\* header remembers it.
LEMMA CreateWrites ==
    ASSUME Inv, NEW name, NEW n, NEW at \in Injection(Parts(n), Ptr \ used), Create(name, n, at)
    PROVE  LET p == at[<<"schema", 0>>]
           IN  /\ Listing'
               /\ Listed' = IF first = Null THEN <<p>> ELSE IF last \in Range(Listed) THEN Append(Listed, p) ELSE Listed
               /\ p \in Range(at) /\ p \notin DOMAIN schema /\ last' = p
               /\ DOMAIN schema' = DOMAIN schema \union {p}
               /\ schema'[p].owns = Range(at) \ {p}
               /\ \A q \in DOMAIN schema : schema'[q].owns = schema[q].owns
<1> DEFINE p == at[<<"schema", 0>>]
           block == [name |-> name, owns |-> Range(at) \ {p}, next |-> Null]
           linked == IF first = Null THEN schema ELSE SetNext(schema, last, p)
<1>1. /\ schema' = [q \in DOMAIN schema \union {p} |-> IF q = p THEN block ELSE linked[q]]
      /\ first' = IF first = Null THEN p ELSE first
      /\ last' = p
  BY DEF Create, NewLast
<1>2. block.owns = Range(at) \ {p} /\ block.next = Null /\ DOMAIN block = {"name", "owns", "next"}
  OBVIOUS
<1>3. p \in Range(at) /\ p \in Ptr \ used
  <2>1. <<"schema", 0>> \in Parts(n)
    BY DEF Parts
  <2> QED
    BY <2>1 DEF Injection, Range
<1>4. p \notin DOMAIN schema /\ p # Null
  BY <1>3, EntityListAssumption DEF Inv, OwnedOnce
<1> HIDE DEF block
<1>5. /\ DOMAIN schema' = DOMAIN schema \union {p} /\ schema'[p] = block
      /\ \A q \in DOMAIN schema : schema'[q] = linked[q]
  BY <1>1, <1>4
<1>6. ASSUME NEW q \in DOMAIN schema
      PROVE  /\ schema'[q].owns = schema[q].owns /\ DOMAIN schema'[q] = DOMAIN schema[q]
             /\ schema'[q].next = IF first # Null /\ q = last THEN p ELSE schema[q].next
  BY <1>5 DEF SetNext, Inv, Listing
<1> HIDE DEF linked, p
<1>7. Pointed(schema')
  BY <1>2, <1>3, <1>5, <1>6, FS_AddElement DEF Inv, Listing, Pointed
<1>8. /\ Listed \in Seq(DOMAIN schema) /\ Len(Listed) \in Nat /\ DOMAIN Listed = 1 .. Len(Listed)
      /\ Range(Listed) \subseteq DOMAIN schema
      /\ \A i \in DOMAIN Listed : Listed[i] \in Range(Listed) /\ Listed[i] # Null
      /\ \A i, j \in DOMAIN Listed : Listed[i] = Listed[j] => i = j
      /\ (first = Null <=> Listed = <<>>)
      /\ (last \in Range(Listed) => Listed # <<>> /\ last = Listed[Len(Listed)])
  BY ListedFacts
<1> DEFINE t == IF first = Null THEN <<p>> ELSE IF last \in Range(Listed) THEN Append(Listed, p) ELSE Listed
<1>9. Chain(schema', first', t) /\ Range(t) \subseteq Range(Listed) \union {p}
      /\ ((first = Null \/ last \in Range(Listed)) => p \in Range(t))
      /\ (~(first = Null \/ last \in Range(Listed)) => p \notin Range(t))
      /\ Range(Listed) \subseteq Range(t)
  <2>1. CASE first = Null
    <3>1. t = <<p>> /\ Range(t) = {p} /\ Range(Listed) = {}
      BY <1>8, <2>1 DEF Range
    <3>2. Chain(schema', first', <<p>>)
      BY <1>1, <1>2, <1>5, <2>1 DEF Chain, AtPos
    <3> QED
      BY <2>1, <3>1, <3>2
  <2>2. CASE first # Null /\ last \in Range(Listed)
    <3> DEFINE k == Len(Listed)
    <3>1. k \in Nat /\ k # 0 /\ last = Listed[k] /\ k \in DOMAIN Listed
      BY <1>8, <2>2
    <3>2. /\ t \in Seq(DOMAIN schema') /\ DOMAIN t = 1 .. k + 1 /\ t[k + 1] = p
          /\ \A i \in 1 .. k : t[i] = Listed[i]
      <4>1. Listed \in Seq(DOMAIN schema') /\ p \in DOMAIN schema'
        BY <1>5, <1>8
      <4> QED
        BY <2>2, <4>1
    <3> HIDE DEF k, t
    <3>3. \A i \in 1 .. k : schema[Listed[i]].next = AtPos(Listed, i + 1)
      BY <1>8 DEF Inv, Listing, Chain, k
    <3>4. \A i \in 1 .. k : schema'[t[i]].next = AtPos(t, i + 1)
      <4> TAKE i \in 1 .. k
      <4>1. t[i] = Listed[i] /\ Listed[i] \in DOMAIN schema /\ (Listed[i] = last <=> i = k)
        BY <1>8, <3>1, <3>2 DEF k
      <4>2. CASE i = k
        BY <1>6, <2>2, <3>1, <3>2, <4>1, <4>2 DEF AtPos
      <4>3. CASE i # k
        <5>1. i + 1 \in 1 .. k /\ i + 1 \in 1 .. k + 1
          BY <3>1, <4>3
        <5>2. DOMAIN Listed = 1 .. k
          BY <1>8 DEF k
        <5>3. AtPos(Listed, i + 1) = Listed[i + 1] /\ AtPos(t, i + 1) = t[i + 1]
          BY <3>2, <5>1, <5>2 DEF AtPos
        <5> QED
          BY <1>6, <3>2, <3>3, <4>1, <4>3, <5>1, <5>3
      <4> QED
        BY <4>2, <4>3
    <3>5. schema'[t[k + 1]].next = AtPos(t, k + 2)
      BY <1>2, <1>5, <3>1, <3>2 DEF AtPos
    <3>6. \A i, j \in DOMAIN t : t[i] = t[j] => i = j
      BY <1>4, <1>8, <3>1, <3>2 DEF k
    <3>7. first' = AtPos(t, 1)
      BY <1>1, <1>8, <2>2, <3>1, <3>2 DEF AtPos, Inv, Listing, Chain, k
    <3>8. Chain(schema', first', t)
      BY <3>1, <3>2, <3>4, <3>5, <3>6, <3>7 DEF Chain
    <3>9. Range(t) = Range(Listed) \union {p}
      BY <1>8, <3>1, <3>2 DEF Range, k
    <3> QED
      BY <2>2, <3>8, <3>9
  <2>3. CASE first # Null /\ last \notin Range(Listed)
    <3>1. t = Listed /\ first' = first
      BY <1>1, <2>3
    <3>2. \A q \in Range(Listed) : q \in DOMAIN schema' /\ schema'[q].next = schema[q].next
      BY <1>5, <1>6, <1>8, <2>3
    <3>3. Chain(schema', first, Listed)
      BY <3>2, SameChain DEF Inv, Listing
    <3> QED
      BY <1>4, <1>8, <2>3, <3>1, <3>3
  <2> QED
    BY <2>1, <2>2, <2>3
<1> HIDE DEF t
<1>10. Listed' = t
  BY <1>7, <1>9, WalkIsChain DEF Listed
<1>11. ASSUME NEW q \in DOMAIN schema'
       PROVE  /\ {"name", "owns", "next"} \subseteq DOMAIN schema'[q]
              /\ q \notin Range(t) => schema'[q].next \notin Range(t)
  <2>1. CASE q = p
    <3>1. Null \notin Range(t)
      BY <1>4, <1>8, <1>9 DEF Range
    <3> QED
      BY <1>2, <1>5, <2>1, <3>1
  <2>2. CASE q \in DOMAIN schema
    <3>1. {"name", "owns", "next"} \subseteq DOMAIN schema[q]
          /\ (q \notin Range(Listed) => schema[q].next \notin Range(Listed))
      BY <2>2 DEF Inv, Listing
    <3>2. schema[q].next # p
      BY <1>4, <2>2 DEF Inv, Listing, Pointed
    <3> QED
      BY <1>6, <1>9, <2>2, <3>1, <3>2
  <2> QED
    BY <1>5, <2>1, <2>2
<1>12. \A q \in DOMAIN schema' : schema'[q].next \in DOMAIN schema' \union {Null}
  BY <1>2, <1>5, <1>6 DEF Inv, Listing
<1>13. Listing'
  BY <1>1, <1>2, <1>5, <1>7, <1>9, <1>10, <1>11, <1>12 DEF Listing
<1> QED
  BY <1>1, <1>2, <1>3, <1>4, <1>5, <1>6, <1>10, <1>13 DEF p, t

\* the blocks that schemas own
Owned == UNION {schema[q].owns : q \in DOMAIN schema}

LEMMA CreateInv ==
    ASSUME Inv, NEW name, NEW n, NEW at \in Injection(Parts(n), Ptr \ used), Create(name, n, at)
    PROVE  Inv'
<1> DEFINE p == at[<<"schema", 0>>]
<1>1. /\ Listing'
      /\ p \in Range(at) /\ p \notin DOMAIN schema
      /\ DOMAIN schema' = DOMAIN schema \union {p}
      /\ schema'[p].owns = Range(at) \ {p}
      /\ \A q \in DOMAIN schema : schema'[q].owns = schema[q].owns
  BY CreateWrites
<1>2. used' = used \union Range(at) /\ Range(at) \intersect used = {}
  BY DEF Create, Injection, Range
<1> HIDE DEF p
<1>3. used = DOMAIN schema \union Owned
  BY DEF Inv, OwnedOnce, Owned
<1>4. Owned' = Owned \union (Range(at) \ {p})
  <2>1. Owned' = UNION {schema'[q].owns : q \in DOMAIN schema'}
    BY DEF Owned
  <2>2. \A b \in Owned \union (Range(at) \ {p}) : b \in Owned'
    BY <1>1, <2>1 DEF Owned
  <2>3. ASSUME NEW q \in DOMAIN schema', NEW b \in schema'[q].owns
        PROVE  b \in Owned \union (Range(at) \ {p})
    <3>1. CASE q = p
      BY <1>1, <2>3, <3>1
    <3>2. CASE q \in DOMAIN schema
      BY <1>1, <2>3, <3>2 DEF Owned
    <3> QED
      BY <1>1, <3>1, <3>2
  <2>4. \A b \in Owned' : b \in Owned \union (Range(at) \ {p})
    BY <2>1, <2>3
  <2> QED
    BY <2>2, <2>4
<1>5. \A q \in DOMAIN schema : schema[q].owns \subseteq used
  BY <1>3 DEF Owned
<1>6. ASSUME NEW q \in DOMAIN schema', NEW r \in DOMAIN schema'
      PROVE  r \notin schema'[q].owns /\ (q # r => schema'[q].owns \intersect schema'[r].owns = {})
  <2>1. CASE q = p /\ r = p
    BY <1>1, <2>1
  <2>2. CASE q = p /\ r \in DOMAIN schema
    BY <1>1, <1>2, <1>3, <1>5, <2>2
  <2>3. CASE q \in DOMAIN schema /\ r = p
    BY <1>1, <1>2, <1>3, <1>5, <2>3
  <2>4. CASE q \in DOMAIN schema /\ r \in DOMAIN schema
    BY <1>1, <2>4 DEF Inv, OwnedOnce
  <2> QED
    BY <1>1, <2>1, <2>2, <2>3, <2>4
<1>7. used' = DOMAIN schema' \union Owned'
  BY <1>1, <1>2, <1>3, <1>4
<1>8. OwnedOnce'
  BY <1>6, <1>7 DEF OwnedOnce, Owned
<1> QED
  BY <1>1, <1>8 DEF Inv

-----------------------------------------------------------------------------
(* The drop of a schema *)

LEMMA UnlinkWrites ==
    ASSUME Inv, NEW i \in DOMAIN Listed, Unlink(i)
    PROVE  LET p == Listed[i]
           IN  /\ Listing'
               /\ Range(Listed') = Range(Listed) \ {p}
               /\ Len(Listed') = Len(Listed) - 1
               /\ i # Len(Listed) => Listed'[Len(Listed) - 1] = Listed[Len(Listed)]
               /\ p \in DOMAIN schema /\ DOMAIN schema' = DOMAIN schema \ {p}
               /\ last' = IF last = p THEN Null ELSE last
               /\ \A q \in DOMAIN schema' : schema'[q].owns = schema[q].owns
<1> DEFINE n == Len(Listed)
           p == Listed[i]
           closed == IF i = 1 THEN schema ELSE SetNext(schema, Listed[i - 1], schema[p].next)
           old(j) == IF j < i THEN j ELSE j + 1
           t == RemoveAt(Listed, i)
<1>1. /\ Listed \in Seq(DOMAIN schema) /\ n \in Nat /\ DOMAIN Listed = 1 .. n /\ i \in 1 .. n
      /\ Range(Listed) \subseteq DOMAIN schema
      /\ \A j \in 1 .. n : Listed[j] \in Range(Listed) /\ Listed[j] # Null
      /\ \A j, k \in 1 .. n : Listed[j] = Listed[k] => j = k
  BY ListedFacts
<1>2. /\ first' = IF i = 1 THEN schema[p].next ELSE first
      /\ last' = IF last = p THEN Null ELSE last
      /\ schema' = Restrict(closed, DOMAIN schema \ {p})
  BY DEF Unlink, LastAfter, Closed
<1>3. /\ DOMAIN schema' = DOMAIN schema \ {p}
      /\ \A q \in DOMAIN schema' : schema'[q] = closed[q]
  BY <1>2 DEF Restrict
<1>4. p \in DOMAIN schema
  BY <1>1
<1>5. ASSUME NEW q \in DOMAIN schema'
      PROVE  /\ schema'[q].owns = schema[q].owns /\ DOMAIN schema'[q] = DOMAIN schema[q]
             /\ schema'[q].next = IF i # 1 /\ q = Listed[i - 1] THEN schema[p].next ELSE schema[q].next
  BY <1>3 DEF SetNext, Inv, Listing
<1>6. /\ t \in Seq(DOMAIN schema) /\ DOMAIN t = 1 .. n - 1 /\ Len(t) = n - 1
      /\ \A j \in 1 .. n - 1 : t[j] = Listed[old(j)]
  <2>1. Listed \in Seq(DOMAIN schema) /\ i \in DOMAIN Listed
    BY <1>1
  <2>2. /\ t \in Seq(DOMAIN schema) /\ DOMAIN t = 1 .. n - 1 /\ Len(t) = n - 1
        /\ \A j \in 1 .. n - 1 : t[j] = Listed[IF j < i THEN j ELSE j + 1]
    BY <2>1, RemoveAtFacts
  <2> QED
    BY <2>2
<1> HIDE DEF t, n, p, closed
<1>7. /\ first = AtPos(Listed, 1)
      /\ \A j \in 1 .. n : schema[Listed[j]].next = AtPos(Listed, j + 1)
  BY <1>1 DEF Inv, Listing, Chain
<1>8. \A j \in 0 .. n : AtPos(t, j) = IF j < i THEN AtPos(Listed, j) ELSE AtPos(Listed, j + 1)
  BY <1>1, <1>6 DEF AtPos
<1>9. \A j \in 1 .. n - 1 : old(j) \in 1 .. n /\ old(j) # i
  BY <1>1
<1>10. ASSUME NEW j \in 1 .. n - 1
       PROVE  t[j] \in DOMAIN schema' /\ schema'[t[j]].next = AtPos(t, j + 1)
  <2> DEFINE k == old(j)
  <2>1. k \in 1 .. n /\ k # i /\ t[j] = Listed[k]
    BY <1>6, <1>9
  <2>2. t[j] \in DOMAIN schema'
    BY <1>1, <1>3, <2>1 DEF p
  <2>3. (i # 1 /\ Listed[k] = Listed[i - 1]) <=> k = i - 1
    BY <1>1, <2>1
  <2>4. AtPos(t, j + 1) = IF k = i - 1 THEN AtPos(Listed, i + 1) ELSE AtPos(Listed, k + 1)
    BY <1>1, <1>8
  <2> HIDE DEF k
  <2>5. schema[p].next = AtPos(Listed, i + 1) /\ schema[Listed[k]].next = AtPos(Listed, k + 1)
    BY <1>1, <1>7, <2>1 DEF p
  <2> QED
    BY <1>5, <2>1, <2>2, <2>3, <2>4, <2>5
<1>11. t \in Seq(DOMAIN schema')
  BY <1>6, <1>10
<1>12. \A j, k \in DOMAIN t : t[j] = t[k] => j = k
  <2>1. \A j, k \in 1 .. n - 1 : old(j) = old(k) => j = k
    BY <1>1
  <2> HIDE DEF old
  <2> QED
    BY <1>1, <1>6, <1>9, <2>1
<1>13. first' = AtPos(t, 1)
  <2>1. CASE i = 1
    BY <1>1, <1>2, <1>7, <1>8, <2>1 DEF p
  <2>2. CASE i # 1
    BY <1>1, <1>2, <1>7, <1>8, <2>2
  <2> QED
    BY <2>1, <2>2
<1>14. Chain(schema', first', t)
  BY <1>6, <1>10, <1>11, <1>12, <1>13 DEF Chain
<1>15. Range(t) = Range(Listed) \ {p}
  <2>1. \A j \in 1 .. n - 1 : t[j] \in Range(Listed) /\ t[j] # p
    BY <1>1, <1>6, <1>9 DEF p
  <2>2. ASSUME NEW k \in 1 .. n, k # i
        PROVE  Listed[k] \in Range(t)
    <3>1. CASE k < i
      <4>1. k \in 1 .. n - 1 /\ old(k) = k
        BY <1>1, <3>1
      <4> QED
        BY <1>6, <4>1 DEF Range
    <3>2. CASE k > i
      <4>1. k - 1 \in 1 .. n - 1 /\ old(k - 1) = k
        BY <1>1, <3>2
      <4> QED
        BY <1>6, <4>1 DEF Range
    <3> QED
      BY <1>1, <2>2, <3>1, <3>2
  <2> QED
    BY <1>1, <1>6, <2>1, <2>2 DEF Range, p
<1>16. ASSUME NEW q \in DOMAIN schema', q \notin Range(t)
       PROVE  schema'[q].next = schema[q].next /\ schema[q].next \notin Range(Listed)
  <2>1. q \notin Range(Listed)
    BY <1>3, <1>15, <1>16
  <2>2. i # 1 => Listed[i - 1] \in Range(Listed)
    BY <1>1
  <2> QED
    BY <1>3, <1>5, <2>1, <2>2 DEF Inv, Listing
<1>17. /\ Pointed(schema')
       /\ \A q \in DOMAIN schema' : schema'[q].next \in DOMAIN schema' \union {Null}
  <2>1. DOMAIN schema' \subseteq Ptr /\ IsFiniteSet(DOMAIN schema')
    BY <1>3, FS_RemoveElement DEF Inv, Listing, Pointed
  <2>2. ASSUME NEW q \in DOMAIN schema'
        PROVE  schema'[q].next \in DOMAIN schema' \union {Null}
    <3>1. CASE q \in Range(t)
      <4>1. PICK j \in 1 .. n - 1 : t[j] = q
        BY <1>6, <3>1 DEF Range
      <4>2. schema'[q].next = AtPos(t, j + 1)
        BY <1>10, <4>1
      <4> QED
        BY <1>6, <1>10, <4>2 DEF AtPos
    <3>2. CASE q \notin Range(t)
      <4>1. schema'[q].next = schema[q].next /\ schema[q].next \notin Range(Listed)
        BY <1>16, <3>2
      <4>2. p \in Range(Listed)
        BY <1>1 DEF p
      <4> QED
        BY <1>3, <4>1, <4>2 DEF Inv, Listing, Pointed
    <3> QED
      BY <3>1, <3>2
  <2> QED
    BY <2>1, <2>2 DEF Pointed
<1>18. Listed' = t
  BY <1>14, <1>17, WalkIsChain DEF Listed
<1>19. ASSUME last' # Null
       PROVE  last' \in DOMAIN schema' /\ schema'[last'].next = Null
  <2>1. last' = last /\ last # p /\ last # Null
    BY <1>2, <1>19
  <2>2. last \in DOMAIN schema /\ schema[last].next = Null
    BY <2>1 DEF Inv, Listing
  <2>3. ASSUME i # 1
        PROVE  last # Listed[i - 1]
    <3>1. i - 1 \in 1 .. n /\ (i - 1) + 1 = i /\ i \in DOMAIN Listed
      BY <1>1, <2>3
    <3>2. schema[Listed[i - 1]].next = Listed[i]
      BY <1>7, <3>1 DEF AtPos
    <3> QED
      BY <1>1, <2>2, <3>2
  <2> QED
    BY <1>3, <1>5, <2>1, <2>2, <2>3
<1>20. \A q \in DOMAIN schema' :
          /\ {"name", "owns", "next"} \subseteq DOMAIN schema'[q]
          /\ q \notin Range(t) => schema'[q].next \notin Range(t)
  BY <1>3, <1>5, <1>15, <1>16 DEF Inv, Listing
<1>21. Listing'
  BY <1>14, <1>17, <1>18, <1>19, <1>20 DEF Listing
<1>22. i # n => t[n - 1] = Listed[n]
  <2> SUFFICES ASSUME i # n
               PROVE  t[n - 1] = Listed[n]
    OBVIOUS
  <2>1. n - 1 \in 1 .. n - 1 /\ old(n - 1) = n
    BY <1>1
  <2> QED
    BY <1>6, <2>1
<1> QED
  BY <1>2, <1>3, <1>4, <1>5, <1>6, <1>15, <1>18, <1>21, <1>22 DEF p, n

LEMMA UnlinkInv ==
    ASSUME Inv, NEW i \in DOMAIN Listed, Unlink(i)
    PROVE  Inv'
<1> DEFINE p == Listed[i]
<1>1. /\ Listing'
      /\ p \in DOMAIN schema /\ DOMAIN schema' = DOMAIN schema \ {p}
      /\ \A q \in DOMAIN schema' : schema'[q].owns = schema[q].owns
  BY UnlinkWrites
<1>2. used' = used \ ({p} \union schema[p].owns)
  BY DEF Unlink, Freed
<1> HIDE DEF p
<1>3. /\ used = DOMAIN schema \union UNION {schema[q].owns : q \in DOMAIN schema}
      /\ \A q, r \in DOMAIN schema :
            r \notin schema[q].owns /\ (q # r => schema[q].owns \intersect schema[r].owns = {})
  BY DEF Inv, OwnedOnce
<1>4. used' = DOMAIN schema' \union UNION {schema'[q].owns : q \in DOMAIN schema'}
  <2>1. UNION {schema'[q].owns : q \in DOMAIN schema'} = UNION {schema[q].owns : q \in DOMAIN schema \ {p}}
    BY <1>1
  <2>2. \A q \in DOMAIN schema \ {p} :
           p \notin schema[q].owns /\ q \notin schema[p].owns /\ schema[q].owns \intersect schema[p].owns = {}
    BY <1>1, <1>3
  <2> QED
    BY <1>1, <1>2, <1>3, <2>1, <2>2
<1>5. OwnedOnce'
  BY <1>1, <1>3, <1>4 DEF OwnedOnce
<1> QED
  BY <1>1, <1>5 DEF Inv

-----------------------------------------------------------------------------
(* The theorems *)

LEMMA NextCases ==
    ASSUME [Next]_vars
    PROVE  \/ \E name \in Names, n \in 0 .. MaxAttrs : \E at \in Injection(Parts(n), Ptr \ used) : Create(name, n, at)
           \/ \E i \in DOMAIN Listed : Unlink(i)
           \/ UNCHANGED <<used, first, last, schema>>
BY DEF Next, vars, Get, Drop

LEMMA NextInv ==
    ASSUME Inv, [Next]_vars
    PROVE  Inv'
<1>1. ASSUME NEW name \in Names, NEW n \in 0 .. MaxAttrs, NEW at \in Injection(Parts(n), Ptr \ used),
             Create(name, n, at)
      PROVE  Inv'
  BY <1>1, CreateInv
<1>2. ASSUME NEW i \in DOMAIN Listed, Unlink(i)
      PROVE  Inv'
  BY <1>2, UnlinkInv
<1>3. CASE UNCHANGED <<used, first, last, schema>>
  BY <1>3 DEF Inv, Listing, OwnedOnce, Listed
<1> QED
  BY <1>1, <1>2, <1>3, NextCases

LEMMA Invariance == Spec => []Inv
<1>1. Init => Inv
  BY InitInv
<1>2. Inv /\ [Next]_vars => Inv'
  BY NextInv
<1> QED
  BY <1>1, <1>2, PTL DEF Spec

\* An iteration over the schemas ends, reads no schema twice and no block that
\* is not a schema; and no insertion writes a pointer into a block of another
\* kind.
THEOREM SchemasEnd == Spec => []ListEnds
<1>1. ASSUME Inv
      PROVE  ListEnds
  <2>1. /\ Len(Listed) \in Nat /\ DOMAIN Listed = 1 .. Len(Listed)
        /\ \A i, j \in DOMAIN Listed : Listed[i] = Listed[j] => i = j
        /\ (first = Null <=> Listed = <<>>)
    BY <1>1, ListedFacts
  <2>2. ASSUME Listed # <<>>
        PROVE  schema[Last(Listed)].next = Null
    <3>1. Len(Listed) \in DOMAIN Listed /\ Len(Listed) + 1 \notin DOMAIN Listed
      BY <1>1, <2>1, <2>2, ListedFacts
    <3> QED
      BY <1>1, <3>1 DEF Inv, Listing, Chain, AtPos, Last
  <2> QED
    BY <1>1, <2>1, <2>2 DEF ListEnds, Inv, Listing, IsInjective
<1> QED
  BY <1>1, Invariance, PTL

\* Dropping a schema gives back all of its blocks and none of another's.
THEOREM SchemaBlocksOwned == Spec => []OwnedOnce
<1>1. Inv => OwnedOnce
  BY DEF Inv
<1> QED
  BY <1>1, Invariance, PTL

\* Only a drop of the last schema of several leaves a header that does not
\* name both ends of a list of all schemas.
THEOREM OnlyTailDrop == Spec => OnlyTailDropLosesEnd
<1>1. ASSUME Inv, [Next]_vars, HeaderNamesEnds, ~(last' = Null /\ first' # Null)
      PROVE  HeaderNamesEnds'
  <2>1. /\ Range(Listed) = DOMAIN schema
        /\ last = IF first = Null THEN Null ELSE Last(Listed)
    BY <1>1 DEF HeaderNamesEnds
  <2>2. /\ Listed \in Seq(DOMAIN schema) /\ Len(Listed) \in Nat /\ DOMAIN Listed = 1 .. Len(Listed)
        /\ \A i \in DOMAIN Listed : Listed[i] \in Range(Listed) /\ Listed[i] # Null
        /\ \A i, j \in DOMAIN Listed : Listed[i] = Listed[j] => i = j
        /\ (first = Null <=> Listed = <<>>)
    BY <1>1, ListedFacts
  <2>3. first' = Null <=> Listed' = <<>>
    <3>1. Inv'
      BY <1>1, NextInv
    <3> QED
      BY <3>1, ChainStart DEF Inv, Listing
  <2>4. ASSUME NEW name \in Names, NEW n \in 0 .. MaxAttrs, NEW at \in Injection(Parts(n), Ptr \ used),
               Create(name, n, at)
        PROVE  HeaderNamesEnds'
    <3> DEFINE p == at[<<"schema", 0>>]
    <3>1. /\ Listed' = IF first = Null THEN <<p>> ELSE IF last \in Range(Listed) THEN Append(Listed, p) ELSE Listed
          /\ DOMAIN schema' = DOMAIN schema \union {p} /\ last' = p
      BY <1>1, <2>4, CreateWrites
    <3> HIDE DEF p
    <3>2. CASE first = Null
      <4>1. Listed' = <<p>> /\ Range(Listed) = {} /\ Range(<<p>>) = {p} /\ Last(<<p>>) = p /\ <<p>> # <<>>
        BY <2>2, <3>1, <3>2 DEF Range, Last
      <4> QED
        BY <2>1, <2>3, <3>1, <4>1 DEF HeaderNamesEnds
    <3>3. CASE first # Null
      <4>1. Len(Listed) \in DOMAIN Listed /\ last = Listed[Len(Listed)] /\ last \in Range(Listed)
        BY <2>1, <2>2, <3>3 DEF Last
      <4>2. Listed' = Append(Listed, p)
        BY <3>1, <3>3, <4>1
      <4>3. /\ DOMAIN Append(Listed, p) = 1 .. Len(Listed) + 1
            /\ Append(Listed, p)[Len(Listed) + 1] = p /\ Len(Append(Listed, p)) = Len(Listed) + 1
            /\ \A k \in DOMAIN Listed : Append(Listed, p)[k] = Listed[k]
            /\ Append(Listed, p) # <<>>
        BY <2>2
      <4>4. Range(Append(Listed, p)) = Range(Listed) \union {p}
        BY <2>2, <4>3 DEF Range
      <4> QED
        BY <2>1, <2>3, <3>1, <4>2, <4>3, <4>4 DEF HeaderNamesEnds, Last
    <3> QED
      BY <3>2, <3>3
  <2>5. ASSUME NEW i \in DOMAIN Listed, Unlink(i)
        PROVE  HeaderNamesEnds'
    <3> DEFINE p == Listed[i]
               n == Len(Listed)
    <3>1. /\ Range(Listed') = Range(Listed) \ {p}
          /\ Len(Listed') = n - 1 /\ (i # n => Listed'[n - 1] = Listed[n])
          /\ DOMAIN schema' = DOMAIN schema \ {p}
          /\ last' = IF last = p THEN Null ELSE last
      BY <1>1, <2>5, UnlinkWrites
    <3>2. first # Null /\ last = Listed[n] /\ n \in DOMAIN Listed /\ n # 0 /\ p # Null
      BY <2>1, <2>2 DEF Last
    <3>3. CASE last = p
      BY <1>1, <2>1, <3>1, <3>3 DEF HeaderNamesEnds
    <3>4. CASE last # p
      <4>1. i # n /\ n - 1 # 0
        BY <2>2, <3>2, <3>4
      <4>2. Listed' # <<>> /\ Last(Listed') = last
        BY <3>1, <3>2, <4>1 DEF Last
      <4> QED
        BY <2>1, <2>3, <3>1, <3>4, <4>2 DEF HeaderNamesEnds
    <3> QED
      BY <3>3, <3>4
  <2>6. CASE UNCHANGED <<used, first, last, schema>>
    BY <2>1, <2>6 DEF HeaderNamesEnds, Listed
  <2> QED
    BY <1>1, <2>4, <2>5, <2>6, NextCases
<1>2. Inv /\ [Next]_vars => (HeaderNamesEnds /\ ~(last' = Null /\ first' # Null) => HeaderNamesEnds')
  BY <1>1
<1> QED
  BY <1>2, Invariance, PTL DEF Spec, OnlyTailDropLosesEnd
=============================================================================
