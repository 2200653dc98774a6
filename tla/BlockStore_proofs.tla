-------------------------- MODULE BlockStore_proofs --------------------------
(***************************************************************************)
(* The safety of BlockStore, proved for every header size, every set of    *)
(* requests and every file length.                                         *)
(***************************************************************************)
EXTENDS BlockStore, TLAPS

-----------------------------------------------------------------------------
(* Lemmas on the operators *)

\* An occupied half is a block, starts where the split block started and is
\* followed at once by the remainder, which ends where the split block ended.
LEMMA SplitFacts ==
    ASSUME NEW n \in Requests, NEW b \in Block, CanSplit(n, b)
    PROVE  /\ Occupied(n, b) \in Block
           /\ Remainder(n, b) \in Block
           /\ Occupied(n, b).ptr = b.ptr
           /\ Occupied(n, b).size = n
           /\ Occupied(n, b).cap = n
           /\ BlockEnd(Occupied(n, b)) = Remainder(n, b).ptr
           /\ Remainder(n, b).ptr = b.ptr + H + n
           /\ BlockEnd(Remainder(n, b)) = BlockEnd(b)
<1>1. n \in Nat /\ n + H < M /\ M \in Nat /\ H \in Nat /\ H > 0
  BY StoreAssumption
<1>2. b.ptr \in Nat /\ b.cap \in 0 .. M-1 /\ b.size \in 0 .. M-1
  BY DEF Block
<1>3. (b.size - (n + H)) % M \in 0 .. M-1
  BY <1>1, <1>2
<1>4. b.cap - (n + H) \in 0 .. M-1
  BY <1>1, <1>2 DEF CanSplit
<1> QED
  BY <1>1, <1>2, <1>3, <1>4 DEF Occupied, Remainder, Block, BlockEnd

\* Handing out a whole block changes its recorded size and nothing else.
LEMMA WholeFacts ==
    ASSUME NEW n \in Requests, NEW b \in Block
    PROVE  /\ [b EXCEPT !.size = n] \in Block
           /\ [b EXCEPT !.size = n].ptr = b.ptr
           /\ [b EXCEPT !.size = n].size = n
           /\ [b EXCEPT !.size = n].cap = b.cap
           /\ BlockEnd([b EXCEPT !.size = n]) = BlockEnd(b)
BY StoreAssumption DEF Block, BlockEnd

\* A block added at the end of the file is a block behind all the others.
LEMMA AppendFacts ==
    ASSUME NEW n \in Requests, NEW e \in Nat
    PROVE  /\ [ptr |-> e, size |-> n, cap |-> n] \in Block
           /\ BlockEnd([ptr |-> e, size |-> n, cap |-> n]) = e + H + n
BY StoreAssumption DEF Block, BlockEnd

-----------------------------------------------------------------------------
(* The inductive invariant.  NoOverlap alone is not inductive: an appended *)
(* block is behind the others only because no block reaches past the end   *)
(* of the file (Within), and the halves of a split are blocks only because *)
(* of the ranges of TypeOK.                                                *)

IInv == TypeOK /\ Within /\ NoOverlap /\ Covered /\ WasteBounded

\* With no block at all the invariant holds: the file ends where it begins.
LEMMA InitIInv == Init => IInv
BY StoreAssumption
   DEF Init, IInv, TypeOK, Within, NoOverlap, Covered, WasteBounded

\* Splitting the top of the heap keeps the invariant.
LEMMA SplitIInv ==
    ASSUME IInv, NEW n \in Requests, NEW b \in pool, OccupySplit(n, b)
    PROVE  IInv'
<1> DEFINE o == Occupied(n, b)
           r == Remainder(n, b)
<1>1. live' = live \union {o} /\ pool' = (pool \ {b}) \union {r} /\ eof' = eof
  BY DEF OccupySplit
<1>2. b \in Block /\ CanSplit(n, b) /\ live \subseteq Block /\ pool \subseteq Block
  BY DEF IInv, TypeOK, OccupySplit
<1>3. /\ o \in Block /\ r \in Block
      /\ o.ptr = b.ptr /\ o.size = n /\ o.cap = n
      /\ BlockEnd(o) = r.ptr /\ r.ptr = b.ptr + H + n
      /\ BlockEnd(r) = BlockEnd(b)
  BY <1>2, SplitFacts
<1>4. n \in Nat /\ n > 0 /\ H \in Nat /\ H > 0 /\ Base \in Nat
  BY StoreAssumption
<1>5. \A c \in Block : c.ptr \in Nat /\ BlockEnd(c) \in Nat /\ c.ptr < BlockEnd(c)
  BY <1>4 DEF Block, BlockEnd
<1>6. b.ptr < r.ptr /\ r.ptr < BlockEnd(b)
  BY <1>2, <1>3, <1>4, <1>5
<1> HIDE DEF o, r
<1>7. TypeOK'
  BY <1>1, <1>3 DEF IInv, TypeOK
<1>8. Within'
  <2>1. Base <= b.ptr /\ BlockEnd(b) <= eof
    BY DEF IInv, Within
  <2>2. \A c \in {o, r} : Base <= c.ptr /\ BlockEnd(c) <= eof
    BY <2>1, <1>2, <1>3, <1>4, <1>5, <1>6 DEF IInv, TypeOK
  <2>3. \A c \in live' \union pool' : Base <= c.ptr /\ BlockEnd(c) <= eof'
    BY <2>2, <1>1 DEF IInv, Within
  <2> QED
    BY <2>3, <1>1 DEF IInv, Within, BlockEnd
<1>9. NoOverlap'
  <2> DEFINE rest == (live \union pool) \ {b}
  <2>1. rest \subseteq Block /\ b \in Block
    BY <1>2
  <2>2. \A c \in rest : BlockEnd(c) <= b.ptr \/ BlockEnd(b) <= c.ptr
    BY DEF IInv, NoOverlap
  <2>3. \A c, d \in rest : c = d \/ BlockEnd(c) <= d.ptr \/ BlockEnd(d) <= c.ptr
    BY DEF IInv, NoOverlap
  <2>4. \A c \in rest : /\ BlockEnd(c) <= o.ptr \/ BlockEnd(o) <= c.ptr
                        /\ BlockEnd(c) <= r.ptr \/ BlockEnd(r) <= c.ptr
    BY <2>1, <2>2, <1>3, <1>5, <1>6
  <2>5. o \notin rest /\ r \notin rest /\ o # r
    BY <2>1, <2>4, <1>3, <1>5, <1>6
  <2>6. live' \union pool' = rest \union {o, r}
    BY <1>1 DEF IInv, NoOverlap
  <2>7. \A c, d \in live' \union pool' :
            c = d \/ BlockEnd(c) <= d.ptr \/ BlockEnd(d) <= c.ptr
    BY <2>3, <2>4, <2>6, <1>3, <1>5
  <2>8. live' \intersect pool' = {}
    BY <2>5, <1>1 DEF IInv, NoOverlap
  <2> QED
    BY <2>7, <2>8 DEF NoOverlap, BlockEnd
<1>10. Covered'
  <2> SUFFICES ASSUME NEW x \in Base .. eof-1
               PROVE  \E c \in live' \union pool' : c.ptr <= x /\ x < BlockEnd(c)
    BY <1>1 DEF Covered, BlockEnd
  <2>1. PICK c \in live \union pool : c.ptr <= x /\ x < BlockEnd(c)
    BY DEF IInv, Covered
  <2>2. x \in Nat
    BY <1>4 DEF IInv, TypeOK
  <2>3. CASE c = b
    BY <2>1, <2>2, <2>3, <1>1, <1>3, <1>5
  <2>4. CASE c # b
    BY <2>1, <2>4, <1>1
  <2> QED
    BY <2>3, <2>4
<1>11. WasteBounded'
  BY <1>1, <1>3, <1>4 DEF IInv, WasteBounded
<1> QED
  BY <1>7, <1>8, <1>9, <1>10, <1>11 DEF IInv

\* Handing out a whole block keeps the invariant.
LEMMA WholeIInv ==
    ASSUME IInv, NEW n \in Requests, NEW b \in pool, OccupyWhole(n, b)
    PROVE  IInv'
<1> DEFINE w == [b EXCEPT !.size = n]
<1>1. live' = live \union {w} /\ pool' = pool \ {b} /\ eof' = eof
  BY DEF OccupyWhole
<1>2. b \in Block /\ live \subseteq Block /\ pool \subseteq Block
  BY DEF IInv, TypeOK
<1>3. /\ w \in Block
      /\ w.ptr = b.ptr /\ w.size = n /\ w.cap = b.cap
      /\ BlockEnd(w) = BlockEnd(b)
  BY <1>2, WholeFacts
<1>4. n \in Nat /\ n > 0 /\ H \in Nat /\ H > 0 /\ Base \in Nat
  BY StoreAssumption
<1>5. \A c \in Block : c.ptr \in Nat /\ BlockEnd(c) \in Nat /\ c.ptr < BlockEnd(c)
  BY <1>4 DEF Block, BlockEnd
<1>6. n <= w.cap /\ w.cap <= n + H
  BY <1>2, <1>3, <1>4 DEF OccupyWhole, CanOccupy, CanSplit, Block
<1> HIDE DEF w
<1>7. TypeOK'
  BY <1>1, <1>3 DEF IInv, TypeOK
<1>8. Within'
  <2>1. \A c \in live' \union pool' : Base <= c.ptr /\ BlockEnd(c) <= eof'
    BY <1>1, <1>3 DEF IInv, Within
  <2> QED
    BY <2>1, <1>1 DEF IInv, Within, BlockEnd
<1>9. NoOverlap'
  <2> DEFINE rest == (live \union pool) \ {b}
  <2>1. \A c \in rest : BlockEnd(c) <= w.ptr \/ BlockEnd(w) <= c.ptr
    BY <1>3 DEF IInv, NoOverlap
  <2>2. w \notin rest
    BY <2>1, <1>2, <1>3, <1>5
  <2>3. live' \union pool' = rest \union {w}
    BY <1>1 DEF IInv, NoOverlap
  <2>4. \A c, d \in rest : c = d \/ BlockEnd(c) <= d.ptr \/ BlockEnd(d) <= c.ptr
    BY DEF IInv, NoOverlap
  <2>5. \A c, d \in live' \union pool' :
            c = d \/ BlockEnd(c) <= d.ptr \/ BlockEnd(d) <= c.ptr
    BY <2>1, <2>3, <2>4
  <2>6. live' \intersect pool' = {}
    BY <2>2, <1>1 DEF IInv, NoOverlap
  <2> QED
    BY <2>5, <2>6 DEF NoOverlap, BlockEnd
<1>10. Covered'
  <2> SUFFICES ASSUME NEW x \in Base .. eof-1
               PROVE  \E c \in live' \union pool' : c.ptr <= x /\ x < BlockEnd(c)
    BY <1>1 DEF Covered, BlockEnd
  <2>1. PICK c \in live \union pool : c.ptr <= x /\ x < BlockEnd(c)
    BY DEF IInv, Covered
  <2>2. CASE c = b
    BY <2>1, <2>2, <1>1, <1>3
  <2>3. CASE c # b
    BY <2>1, <2>3, <1>1
  <2> QED
    BY <2>2, <2>3
<1>11. WasteBounded'
  BY <1>1, <1>3, <1>6 DEF IInv, WasteBounded
<1> QED
  BY <1>7, <1>8, <1>9, <1>10, <1>11 DEF IInv

\* Appending a block at the end of the file keeps the invariant.
LEMMA AppendIInv ==
    ASSUME IInv, NEW n \in Requests, Append(n)
    PROVE  IInv'
<1> DEFINE a == [ptr |-> eof, size |-> n, cap |-> n]
<1>1. live' = live \union {a} /\ pool' = pool /\ eof' = eof + H + n
  BY DEF Append
<1>2. live \subseteq Block /\ pool \subseteq Block /\ eof \in Nat
  BY DEF IInv, TypeOK
<1>3. a \in Block /\ a.ptr = eof /\ a.size = n /\ a.cap = n /\ BlockEnd(a) = eof'
  BY <1>1, <1>2, AppendFacts
<1>4. n \in Nat /\ n > 0 /\ H \in Nat /\ H > 0 /\ Base \in Nat
  BY StoreAssumption
<1>5. \A c \in Block : c.ptr \in Nat /\ BlockEnd(c) \in Nat /\ c.ptr < BlockEnd(c)
  BY <1>4 DEF Block, BlockEnd
<1>6. \A c \in live \union pool : Base <= c.ptr /\ BlockEnd(c) <= a.ptr
  BY <1>3 DEF IInv, Within
<1> HIDE DEF a
<1>7. TypeOK'
  BY <1>1, <1>2, <1>3, <1>4 DEF TypeOK
<1>8. Within'
  <2>1. Base <= eof'
    BY <1>1, <1>2, <1>4 DEF IInv, Within
  <2>2. Base <= a.ptr /\ BlockEnd(a) <= eof'
    BY <1>1, <1>2, <1>3, <1>4 DEF IInv, Within
  <2>3. \A c \in live \union pool : BlockEnd(c) <= eof'
    BY <1>1, <1>2, <1>4, <1>5 DEF IInv, Within
  <2>4. \A c \in live' \union pool' : Base <= c.ptr /\ BlockEnd(c) <= eof'
    BY <2>2, <2>3, <1>1, <1>6
  <2> QED
    BY <2>1, <2>4 DEF Within, BlockEnd
<1>9. NoOverlap'
  <2>1. a \notin live \union pool
    BY <1>2, <1>3, <1>5, <1>6
  <2>2. live' \union pool' = (live \union pool) \union {a}
    BY <1>1
  <2>3. \A c, d \in live \union pool :
            c = d \/ BlockEnd(c) <= d.ptr \/ BlockEnd(d) <= c.ptr
    BY DEF IInv, NoOverlap
  <2>4. \A c, d \in live' \union pool' :
            c = d \/ BlockEnd(c) <= d.ptr \/ BlockEnd(d) <= c.ptr
    BY <2>2, <2>3, <1>6
  <2>5. live' \intersect pool' = {}
    BY <2>1, <1>1 DEF IInv, NoOverlap
  <2> QED
    BY <2>4, <2>5 DEF NoOverlap, BlockEnd
<1>10. Covered'
  <2> SUFFICES ASSUME NEW x \in Base .. eof'-1
               PROVE  \E c \in live' \union pool' : c.ptr <= x /\ x < BlockEnd(c)
    BY DEF Covered, BlockEnd
  <2>1. CASE x < eof
    <3>1. x \in Base .. eof-1
      BY <2>1, <1>1, <1>2, <1>4
    <3>2. PICK c \in live \union pool : c.ptr <= x /\ x < BlockEnd(c)
      BY <3>1 DEF IInv, Covered
    <3> QED
      BY <3>2, <1>1
  <2>2. CASE ~(x < eof)
    <3>1. a.ptr <= x /\ x < BlockEnd(a)
      BY <2>2, <1>1, <1>2, <1>3, <1>4
    <3> QED
      BY <3>1, <1>1
  <2> QED
    BY <2>1, <2>2
<1>11. WasteBounded'
  BY <1>1, <1>3, <1>4 DEF IInv, WasteBounded
<1> QED
  BY <1>7, <1>8, <1>9, <1>10, <1>11 DEF IInv

\* Giving blocks back only moves them from one side to the other.
LEMMA FreeIInv ==
    ASSUME IInv, NEW S \in SUBSET live, FreeBlocks(S)
    PROVE  IInv'
<1>1. live' = live \ S /\ pool' = pool \union S /\ eof' = eof
  BY DEF FreeBlocks, Freed
<1>2. live' \union pool' = live \union pool
  BY <1>1
<1>3. TypeOK'
  BY <1>1 DEF IInv, TypeOK
<1>4. Within'
  BY <1>1, <1>2 DEF IInv, Within, BlockEnd
<1>5. NoOverlap'
  BY <1>1, <1>2 DEF IInv, NoOverlap, BlockEnd
<1>6. Covered'
  BY <1>1, <1>2 DEF IInv, Covered, BlockEnd
<1>7. WasteBounded'
  BY <1>1 DEF IInv, WasteBounded
<1> QED
  BY <1>3, <1>4, <1>5, <1>6, <1>7 DEF IInv

\* Every operation of the storage layer keeps the invariant.
LEMMA NextIInv == IInv /\ [Next]_vars => IInv'
<1> SUFFICES ASSUME IInv, [Next]_vars
             PROVE  IInv'
  OBVIOUS
<1>1. ASSUME NEW n \in Requests, Insert(n)
      PROVE  IInv'
  BY <1>1, SplitIInv, WholeIInv, AppendIInv DEF Insert
<1>2. ASSUME NEW S \in SUBSET live, FreeBlocks(S)
      PROVE  IInv'
  BY <1>2, FreeIInv
<1>3. CASE UNCHANGED vars
  BY <1>3 DEF vars, IInv, TypeOK, Within, NoOverlap, Covered, WasteBounded, BlockEnd
<1> QED
  BY <1>1, <1>2, <1>3 DEF Next

\* The invariant holds throughout a connection.
LEMMA Invariance == Spec => []IInv
BY InitIInv, NextIInv, PTL DEF Spec

-----------------------------------------------------------------------------
(* The results *)

\* Amounts and pointers stay in the ranges of their C types: in particular the
\* capacity of a remainder never goes below zero (block_heap.c:135).
THEOREM TypeCorrect == Spec => []TypeOK
BY Invariance, PTL DEF IInv

\* Blocks never overlap and stay inside the file, whatever the order of
\* insertions and deletions: two callers never share a byte.
THEOREM BlocksDisjoint == Spec => [](Within /\ NoOverlap)
BY Invariance, PTL DEF IInv

\* While the connection is open no byte of the file is lost to the allocator.
THEOREM NoByteLost == Spec => []Covered
BY Invariance, PTL DEF IInv

\* Padding of a block in use is bounded by the size of a header.
THEOREM PaddingBounded == Spec => []WasteBounded
BY Invariance, PTL DEF IInv

\* No operation moves, resizes or drops a block that a caller still holds.
THEOREM LiveBlocksStable == Spec => LiveStable
<1>1. [Next]_vars => [\A b \in live : b \in live' \/ b \in pool']_vars
  BY DEF Next, Insert, OccupySplit, OccupyWhole, Append, FreeBlocks, Freed, vars
<1> QED
  BY <1>1, PTL DEF Spec, LiveStable

\* The file grows only when it must, as long as every free block records its
\* capacity as its size.
THEOREM GrowthJustified == Spec => GrowsOnlyIfFull
<1> DEFINE A == (eof' > eof /\ \A b \in pool : b.size = b.cap)
                  => \A b \in pool : b.cap < eof' - eof - H
<1>1. ASSUME TypeOK, NEW n \in Requests, Append(n)
      PROVE  A
  <2> SUFFICES ASSUME \A b \in pool : b.size = b.cap, NEW c \in pool
               PROVE  c.cap < eof' - eof - H
    OBVIOUS
  <2>1. PICK b \in pool : IsTop(b) /\ ~CanOccupy(n, b)
    BY <1>1 DEF Append
  <2>2. b.cap \in Nat /\ c.cap \in Nat /\ n \in Nat /\ eof \in Nat /\ H \in Nat
    BY <1>1, StoreAssumption DEF TypeOK, Block
  <2>3. c.cap <= b.cap /\ b.cap < n
    BY <2>1, <2>2 DEF IsTop, CanOccupy
  <2>4. eof' = eof + H + n
    BY <1>1 DEF Append
  <2> QED
    BY <2>2, <2>3, <2>4
<1>2. ASSUME TypeOK, eof' = eof
      PROVE  A
  BY <1>2 DEF TypeOK
<1> HIDE DEF A
<1>3. TypeOK /\ [Next]_vars => [A]_vars
  BY <1>1, <1>2 DEF Next, Insert, OccupySplit, OccupyWhole, FreeBlocks, vars
<1> USE DEF A
<1> QED
  BY <1>3, TypeCorrect, PTL DEF Spec, GrowsOnlyIfFull
=============================================================================
