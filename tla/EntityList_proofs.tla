-------------------------- MODULE EntityList_proofs --------------------------
(***************************************************************************)
(* Lists in the file as sequences: an iteration over a chain of blocks     *)
(* that ends at a null pointer is the sequence of these blocks, and what   *)
(* the operations on a list do to that sequence.                           *)
(*                                                                         *)
(* The first lemmas are about numbers, functions and sequences alone.  The *)
(* theorems of the library on induction and recursion have operators as    *)
(* parameters, which the provers cannot instantiate; these have sets and   *)
(* functions.                                                              *)
(***************************************************************************)
EXTENDS EntityList, SequencesExt, SequenceTheorems, FiniteSetTheorems,
        WellFoundedInduction, TLAPS

-----------------------------------------------------------------------------
(* Induction and recursion on the natural numbers *)

\* A set of natural numbers that is not empty has a least element.
LEMMA LeastNumber ==
    ASSUME NEW T \in SUBSET Nat, T # {}
    PROVE  \E m \in T : \A k \in T : m <= k
<1> DEFINE R == OpToRel(<, Nat)
<1>1. IsWellFoundedOn(R, Nat)
  BY NatLessThanWellFounded
<1>2. \A i, j \in Nat : i < j => <<i, j>> \in R
  BY DEF OpToRel
<1> HIDE DEF R
<1>3. PICK m \in T : \A k \in T : ~(<<k, m>> \in R)
  BY <1>1, WFMin
<1>4. ASSUME NEW k \in T
      PROVE  m <= k
  <2>1. ~(k < m)
    BY <1>2, <1>3
  <2> QED
    BY <2>1
<1> QED
  BY <1>4

\* A set that holds 0, and with each number the next one, holds all.
LEMMA SetInduction ==
    ASSUME NEW S, 0 \in S, \A n \in Nat : n \in S => n + 1 \in S
    PROVE  \A n \in Nat : n \in S
<1> DEFINE T == Nat \ S
<1> SUFFICES ASSUME T # {}
             PROVE  FALSE
  OBVIOUS
<1>1. PICK m \in T : \A k \in T : m <= k
  BY LeastNumber
<1>2. m \in Nat /\ m # 0 /\ m - 1 \in Nat
  BY DEF T
<1>3. m - 1 \in S
  BY <1>1, <1>2
<1>4. m \in S
  BY <1>2, <1>3
<1> QED
  BY <1>1, <1>4

\* A function is defined by its value at 0 and, from each value, the next one.
Steps(f, v0, step) == f[0] = v0 /\ \A n \in Nat : f[n + 1] = step[n][f[n]]

LEMMA RecursionOnNat ==
    ASSUME NEW V, NEW v0 \in V, NEW step \in [Nat -> [V -> V]]
    PROVE  \E f \in [Nat -> V] : Steps(f, v0, step)
<1> DEFINE UpTo(n) == {g \in [0 .. n -> V] : g[0] = v0 /\ \A k \in 0 .. n - 1 : g[k + 1] = step[k][g[k]]}
           S == {n \in Nat : UpTo(n) # {}}
<1>1. \A n \in Nat : n \in S
  <2>1. 0 \in S
    <3>1. [k \in 0 .. 0 |-> v0] \in UpTo(0)
      OBVIOUS
    <3> QED
      BY <3>1
  <2>2. ASSUME NEW n \in Nat, n \in S
        PROVE  n + 1 \in S
    <3>1. PICK g \in UpTo(n) : TRUE
      BY <2>2
    <3> DEFINE h == [k \in 0 .. n + 1 |-> IF k <= n THEN g[k] ELSE step[n][g[n]]]
    <3>2. g[n] \in V /\ step[n][g[n]] \in V
      OBVIOUS
    <3>3. h \in [0 .. n + 1 -> V] /\ h[0] = v0
      BY <3>2
    <3>4. ASSUME NEW k \in 0 .. n
          PROVE  h[k + 1] = step[k][h[k]]
      <4>1. CASE k = n
        BY <4>1
      <4>2. CASE k < n
        <5>1. k \in 0 .. n - 1 /\ k + 1 \in 0 .. n /\ k \in 0 .. n
          BY <4>2
        <5>2. g[k + 1] = step[k][g[k]]
          BY <5>1
        <5> QED
          BY <5>1, <5>2
      <4> QED
        BY <4>1, <4>2
    <3>5. (n + 1) - 1 = n
      OBVIOUS
    <3>6. h \in UpTo(n + 1)
      BY <3>3, <3>4, <3>5
    <3> QED
      BY <3>6
  <2> HIDE DEF S
  <2> QED
    BY <2>1, <2>2, SetInduction
<1>2. ASSUME NEW n \in Nat, NEW m \in Nat, n <= m, NEW g \in UpTo(n), NEW h \in UpTo(m)
      PROVE  g[n] = h[n]
  <2> DEFINE E == {k \in Nat : k <= n => g[k] = h[k]}
  <2>1. 0 \in E
    OBVIOUS
  <2>2. ASSUME NEW k \in Nat, k \in E
        PROVE  k + 1 \in E
    <3> SUFFICES ASSUME k + 1 <= n
                 PROVE  g[k + 1] = h[k + 1]
      OBVIOUS
    <3>1. k \in 0 .. n - 1 /\ k \in 0 .. m - 1 /\ g[k] = h[k]
      BY <1>2, <2>2
    <3> QED
      BY <3>1
  <2> HIDE DEF E
  <2>3. n \in E
    BY <2>1, <2>2, SetInduction
  <2> QED
    BY <2>3 DEF E
<1> DEFINE some(n) == CHOOSE g \in UpTo(n) : TRUE
           f == [n \in Nat |-> some(n)[n]]
<1>3. ASSUME NEW n \in Nat
      PROVE  some(n) \in UpTo(n)
  <2>1. n \in S
    BY <1>1
  <2>2. UpTo(n) # {}
    BY <2>1
  <2> HIDE DEF UpTo
  <2> QED
    BY <2>2
<1> HIDE DEF some
<1>4. f \in [Nat -> V]
  BY <1>3
<1>5. f[0] = v0
  BY <1>3
<1>6. ASSUME NEW n \in Nat
      PROVE  f[n + 1] = step[n][f[n]]
  <2>1. some(n + 1) \in UpTo(n + 1) /\ some(n) \in UpTo(n) /\ n <= n + 1 /\ n + 1 \in Nat
    BY <1>3
  <2>2. some(n + 1)[n] = some(n)[n]
    <3> HIDE DEF UpTo
    <3> QED
      BY <1>2, <2>1
  <2>3. n \in 0 .. (n + 1) - 1
    OBVIOUS
  <2>4. some(n + 1)[n + 1] = step[n][some(n + 1)[n]]
    BY <2>1, <2>3
  <2> QED
    BY <2>1, <2>2, <2>4
<1> QED
  <2> HIDE DEF f
  <2> QED
    BY <1>4, <1>5, <1>6 DEF Steps

\* How the pairs of two vectors are numbered.
LEMMA PairOf ==
    ASSUME NEW m \in Nat, NEW n \in Nat, NEW k \in 1 .. m * n
    PROVE  ((k - 1) \div n) + 1 \in 1 .. m /\ ((k - 1) % n) + 1 \in 1 .. n
<1>1. n > 0
  <2>1. CASE n = 0
    BY <2>1
  <2> QED
    BY <2>1
<1> DEFINE q == (k - 1) \div n
           r == (k - 1) % n
<1>2. q \in Int /\ r \in 0 .. n - 1 /\ k - 1 = n * q + r
  BY <1>1
<1> HIDE DEF q, r
<1>3. q >= 0
  <2> SUFFICES ASSUME q <= -1
               PROVE  FALSE
    BY <1>2
  <2>1. n * q <= n * (-1)
    BY <1>1, <1>2
  <2> QED
    BY <1>1, <1>2, <2>1
<1>4. q <= m - 1
  <2> SUFFICES ASSUME q >= m
               PROVE  FALSE
    BY <1>2
  <2>1. n * q >= n * m
    BY <1>1, <1>2
  <2>2. n * m = m * n
    OBVIOUS
  <2> QED
    BY <1>1, <1>2, <2>1, <2>2
<1> QED
  BY <1>2, <1>3, <1>4 DEF q, r

-----------------------------------------------------------------------------
(* Sequences *)

\* What a removal leaves keeps its order.
LEMMA RemoveAtFacts ==
    ASSUME NEW S, NEW s \in Seq(S), NEW i \in DOMAIN s
    PROVE  /\ RemoveAt(s, i) \in Seq(S)
           /\ DOMAIN RemoveAt(s, i) = 1 .. Len(s) - 1 /\ Len(RemoveAt(s, i)) = Len(s) - 1
           /\ \A j \in 1 .. Len(s) - 1 : RemoveAt(s, i)[j] = s[IF j < i THEN j ELSE j + 1]
<1> DEFINE front == SubSeq(s, 1, i - 1)
           back == SubSeq(s, i + 1, Len(s))
<1>1. Len(s) \in Nat /\ i \in 1 .. Len(s) /\ \A j \in 1 .. Len(s) : s[j] \in S
  OBVIOUS
<1>2. /\ front \in Seq(S) /\ Len(front) = i - 1
      /\ \A j \in 1 .. i - 1 : front[j] = s[j]
  <2>1. 1 \in Int /\ i - 1 \in Int /\ \A j \in 1 .. i - 1 : s[j] \in S
    BY <1>1
  <2>2. /\ front \in Seq(S) /\ Len(front) = IF 1 <= i - 1 THEN i - 1 - 1 + 1 ELSE 0
        /\ \A j \in 1 .. i - 1 - 1 + 1 : front[j] = s[1 + j - 1]
    BY <2>1, SubSeqProperties
  <2> QED
    BY <1>1, <2>2
<1>3. /\ back \in Seq(S) /\ Len(back) = Len(s) - i
      /\ \A j \in 1 .. Len(s) - i : back[j] = s[i + j]
  <2>1. i + 1 \in Int /\ Len(s) \in Int /\ \A j \in i + 1 .. Len(s) : s[j] \in S
    BY <1>1
  <2>2. /\ back \in Seq(S) /\ Len(back) = IF i + 1 <= Len(s) THEN Len(s) - (i + 1) + 1 ELSE 0
        /\ \A j \in 1 .. Len(s) - (i + 1) + 1 : back[j] = s[i + 1 + j - 1]
    BY <2>1, SubSeqProperties
  <2> QED
    BY <1>1, <2>2
<1> HIDE DEF front, back
<1>4. /\ front \o back \in Seq(S) /\ Len(front \o back) = Len(front) + Len(back)
      /\ \A j \in 1 .. Len(front) + Len(back) :
            (front \o back)[j] = IF j <= Len(front) THEN front[j] ELSE back[j - Len(front)]
  BY <1>2, <1>3, ConcatProperties
<1>5. RemoveAt(s, i) = front \o back
  BY DEF RemoveAt, front, back
<1>6. ASSUME NEW j \in 1 .. Len(s) - 1
      PROVE  (front \o back)[j] = s[IF j < i THEN j ELSE j + 1]
  <2>1. CASE j < i
    <3>1. j \in 1 .. i - 1 /\ j \in 1 .. Len(front) + Len(back) /\ j <= Len(front)
      BY <1>1, <1>2, <1>3, <2>1
    <3>2. (front \o back)[j] = front[j]
      BY <1>4, <3>1
    <3> QED
      BY <1>2, <2>1, <3>1, <3>2
  <2>2. CASE ~(j < i)
    <3>0. Len(front) = i - 1 /\ j \in 1 .. Len(front) + Len(back) /\ ~(j <= Len(front))
      BY <1>1, <1>2, <1>3, <2>2
    <3>1. (front \o back)[j] = back[j - (i - 1)] /\ j - (i - 1) \in 1 .. Len(s) - i
      <4>1. (front \o back)[j] = back[j - Len(front)]
        BY <1>4, <3>0
      <4>2. j - (i - 1) \in 1 .. Len(s) - i
        BY <1>1, <2>2
      <4> QED
        BY <3>0, <4>1, <4>2
    <3>2. back[j - (i - 1)] = s[i + (j - (i - 1))]
      BY <1>3, <3>1
    <3>3. i + (j - (i - 1)) = j + 1
      BY <1>1
    <3> QED
      BY <2>2, <3>1, <3>2, <3>3
  <2> QED
    BY <2>1, <2>2
<1>7. DOMAIN (front \o back) = 1 .. Len(s) - 1 /\ Len(front \o back) = Len(s) - 1
  <2>1. Len(front \o back) = Len(s) - 1
    BY <1>1, <1>2, <1>3, <1>4
  <2> QED
    BY <1>4, <2>1
<1> QED
  BY <1>4, <1>5, <1>6, <1>7

\* A sequence is one of its elements.
LEMMA SeqOfItsElements ==
    ASSUME NEW S, NEW s \in Seq(S)
    PROVE  s \in Seq(Range(s))
<1>1. Len(s) \in Nat /\ s \in [1 .. Len(s) -> S]
  BY LenProperties
<1>2. s \in [1 .. Len(s) -> Range(s)]
  BY <1>1 DEF Range
<1> QED
  BY <1>1, <1>2, SeqDef

\* A sequence that is given by its elements.
LEMMA SeqOfNumbered ==
    ASSUME NEW n \in Nat, NEW s, NEW S, s \in [1 .. n -> S]
    PROVE  s \in Seq(Range(s)) /\ DOMAIN s = 1 .. n
<1>1. s \in Seq(S)
  BY SeqDef
<1> QED
  BY <1>1, SeqOfItsElements

\* What is left of a sequence behind its head.
LEMMA TailFacts ==
    ASSUME NEW s, s \in Seq(Range(s)), s # <<>>
    PROVE  /\ Len(s) \in Nat /\ DOMAIN s = 1 .. Len(s) /\ 1 \in DOMAIN s /\ Head(s) = s[1]
           /\ DOMAIN Tail(s) = 1 .. Len(s) - 1
           /\ \A k \in DOMAIN Tail(s) : k + 1 \in DOMAIN s /\ Tail(s)[k] = s[k + 1]
           /\ Tail(s) \in Seq(Range(Tail(s)))
<1>1. /\ Len(s) \in Nat /\ DOMAIN s = 1 .. Len(s) /\ Len(s) # 0 /\ Head(s) = s[1]
      /\ Tail(s) \in Seq(Range(s)) /\ Len(Tail(s)) = Len(s) - 1
      /\ \A k \in 1 .. Len(s) - 1 : Tail(s)[k] = s[k + 1]
  BY HeadTailProperties, EmptySeq
<1>2. DOMAIN Tail(s) = 1 .. Len(s) - 1
  BY <1>1
<1>3. Tail(s) \in Seq(Range(Tail(s)))
  BY <1>1, SeqOfItsElements
<1> QED
  BY <1>1, <1>2, <1>3

-----------------------------------------------------------------------------
(* Lists of blocks *)

\* the block at a position, or none behind either end
AtPos(s, i) == IF i \in DOMAIN s THEN s[i] ELSE Null

\* Sets that have nothing in common.
LEMMA CardinalityOfUnion ==
    ASSUME NEW S, NEW T, IsFiniteSet(S), IsFiniteSet(T), S \intersect T = {}
    PROVE  IsFiniteSet(S \union T) /\ Cardinality(S \union T) = Cardinality(S) + Cardinality(T)
<1>1. Cardinality(S) \in Nat /\ Cardinality(T) \in Nat /\ Cardinality(S \intersect T) = 0
  BY FS_CardinalityType, FS_EmptySet
<1>2. IsFiniteSet(S \union T)
      /\ Cardinality(S \union T) = Cardinality(S) + Cardinality(T) - Cardinality(S \intersect T)
  BY FS_Union
<1> QED
  BY <1>1, <1>2

\* Blocks at addresses, whose pointers are addresses or lead nowhere.
Pointed(list) ==
    /\ DOMAIN list \subseteq Ptr /\ IsFiniteSet(DOMAIN list)
    /\ \A p \in DOMAIN list : list[p].next \in Ptr \union {Null}

Chain(list, first, s) ==
    /\ s \in Seq(DOMAIN list)
    /\ \A i, j \in DOMAIN s : s[i] = s[j] => i = j
    /\ first = AtPos(s, 1)
    /\ \A i \in DOMAIN s : list[s[i]].next = AtPos(s, i + 1)

-----------------------------------------------------------------------------

\* The recursive definition of an iteration defines something.
LEMMA WalkDefined ==
    ASSUME NEW list, NEW first, Pointed(list)
    PROVE  \E from :
              /\ from = [n \in Nat |-> [p \in Ptr \union {Null} |->
                            IF n = 0 \/ p \notin DOMAIN list THEN <<>>
                            ELSE <<p>> \o from[n - 1][list[p].next]]]
              /\ Walk(list, first) = from[Cardinality(DOMAIN list) + 1][first]
<1> DEFINE P == Ptr \union {Null}
           V == [P -> Seq(Ptr)]
           v0 == [p \in P |-> <<>>]
           next(g) == [p \in P |-> IF p \notin DOMAIN list THEN <<>> ELSE <<p>> \o g[list[p].next]]
           step == [n \in Nat |-> [g \in V |-> next(g)]]
<1>1. v0 \in V
  OBVIOUS
<1>2. ASSUME NEW g \in V
      PROVE  next(g) \in V
  <2>1. ASSUME NEW p \in DOMAIN list
        PROVE  <<p>> \o g[list[p].next] \in Seq(Ptr)
    <3>1. p \in Ptr /\ list[p].next \in P
      BY DEF Pointed
    <3>2. <<p>> \in Seq(Ptr) /\ g[list[p].next] \in Seq(Ptr)
      BY <3>1
    <3> QED
      BY <3>2, ConcatProperties
  <2> QED
    BY <2>1
<1>3. step \in [Nat -> [V -> V]]
  BY <1>2
<1>4. PICK f \in [Nat -> V] : f[0] = v0 /\ \A n \in Nat : f[n + 1] = step[n][f[n]]
  <2> HIDE DEF step, V, v0, next, P
  <2>1. \E f \in [Nat -> V] : Steps(f, v0, step)
    BY <1>1, <1>3, RecursionOnNat
  <2> QED
    BY <2>1 DEF Steps
<1>5. ASSUME NEW n \in Nat
      PROVE  f[n] = [p \in P |-> IF n = 0 \/ p \notin DOMAIN list THEN <<>> ELSE <<p>> \o f[n - 1][list[p].next]]
  <2>1. CASE n = 0
    BY <1>4, <2>1
  <2>2. CASE n # 0
    <3>1. n - 1 \in Nat /\ (n - 1) + 1 = n
      BY <2>2
    <3>2. f[n] = step[n - 1][f[n - 1]] /\ f[n - 1] \in V
      BY <1>4, <3>1
    <3>3. f[n] = next(f[n - 1])
      BY <3>1, <3>2
    <3> QED
      BY <2>2, <3>3
  <2> QED
    BY <2>1, <2>2
<1>6. f = [n \in Nat |-> [p \in P |-> IF n = 0 \/ p \notin DOMAIN list THEN <<>> ELSE <<p>> \o f[n - 1][list[p].next]]]
  BY <1>5
<1>7. Walk(list, first) =
         (CHOOSE from : from = [n \in Nat |-> [p \in P |->
             IF n = 0 \/ p \notin DOMAIN list THEN <<>> ELSE <<p>> \o from[n - 1][list[p].next]]])
         [Cardinality(DOMAIN list) + 1][first]
  BY DEF Walk
<1> QED
  BY <1>6, <1>7

\* A chain is not longer than there are blocks.
LEMMA ChainBounded ==
    ASSUME NEW list, NEW first, NEW s, Pointed(list), Chain(list, first, s)
    PROVE  Len(s) \in Nat /\ Cardinality(DOMAIN list) \in Nat /\ Len(s) <= Cardinality(DOMAIN list)
<1>1. Len(s) \in Nat /\ DOMAIN s = 1 .. Len(s) /\ s \in [1 .. Len(s) -> DOMAIN list]
  BY DEF Chain
<1>2. s \in Injection(1 .. Len(s), DOMAIN list)
  BY <1>1 DEF Chain, Injection, IsInjective
<1>3. Cardinality(1 .. Len(s)) = Len(s)
  BY <1>1, FS_Interval
<1> QED
  BY <1>1, <1>2, <1>3, FS_Injection, FS_CardinalityType DEF Pointed

\* An iteration over a chain is the chain.
LEMMA WalkIsChain ==
    ASSUME NEW list, NEW first, NEW s, Pointed(list), Chain(list, first, s)
    PROVE  Walk(list, first) = s
<1>1. PICK from :
         /\ from = [n \in Nat |-> [p \in Ptr \union {Null} |->
                       IF n = 0 \/ p \notin DOMAIN list THEN <<>>
                       ELSE <<p>> \o from[n - 1][list[p].next]]]
         /\ Walk(list, first) = from[Cardinality(DOMAIN list) + 1][first]
  BY WalkDefined
<1>2. \A n \in Nat, p \in Ptr \union {Null} :
         from[n][p] = IF n = 0 \/ p \notin DOMAIN list THEN <<>> ELSE <<p>> \o from[n - 1][list[p].next]
  <2> TAKE n \in Nat, p \in Ptr \union {Null}
  <2>1. from[n] = [q \in Ptr \union {Null} |->
                      IF n = 0 \/ q \notin DOMAIN list THEN <<>>
                      ELSE <<q>> \o from[n - 1][list[q].next]]
    BY <1>1
  <2> QED
    BY <2>1
<1>3. /\ s \in Seq(DOMAIN list) /\ Len(s) \in Nat /\ DOMAIN s = 1 .. Len(s)
      /\ \A i \in 1 .. Len(s) : s[i] \in DOMAIN list /\ s[i] \in Ptr
      /\ Null \notin DOMAIN list
  BY EntityListAssumption DEF Chain, Pointed
<1> DEFINE Rest(n) == \A i \in 1 .. Len(s) + 1 : Len(s) + 1 - i <= n =>
                         from[n][AtPos(s, i)] = SubSeq(s, i, Len(s))
           S == {n \in Nat : Rest(n)}
<1>4. ASSUME NEW n \in Nat
      PROVE  from[n][AtPos(s, Len(s) + 1)] = SubSeq(s, Len(s) + 1, Len(s))
  <2>1. AtPos(s, Len(s) + 1) = Null
    BY <1>3 DEF AtPos
  <2>2. from[n][Null] = <<>>
    BY <1>2, <1>3
  <2>3. SubSeq(s, Len(s) + 1, Len(s)) = <<>>
    BY <1>3, SubSeqEmpty
  <2> QED
    BY <2>1, <2>2, <2>3
<1>5. 0 \in S
  <2>1. ASSUME NEW i \in 1 .. Len(s) + 1, Len(s) + 1 - i <= 0
        PROVE  i = Len(s) + 1
    BY <1>3, <2>1
  <2> QED
    BY <1>4, <2>1
<1>6. ASSUME NEW n \in Nat, n \in S
      PROVE  n + 1 \in S
  <2>1. ASSUME NEW i \in 1 .. Len(s), Len(s) + 1 - i <= n + 1
        PROVE  from[n + 1][AtPos(s, i)] = SubSeq(s, i, Len(s))
    <3>1. i + 1 \in 1 .. Len(s) + 1 /\ Len(s) + 1 - (i + 1) <= n
      BY <1>3, <2>1
    <3>2. from[n][AtPos(s, i + 1)] = SubSeq(s, i + 1, Len(s))
      BY <1>6, <3>1
    <3>3. AtPos(s, i) = s[i] /\ list[s[i]].next = AtPos(s, i + 1)
      BY <1>3 DEF AtPos, Chain
    <3>4. from[n + 1][s[i]] = <<s[i]>> \o from[n][AtPos(s, i + 1)]
      <4>1. n + 1 \in Nat /\ n + 1 # 0 /\ (n + 1) - 1 = n /\ s[i] \in Ptr \union {Null} /\ s[i] \in DOMAIN list
        BY <1>3
      <4>2. from[n + 1][s[i]] = <<s[i]>> \o from[(n + 1) - 1][list[s[i]].next]
        BY <1>2, <4>1
      <4> QED
        BY <3>3, <4>1, <4>2
    <3>5. SubSeq(s, i, Len(s)) = <<s[i]>> \o SubSeq(s, i + 1, Len(s))
      <4>1. i \in 1 .. Len(s) /\ Len(s) \in i .. Len(s)
        BY <1>3
      <4> QED
        BY <1>3, <4>1, SubSeqRecursiveFirst
    <3> QED
      BY <3>2, <3>3, <3>4, <3>5
  <2>2. Rest(n + 1)
    <3> SUFFICES ASSUME NEW i \in 1 .. Len(s) + 1, Len(s) + 1 - i <= n + 1
                 PROVE  from[n + 1][AtPos(s, i)] = SubSeq(s, i, Len(s))
      OBVIOUS
    <3>1. CASE i \in 1 .. Len(s)
      BY <2>1, <3>1
    <3>2. CASE i = Len(s) + 1
      BY <1>4, <3>2
    <3> QED
      BY <1>3, <3>1, <3>2
  <2> QED
    BY <2>2
<1>7. \A n \in Nat : Rest(n)
  <2> HIDE DEF S
  <2>1. \A n \in Nat : n \in S
    BY <1>5, <1>6, SetInduction
  <2> QED
    BY <2>1 DEF S
<1>8. from[Cardinality(DOMAIN list) + 1][AtPos(s, 1)] = SubSeq(s, 1, Len(s))
  <2>1. /\ Cardinality(DOMAIN list) + 1 \in Nat
        /\ 1 \in 1 .. Len(s) + 1 /\ Len(s) + 1 - 1 <= Cardinality(DOMAIN list) + 1
    BY <1>3, ChainBounded
  <2> HIDE DEF Rest
  <2>2. Rest(Cardinality(DOMAIN list) + 1)
    BY <1>7, <2>1
  <2> QED
    BY <2>1, <2>2 DEF Rest
<1>9. SubSeq(s, 1, Len(s)) = s
  BY <1>3, SubSeqFull
<1> QED
  BY <1>1, <1>8, <1>9 DEF Chain
-----------------------------------------------------------------------------

\* The blocks of a list are records that have both pointers.
Fields(list) == \A p \in DOMAIN list : {"next", "prev"} \subseteq DOMAIN list[p]

\* A list of all blocks of its kind, in the order of a sequence.
Whole(list, first, last, s) ==
    /\ DOMAIN list \subseteq Ptr
    /\ Chain(list, first, s)
    /\ \A p \in DOMAIN list : \E i \in DOMAIN s : s[i] = p
    /\ last = AtPos(s, Len(s))
    /\ \A i \in DOMAIN s : list[s[i]].prev = AtPos(s, i - 1)

LEMMA WholeIsPointed ==
    ASSUME NEW list, NEW first, NEW last, NEW s, Whole(list, first, last, s)
    PROVE  Pointed(list) /\ Len(s) = Cardinality(DOMAIN list)
<1>1. Len(s) \in Nat /\ DOMAIN s = 1 .. Len(s) /\ s \in [1 .. Len(s) -> DOMAIN list]
  BY DEF Whole, Chain
<1>2. s \in Bijection(1 .. Len(s), DOMAIN list)
  BY <1>1 DEF Whole, Chain, Bijection, Injection, Surjection, IsInjective
<1>3. Cardinality(1 .. Len(s)) = Len(s) /\ IsFiniteSet(1 .. Len(s))
  BY <1>1, FS_Interval
<1>4. IsFiniteSet(DOMAIN list) /\ Cardinality(DOMAIN list) = Len(s)
  BY <1>2, <1>3, FS_Bijection DEF ExistsBijection
<1>5. ASSUME NEW p \in DOMAIN list
      PROVE  list[p].next \in DOMAIN list \union {Null}
  <2>1. PICK i \in DOMAIN s : s[i] = p
    BY DEF Whole
  <2> QED
    BY <1>1, <2>1 DEF Whole, Chain, AtPos
<1> QED
  BY <1>4, <1>5 DEF Whole, Pointed

\* A list that is whole is what an iteration finds, and is doubly linked.
LEMMA WholeIsWalked ==
    ASSUME NEW list, NEW first, NEW last, NEW s, Whole(list, first, last, s)
    PROVE  Walk(list, first) = s
BY WholeIsPointed, WalkIsChain DEF Whole

LEMMA WholeIsLinked ==
    ASSUME NEW list, NEW first, NEW last, NEW s, Whole(list, first, last, s)
    PROVE  DoublyLinked(list, first, last)
<1>1. Walk(list, first) = s /\ Len(s) = Cardinality(DOMAIN list)
  BY WholeIsWalked, WholeIsPointed
<1>2. {s[i] : i \in DOMAIN s} = DOMAIN list
  <2>1. \A i \in DOMAIN s : s[i] \in DOMAIN list
    BY DEF Whole, Chain
  <2>2. \A p \in DOMAIN list : \E i \in DOMAIN s : s[i] = p
    BY DEF Whole
  <2> QED
    BY <2>1, <2>2
<1>3. /\ first = AtPos(s, 1) /\ last = AtPos(s, Len(s))
      /\ \A i \in DOMAIN s : list[s[i]].prev = AtPos(s, i - 1) /\ list[s[i]].next = AtPos(s, i + 1)
  BY DEF Whole, Chain
<1> QED
  BY <1>1, <1>2, <1>3 DEF DoublyLinked, AtPos

\* A block that is written behind the last one.
LEMMA AppendWhole ==
    ASSUME NEW list, NEW first, NEW last, NEW s, Whole(list, first, last, s), Fields(list),
           NEW p \in Ptr \ DOMAIN list, NEW longer,
           DOMAIN longer = DOMAIN list \union {p},
           {"next", "prev"} \subseteq DOMAIN longer[p],
           longer[p].prev = last, longer[p].next = Null,
           \A q \in DOMAIN list : longer[q] = SetNext(list, last, p)[q]
    PROVE  /\ Whole(longer, IF first = Null THEN p ELSE first, p, Append(s, p))
           /\ Fields(longer)
<1> DEFINE t == Append(s, p)
           n == Len(s)
<1>1. /\ s \in Seq(DOMAIN list) /\ n \in Nat /\ DOMAIN s = 1 .. n
      /\ \A i \in 1 .. n : s[i] \in DOMAIN list /\ s[i] # p /\ s[i] # Null
      /\ p # Null
  BY EntityListAssumption DEF Whole, Chain
<1>2. /\ t \in Seq(DOMAIN longer) /\ DOMAIN t = 1 .. n + 1 /\ Len(t) = n + 1
      /\ t[n + 1] = p /\ \A i \in 1 .. n : t[i] = s[i]
  <2>1. s \in Seq(DOMAIN longer)
    BY <1>1
  <2> QED
    BY <1>1, <2>1
<1>3. /\ \A i \in 0 .. n : AtPos(t, i) = AtPos(s, i)
      /\ AtPos(t, n + 1) = p /\ AtPos(t, n + 2) = Null
  BY <1>1, <1>2 DEF AtPos
<1>4. ASSUME NEW q \in DOMAIN list
      PROVE  /\ DOMAIN longer[q] = DOMAIN list[q]
             /\ longer[q].prev = list[q].prev
             /\ longer[q].next = IF q = last THEN p ELSE list[q].next
  BY DEF SetNext, Fields
<1>5. last = AtPos(s, n) /\ first = AtPos(s, 1)
  BY DEF Whole, Chain
<1>6. \A i, j \in DOMAIN s : s[i] = s[j] => i = j
  BY DEF Whole, Chain
<1> HIDE DEF t, n
<1>7. \A i, j \in DOMAIN t : t[i] = t[j] => i = j
  BY <1>1, <1>2, <1>6
<1>8. (IF first = Null THEN p ELSE first) = AtPos(t, 1)
  BY <1>1, <1>2, <1>5 DEF AtPos
<1>9. ASSUME NEW i \in 1 .. n + 1
      PROVE  longer[t[i]].next = AtPos(t, i + 1) /\ longer[t[i]].prev = AtPos(t, i - 1)
  <2>1. CASE i = n + 1
    <3>1. AtPos(t, i - 1) = last
      BY <1>1, <1>3, <1>5, <2>1
    <3> QED
      BY <1>1, <1>2, <1>3, <2>1, <3>1
  <2>2. CASE i \in 1 .. n
    <3>1. t[i] = s[i] /\ s[i] \in DOMAIN list /\ (s[i] = last <=> i = n)
      BY <1>1, <1>2, <1>5, <1>6, <2>2 DEF AtPos
    <3>2. list[s[i]].next = AtPos(s, i + 1) /\ list[s[i]].prev = AtPos(s, i - 1)
      BY <1>1, <2>2 DEF Whole, Chain
    <3>3. longer[t[i]].prev = AtPos(t, i - 1)
      BY <1>1, <1>3, <1>4, <2>2, <3>1, <3>2
    <3>4. longer[t[i]].next = AtPos(t, i + 1)
      <4>1. CASE i = n
        BY <1>3, <1>4, <3>1, <4>1
      <4>2. CASE i # n
        BY <1>1, <1>3, <1>4, <2>2, <3>1, <3>2, <4>2
      <4> QED
        BY <4>1, <4>2
    <3> QED
      BY <3>3, <3>4
  <2> QED
    BY <1>1, <2>1, <2>2
<1>10. \A q \in DOMAIN longer : \E i \in DOMAIN t : t[i] = q
  <2> TAKE q \in DOMAIN longer
  <2>1. CASE q = p
    BY <1>1, <1>2, <2>1
  <2>2. CASE q \in DOMAIN list
    <3>1. PICK i \in DOMAIN s : s[i] = q
      BY <2>2 DEF Whole
    <3> QED
      BY <1>1, <1>2, <3>1
  <2> QED
    BY <2>1, <2>2
<1>11. Whole(longer, IF first = Null THEN p ELSE first, p, t)
  <2>1. DOMAIN longer \subseteq Ptr
    BY DEF Whole
  <2>2. Chain(longer, IF first = Null THEN p ELSE first, t)
    BY <1>2, <1>7, <1>8, <1>9 DEF Chain
  <2> QED
    BY <1>2, <1>3, <1>9, <1>10, <2>1, <2>2 DEF Whole
<1>12. Fields(longer)
  BY <1>4 DEF Fields
<1> QED
  BY <1>11, <1>12 DEF t

\* A block that its neighbours are joined around.
LEMMA RemoveWhole ==
    ASSUME NEW list, NEW first, NEW last, NEW s, Whole(list, first, last, s), Fields(list),
           NEW p \in DOMAIN list, NEW shorter,
           DOMAIN shorter = DOMAIN list \ {p},
           \A q \in DOMAIN shorter : shorter[q] = CloseAround(list, list[p])[q]
    PROVE  /\ \E i \in DOMAIN s :
                 /\ s[i] = p
                 /\ Whole(shorter, IF p = first THEN list[p].next ELSE first,
                          IF p = last THEN list[p].prev ELSE last, RemoveAt(s, i))
           /\ Fields(shorter)
<1> DEFINE n == Len(s)
<1>1. /\ s \in Seq(DOMAIN list) /\ n \in Nat /\ DOMAIN s = 1 .. n
      /\ \A i \in 1 .. n : s[i] \in DOMAIN list /\ s[i] # Null
  BY EntityListAssumption DEF Whole, Chain
<1>2. PICK i \in 1 .. n : s[i] = p
  BY <1>1 DEF Whole
<1> DEFINE t == RemoveAt(s, i)
           old(j) == IF j < i THEN j ELSE j + 1
<1>3. /\ t \in Seq(DOMAIN list) /\ DOMAIN t = 1 .. n - 1 /\ Len(t) = n - 1
      /\ \A j \in 1 .. n - 1 : t[j] = s[old(j)]
  <2>1. s \in Seq(DOMAIN list) /\ i \in DOMAIN s
    BY <1>1, <1>2
  <2>2. /\ t \in Seq(DOMAIN list) /\ DOMAIN t = 1 .. n - 1 /\ Len(t) = n - 1
        /\ \A j \in 1 .. n - 1 : t[j] = s[IF j < i THEN j ELSE j + 1]
    BY <2>1, RemoveAtFacts
  <2> QED
    BY <2>2
<1> HIDE DEF t
<1>4. \A j \in 1 .. n - 1 : old(j) \in 1 .. n /\ old(j) # i
  BY <1>1, <1>2
<1>5. \A j, k \in 1 .. n : s[j] = s[k] => j = k
  BY <1>1 DEF Whole, Chain
<1>6. \A j \in 0 .. n : AtPos(t, j) = IF j < i THEN AtPos(s, j) ELSE AtPos(s, j + 1)
  BY <1>1, <1>2, <1>3 DEF AtPos
<1>7. list[p].prev = AtPos(s, i - 1) /\ list[p].next = AtPos(s, i + 1)
  BY <1>1, <1>2 DEF Whole, Chain
<1>8. ASSUME NEW q \in DOMAIN shorter
      PROVE  /\ DOMAIN shorter[q] = DOMAIN list[q]
             /\ shorter[q].prev = IF q = list[p].next THEN list[p].prev ELSE list[q].prev
             /\ shorter[q].next = IF q = list[p].prev THEN list[p].next ELSE list[q].next
  BY DEF CloseAround, SetNext, SetPrev, Fields
<1>9. ASSUME NEW j \in 1 .. n - 1
      PROVE  /\ t[j] \in DOMAIN shorter
             /\ shorter[t[j]].next = AtPos(t, j + 1) /\ shorter[t[j]].prev = AtPos(t, j - 1)
  <2> DEFINE k == old(j)
  <2>1. k \in 1 .. n /\ k # i /\ t[j] = s[k]
    BY <1>3, <1>4
  <2>2. t[j] \in DOMAIN shorter
    BY <1>1, <1>2, <1>5, <2>1
  <2>3. list[s[k]].next = AtPos(s, k + 1) /\ list[s[k]].prev = AtPos(s, k - 1)
    BY <1>1, <2>1 DEF Whole, Chain
  <2>4. (s[k] = list[p].prev <=> k = i - 1) /\ (s[k] = list[p].next <=> k = i + 1)
    BY <1>1, <1>2, <1>5, <1>7, <2>1 DEF AtPos
  <2>5. AtPos(t, j + 1) = IF k = i - 1 THEN AtPos(s, i + 1) ELSE AtPos(s, k + 1)
    BY <1>1, <1>2, <1>6
  <2>6. AtPos(t, j - 1) = IF k = i + 1 THEN AtPos(s, i - 1) ELSE AtPos(s, k - 1)
    BY <1>1, <1>2, <1>6
  <2> HIDE DEF k
  <2> QED
    BY <1>7, <1>8, <2>1, <2>2, <2>3, <2>4, <2>5, <2>6
<1>10. t \in Seq(DOMAIN shorter)
  BY <1>3, <1>9
<1>11. \A j, k \in DOMAIN t : t[j] = t[k] => j = k
  BY <1>1, <1>2, <1>3, <1>4, <1>5
<1>12. \A q \in DOMAIN shorter : \E j \in DOMAIN t : t[j] = q
  <2> TAKE q \in DOMAIN shorter
  <2>1. PICK k \in 1 .. n : s[k] = q
    BY <1>1 DEF Whole
  <2>2. k # i
    BY <1>2, <2>1
  <2>3. CASE k < i
    <3>1. k \in 1 .. n - 1 /\ old(k) = k
      BY <1>1, <1>2, <2>3
    <3> QED
      BY <1>3, <2>1, <3>1
  <2>4. CASE k > i
    <3>1. k - 1 \in 1 .. n - 1 /\ old(k - 1) = k
      BY <1>1, <1>2, <2>4
    <3> QED
      BY <1>3, <2>1, <3>1
  <2> QED
    BY <1>1, <1>2, <2>2, <2>3, <2>4
<1>13. first = AtPos(s, 1) /\ last = AtPos(s, n)
  BY DEF Whole, Chain
<1>14. (IF p = first THEN list[p].next ELSE first) = AtPos(t, 1)
  <2>1. p = first <=> i = 1
    BY <1>1, <1>2, <1>5, <1>13 DEF AtPos
  <2> QED
    BY <1>1, <1>2, <1>6, <1>7, <1>13, <2>1
<1>15. (IF p = last THEN list[p].prev ELSE last) = AtPos(t, n - 1)
  <2>1. p = last <=> i = n
    BY <1>1, <1>2, <1>5, <1>13 DEF AtPos
  <2> HIDE DEF n
  <2>2. n - 1 \in 0 .. n /\ (n - 1) + 1 = n /\ (n - 1 < i <=> i = n)
    BY <1>1, <1>2
  <2>3. CASE i = n
    BY <1>6, <1>7, <2>1, <2>2, <2>3
  <2>4. CASE i # n
    BY <1>6, <1>13, <2>1, <2>2, <2>4
  <2> QED
    BY <2>3, <2>4
<1>16. Whole(shorter, IF p = first THEN list[p].next ELSE first,
             IF p = last THEN list[p].prev ELSE last, t)
  <2>1. DOMAIN shorter \subseteq Ptr
    BY DEF Whole
  <2>2. Chain(shorter, IF p = first THEN list[p].next ELSE first, t)
    BY <1>3, <1>9, <1>10, <1>11, <1>14 DEF Chain
  <2> QED
    BY <1>3, <1>9, <1>12, <1>15, <2>1, <2>2 DEF Whole
<1>17. Fields(shorter)
  BY <1>8 DEF Fields
<1> QED
  BY <1>1, <1>2, <1>16, <1>17 DEF t

\* The pointers of a list are all that an operation on it changes in the
\* blocks it leaves.
LEMMA OtherFields ==
    ASSUME NEW list, NEW p, NEW q, NEW r \in DOMAIN list, NEW e, NEW f \in DOMAIN list[r] \ {"next", "prev"}
    PROVE  /\ SetNext(list, p, q)[r][f] = list[r][f]
           /\ CloseAround(list, e)[r][f] = list[r][f]
BY DEF SetNext, SetPrev, CloseAround
-----------------------------------------------------------------------------

\* The recursive definition of a vector defines something.
LEMMA FetchedDefined ==
    ASSUME NEW S, NEW seq \in Seq(S), NEW accepted
    PROVE  \E upto :
              /\ upto = [n \in 0 .. Len(seq) |->
                            IF n = 0 THEN <<>>
                            ELSE IF seq[n] \in accepted THEN Append(upto[n - 1], seq[n]) ELSE upto[n - 1]]
              /\ Fetched(seq, accepted) = upto[Len(seq)]
<1> DEFINE V == Seq(S)
           next(n, g) == IF n + 1 \in DOMAIN seq /\ seq[n + 1] \in accepted THEN Append(g, seq[n + 1]) ELSE g
           step == [n \in Nat |-> [g \in V |-> next(n, g)]]
<1>1. <<>> \in V
  OBVIOUS
<1>2. step \in [Nat -> [V -> V]]
  <2>1. ASSUME NEW n \in Nat, NEW g \in V
        PROVE  next(n, g) \in V
    OBVIOUS
  <2> QED
    BY <2>1
<1>3. PICK f \in [Nat -> V] : Steps(f, <<>>, step)
  <2> HIDE DEF step, V, next
  <2> QED
    BY <1>1, <1>2, RecursionOnNat
<1>4. f[0] = <<>> /\ \A n \in Nat : f[n + 1] = next(n, f[n])
  BY <1>3 DEF Steps
<1> DEFINE upto == [n \in 0 .. Len(seq) |-> f[n]]
<1>5. DOMAIN upto = 0 .. Len(seq) /\ upto[0] = <<>> /\ Len(seq) \in Nat
  <2> HIDE DEF step, V, next
  <2> QED
    BY <1>4
<1>6. ASSUME NEW n \in 1 .. Len(seq)
      PROVE  upto[n] = IF seq[n] \in accepted THEN Append(upto[n - 1], seq[n]) ELSE upto[n - 1]
  <2>1. n - 1 \in Nat /\ n - 1 \in 0 .. Len(seq) /\ n \in 0 .. Len(seq) /\ (n - 1) + 1 = n /\ n \in DOMAIN seq
    OBVIOUS
  <2>2. f[n] = next(n - 1, f[n - 1])
    BY <1>4, <2>1
  <2> HIDE DEF step
  <2> QED
    BY <2>1, <2>2
<1> HIDE DEF upto
<1>7. upto = [n \in 0 .. Len(seq) |->
                 IF n = 0 THEN <<>>
                 ELSE IF seq[n] \in accepted THEN Append(upto[n - 1], seq[n]) ELSE upto[n - 1]]
  <2>1. ASSUME NEW n \in 0 .. Len(seq)
        PROVE  upto[n] = IF n = 0 THEN <<>>
                         ELSE IF seq[n] \in accepted THEN Append(upto[n - 1], seq[n]) ELSE upto[n - 1]
    <3>1. CASE n = 0
      BY <1>5, <3>1
    <3>2. CASE n \in 1 .. Len(seq)
      BY <1>6, <3>2
    <3>3. n = 0 \/ n \in 1 .. Len(seq)
      BY <1>5
    <3> QED
      BY <3>1, <3>2, <3>3
  <2> HIDE DEF V, step, next
  <2>2. upto = [n \in 0 .. Len(seq) |-> upto[n]]
    BY DEF upto
  <2> QED
    BY <2>1, <2>2
<1>8. Fetched(seq, accepted) =
         (CHOOSE g : g = [n \in 0 .. Len(seq) |->
              IF n = 0 THEN <<>>
              ELSE IF seq[n] \in accepted THEN Append(g[n - 1], seq[n]) ELSE g[n - 1]])[Len(seq)]
  BY DEF Fetched
<1> QED
  BY <1>7, <1>8

\* The vector holds the accepted elements in the order of the iteration: each
\* of its positions has one in the iteration.
Places(e, vector, seq, n, accepted) ==
    /\ e \in [DOMAIN vector -> 1 .. n]
    /\ \A k \in DOMAIN vector : vector[k] = seq[e[k]] /\ seq[e[k]] \in accepted
    /\ \A k, l \in DOMAIN vector : k < l => e[k] < e[l]
    /\ \A i \in 1 .. n : seq[i] \in accepted => \E k \in DOMAIN vector : e[k] = i

LEMMA FetchedPlaces ==
    ASSUME NEW S, NEW seq \in Seq(S), NEW accepted
    PROVE  /\ Fetched(seq, accepted) \in Seq(S)
           /\ \E e : Places(e, Fetched(seq, accepted), seq, Len(seq), accepted)
<1>1. PICK upto :
         /\ upto = [n \in 0 .. Len(seq) |->
                       IF n = 0 THEN <<>>
                       ELSE IF seq[n] \in accepted THEN Append(upto[n - 1], seq[n]) ELSE upto[n - 1]]
         /\ Fetched(seq, accepted) = upto[Len(seq)]
  BY FetchedDefined
<1> DEFINE Fine(n) == n <= Len(seq) => upto[n] \in Seq(S) /\ \E e : Places(e, upto[n], seq, n, accepted)
           N == {n \in Nat : Fine(n)}
<1>2. Len(seq) \in Nat /\ DOMAIN seq = 1 .. Len(seq) /\ \A i \in 1 .. Len(seq) : seq[i] \in S
  OBVIOUS
<1>3. ASSUME NEW n \in 0 .. Len(seq)
      PROVE  upto[n] = IF n = 0 THEN <<>>
                       ELSE IF seq[n] \in accepted THEN Append(upto[n - 1], seq[n]) ELSE upto[n - 1]
  BY <1>1
<1>4. 0 \in N
  <2>1. upto[0] = <<>>
    BY <1>2, <1>3
  <2>2. <<>> \in Seq(S) /\ DOMAIN <<>> = {}
    OBVIOUS
  <2>3. Places([k \in {} |-> k], <<>>, seq, 0, accepted)
    BY <2>2 DEF Places
  <2> QED
    BY <2>1, <2>2, <2>3
<1>5. ASSUME NEW n \in Nat, n \in N
      PROVE  n + 1 \in N
  <2> SUFFICES ASSUME n + 1 <= Len(seq)
               PROVE  upto[n + 1] \in Seq(S) /\ \E e : Places(e, upto[n + 1], seq, n + 1, accepted)
    OBVIOUS
  <2> DEFINE before == upto[n]
             item == seq[n + 1]
  <2>1. before \in Seq(S) /\ \E e : Places(e, before, seq, n, accepted)
    BY <1>2, <1>5
  <2>2. upto[n + 1] = IF item \in accepted THEN Append(before, item) ELSE before
    <3>1. n + 1 \in 0 .. Len(seq) /\ n + 1 # 0 /\ (n + 1) - 1 = n
      BY <1>2
    <3> QED
      BY <1>3, <3>1
  <2>3. item \in S
    BY <1>2
  <2> HIDE DEF before
  <2>4. PICK e : Places(e, before, seq, n, accepted)
    BY <2>1
  <2>5. CASE item \notin accepted
    <3>1. Places(e, before, seq, n + 1, accepted)
      BY <2>4, <2>5 DEF Places
    <3> QED
      BY <2>1, <2>2, <2>5, <3>1
  <2>6. CASE item \in accepted
    <3> DEFINE after == Append(before, item)
               m == Len(before)
               f == [k \in 1 .. m + 1 |-> IF k = m + 1 THEN n + 1 ELSE e[k]]
    <3>1. /\ m \in Nat /\ DOMAIN before = 1 .. m /\ after \in Seq(S) /\ DOMAIN after = 1 .. m + 1
          /\ after[m + 1] = item /\ \A k \in 1 .. m : after[k] = before[k]
      BY <2>1, <2>3
    <3> HIDE DEF after, m
    <3>2. /\ \A k \in 1 .. m : e[k] \in 1 .. n /\ before[k] = seq[e[k]] /\ seq[e[k]] \in accepted
          /\ \A k, l \in 1 .. m : k < l => e[k] < e[l]
          /\ \A i \in 1 .. n : seq[i] \in accepted => \E k \in 1 .. m : e[k] = i
      BY <2>4, <3>1 DEF Places
    <3>3. DOMAIN f = 1 .. m + 1 /\ f[m + 1] = n + 1 /\ \A k \in 1 .. m : f[k] = e[k]
      BY <3>1
    <3>4. f \in [1 .. m + 1 -> 1 .. n + 1]
      BY <3>1, <3>2
    <3> HIDE DEF f
    <3>5. \A k \in 1 .. m + 1 : k = m + 1 \/ k \in 1 .. m
      BY <3>1
    <3>6. \A k \in 1 .. m + 1 : after[k] = seq[f[k]] /\ seq[f[k]] \in accepted
      BY <2>6, <3>1, <3>2, <3>3, <3>5
    <3>7. \A k, l \in 1 .. m + 1 : k < l => f[k] < f[l]
      BY <3>1, <3>2, <3>3, <3>5
    <3>8. \A i \in 1 .. n + 1 : seq[i] \in accepted => \E k \in 1 .. m + 1 : f[k] = i
      <4> TAKE i \in 1 .. n + 1
      <4> HAVE seq[i] \in accepted
      <4>1. CASE i = n + 1
        BY <3>1, <3>3, <4>1
      <4>2. CASE i \in 1 .. n
        <5>1. PICK k \in 1 .. m : e[k] = i
          BY <3>2, <4>2
        <5> QED
          BY <3>1, <3>3, <5>1
      <4> QED
        BY <4>1, <4>2
    <3>9. Places(f, after, seq, n + 1, accepted)
      BY <3>1, <3>4, <3>6, <3>7, <3>8 DEF Places
    <3> QED
      BY <2>2, <2>6, <3>1, <3>9 DEF after
  <2> QED
    BY <2>5, <2>6
<1>6. Len(seq) \in N
  <2> HIDE DEF N
  <2> QED
    BY <1>2, <1>4, <1>5, SetInduction
<1> QED
  BY <1>1, <1>2, <1>6

LEMMA FetchedFacts ==
    ASSUME NEW S, NEW seq \in Seq(S), NEW accepted, \A i, j \in DOMAIN seq : seq[i] = seq[j] => i = j
    PROVE  /\ Fetched(seq, accepted) \in Seq(S)
           /\ \A i, j \in DOMAIN Fetched(seq, accepted) :
                 Fetched(seq, accepted)[i] = Fetched(seq, accepted)[j] => i = j
<1> DEFINE v == Fetched(seq, accepted)
<1>1. v \in Seq(S) /\ \E e : Places(e, v, seq, Len(seq), accepted)
  BY FetchedPlaces
<1> HIDE DEF v
<1>2. PICK e : Places(e, v, seq, Len(seq), accepted)
  BY <1>1
<1>3. Len(v) \in Nat /\ DOMAIN v = 1 .. Len(v) /\ DOMAIN seq = 1 .. Len(seq) /\ Len(seq) \in Nat
  BY <1>1
<1>4. ASSUME NEW i \in DOMAIN v, NEW j \in DOMAIN v, v[i] = v[j]
      PROVE  i = j
  <2>1. e[i] \in DOMAIN seq /\ e[j] \in DOMAIN seq /\ seq[e[i]] = seq[e[j]]
    BY <1>2, <1>3, <1>4 DEF Places
  <2>2. e[i] = e[j]
    BY <2>1
  <2>3. i < j \/ j < i \/ i = j
    BY <1>3
  <2> QED
    BY <1>2, <1>3, <2>1, <2>2, <2>3 DEF Places
<1> QED
  BY <1>1, <1>4 DEF v

\* the elements of kept are some of those of seq, in the same order, and each
\* is in seq once
SubList(kept, seq) ==
    /\ \A k \in 1 .. Len(kept) : \E i \in 1 .. Len(seq) : kept[k] = seq[i]
    /\ \A k, l \in 1 .. Len(kept), i, j \in 1 .. Len(seq) :
          kept[k] = seq[i] /\ kept[l] = seq[j] /\ k < l => i < j
    /\ \A i, j \in 1 .. Len(seq) : seq[i] = seq[j] => i = j

\* What is fetched is known from its elements and their order.
LEMMA FetchedIs ==
    ASSUME NEW S, NEW seq \in Seq(S), NEW kept \in Seq(S), SubList(kept, seq)
    PROVE  Fetched(seq, ToSet(kept)) = kept
<1> DEFINE accepted == ToSet(kept)
<1>0. /\ \A k \in 1 .. Len(kept) : \E i \in 1 .. Len(seq) : kept[k] = seq[i]
      /\ \A k, l \in 1 .. Len(kept), i, j \in 1 .. Len(seq) :
            kept[k] = seq[i] /\ kept[l] = seq[j] /\ k < l => i < j
      /\ \A i, j \in 1 .. Len(seq) : seq[i] = seq[j] => i = j
      /\ \A x : x \in accepted <=> \E k \in 1 .. Len(kept) : x = kept[k]
  BY DEF SubList, ToSet
<1> HIDE DEF accepted
<1>1. PICK upto :
         /\ upto = [n \in 0 .. Len(seq) |->
                       IF n = 0 THEN <<>>
                       ELSE IF seq[n] \in accepted THEN Append(upto[n - 1], seq[n]) ELSE upto[n - 1]]
         /\ Fetched(seq, accepted) = upto[Len(seq)]
  <2>1. seq \in Seq(S)
    OBVIOUS
  <2> QED
    BY ONLY <2>1, FetchedDefined
<1> DEFINE Fine(n) == n <= Len(seq) =>
                         /\ upto[n] \in Seq(S) /\ Len(upto[n]) <= Len(kept)
                         /\ \A k \in 1 .. Len(upto[n]) : upto[n][k] = kept[k]
                         /\ \A k \in 1 .. Len(kept), i \in 1 .. Len(seq) :
                               kept[k] = seq[i] => (k <= Len(upto[n]) <=> i <= n)
           N == {n \in Nat : Fine(n)}
<1>2. /\ Len(seq) \in Nat /\ DOMAIN seq = 1 .. Len(seq) /\ \A i \in 1 .. Len(seq) : seq[i] \in S
      /\ Len(kept) \in Nat /\ DOMAIN kept = 1 .. Len(kept)
  OBVIOUS
<1>3. ASSUME NEW n \in 0 .. Len(seq)
      PROVE  upto[n] = IF n = 0 THEN <<>>
                       ELSE IF seq[n] \in accepted THEN Append(upto[n - 1], seq[n]) ELSE upto[n - 1]
  BY <1>1
<1>4. 0 \in N
  <2>1. upto[0] = <<>>
    BY <1>2, <1>3
  <2>2. upto[0] \in Seq(S) /\ Len(upto[0]) = 0
    BY <2>1
  <2>3. \A k \in 1 .. Len(kept) : ~(k <= 0)
    BY <1>2
  <2>4. \A k \in 1 .. Len(seq) : ~(k <= 0)
    BY <1>2
  <2>5. \A k \in 1 .. Len(upto[0]) : upto[0][k] = kept[k]
    BY <2>2
  <2> QED
    BY <1>2, <2>2, <2>3, <2>4, <2>5
<1>5. ASSUME NEW n \in Nat, n \in N
      PROVE  n + 1 \in N
  <2> SUFFICES ASSUME n + 1 <= Len(seq)
               PROVE  Fine(n + 1)
    OBVIOUS
  <2> DEFINE before == upto[n]
             item == seq[n + 1]
             c == Len(before)
  <2>1. /\ before \in Seq(S) /\ c <= Len(kept) /\ c \in Nat /\ DOMAIN before = 1 .. c
        /\ \A k \in 1 .. c : before[k] = kept[k]
        /\ \A k \in 1 .. Len(kept), i \in 1 .. Len(seq) : kept[k] = seq[i] => (k <= c <=> i <= n)
    BY <1>2, <1>5
  <2>2. upto[n + 1] = IF item \in accepted THEN Append(before, item) ELSE before
    <3>1. n + 1 \in 0 .. Len(seq) /\ n + 1 # 0 /\ (n + 1) - 1 = n
      BY <1>2
    <3> QED
      BY <1>3, <3>1
  <2>3. item \in S /\ n + 1 \in 1 .. Len(seq)
    BY <1>2
  <2> HIDE DEF before, c
  <2>4. CASE item \notin accepted
    <3>1. upto[n + 1] = before
      BY <2>2, <2>4
    <3>2. ASSUME NEW k \in 1 .. Len(kept), NEW i \in 1 .. Len(seq), kept[k] = seq[i]
          PROVE  k <= c <=> i <= n + 1
      <4>1. i # n + 1
        BY <1>0, <1>2, <2>4, <3>2
      <4> QED
        BY <2>1, <3>2, <4>1
    <3> QED
      BY <2>1, <3>1, <3>2 DEF c
  <2>5. CASE item \in accepted
    <3>1. PICK h \in 1 .. Len(kept) : kept[h] = item
      BY <1>0, <1>2, <2>5
    <3>2. h > c
      BY <2>1, <2>3, <3>1
    <3>3. h = c + 1
      <4> SUFFICES ASSUME c + 1 < h
                   PROVE  FALSE
        BY <2>1, <3>2
      <4>1. c + 1 \in 1 .. Len(kept)
        BY <1>2, <2>1
      <4>2. PICK i \in 1 .. Len(seq) : kept[c + 1] = seq[i]
        BY <1>0, <1>2, <4>1
      <4>3. i < n + 1
        BY <1>0, <1>2, <2>3, <3>1, <4>1, <4>2
      <4>4. ~(i <= n)
        BY <2>1, <4>1, <4>2
      <4> QED
        BY <4>3, <4>4
    <3> DEFINE after == Append(before, item)
    <3>4. /\ after \in Seq(S) /\ Len(after) = c + 1 /\ after[c + 1] = item
          /\ \A k \in 1 .. c : after[k] = before[k]
      BY <2>1, <2>3 DEF c
    <3> HIDE DEF after
    <3>5. \A k \in 1 .. c + 1 : after[k] = kept[k]
      BY <2>1, <3>1, <3>3, <3>4
    <3>6. ASSUME NEW k \in 1 .. Len(kept), NEW i \in 1 .. Len(seq), kept[k] = seq[i]
          PROVE  k <= c + 1 <=> i <= n + 1
      <4>1. k <= c <=> i <= n
        BY <2>1, <3>6
      <4>2. CASE k = c + 1
        <5>1. i = n + 1
          BY <1>0, <1>2, <2>3, <3>1, <3>3, <3>6, <4>2
        <5> QED
          BY <4>2, <5>1
      <4>3. CASE k # c + 1
        <5>1. i # n + 1
          <6> SUFFICES ASSUME i = n + 1
                       PROVE  FALSE
            OBVIOUS
          <6>1. k < h \/ h < k
            BY <2>1, <3>3, <4>3
          <6>2. kept[k] = seq[n + 1] /\ kept[h] = seq[n + 1]
            BY <3>1, <3>6
          <6> QED
            BY <1>0, <1>2, <2>3, <6>1, <6>2
        <5> QED
          BY <2>1, <4>1, <4>3, <5>1
      <4> QED
        BY <4>2, <4>3
    <3>7. upto[n + 1] = after
      BY <2>2, <2>5 DEF after
    <3>8. c + 1 <= Len(kept)
      BY <3>1, <3>3
    <3> QED
      BY <3>4, <3>5, <3>6, <3>7, <3>8
  <2> QED
    BY <2>4, <2>5
<1>6. Len(seq) \in N
  <2> HIDE DEF N
  <2> QED
    BY <1>2, <1>4, <1>5, SetInduction
<1> DEFINE v == upto[Len(seq)]
<1>7. /\ v \in Seq(S) /\ Len(v) <= Len(kept) /\ \A k \in 1 .. Len(v) : v[k] = kept[k]
      /\ \A k \in 1 .. Len(kept), i \in 1 .. Len(seq) : kept[k] = seq[i] => (k <= Len(v) <=> i <= Len(seq))
  BY <1>2, <1>6
<1> HIDE DEF v
<1>8. Len(v) = Len(kept)
  <2> SUFFICES ASSUME Len(kept) > Len(v)
               PROVE  FALSE
    BY <1>2, <1>7
  <2>1. Len(kept) \in 1 .. Len(kept)
    BY <1>2, <1>7
  <2>2. PICK i \in 1 .. Len(seq) : kept[Len(kept)] = seq[i]
    BY <1>0, <1>2, <2>1
  <2> QED
    BY <1>2, <1>7, <2>1, <2>2
<1>9. v = kept
  BY <1>2, <1>7, <1>8
<1> QED
  BY <1>1, <1>9 DEF v, accepted
=============================================================================
