--------------------------- MODULE HeapFile_proofs ---------------------------
(***************************************************************************)
(* The heap of free blocks and the file under it, proved for arrays of any *)
(* length and any history: the operations of block_heap.c keep the order,  *)
(* every step is one of BlockStore, and a scan of a file with all headers  *)
(* finds the free blocks.                                                  *)
(***************************************************************************)
EXTENDS HeapFile, SequenceTheorems, FiniteSetTheorems, TLAPS

\* the lemmas on recursion; there are no lists of blocks here
Data == INSTANCE EntityList_proofs WITH Ptr <- Nat, Null <- -1

LEMMA DataAssumption == Data!EntityListAssumption
BY DEF Data!EntityListAssumption

-----------------------------------------------------------------------------
(* Arrays of nodes *)

Sized(S) == \A e \in S : e.size \in Int

Distinct(h) == \A i, j \in DOMAIN h : h[i].ptr = h[j].ptr => i = j
NodesOf(h) == {h[i] : i \in DOMAIN h}

\* g is h in another order
SameNodes(g, h) ==
    /\ Len(g) = Len(h)
    /\ NodesOf(g) = NodesOf(h)
    /\ Distinct(h) => Distinct(g)

\* the order, for the nodes whose parents are at m or behind
OrderedFrom(h, m) ==
    \A j \in 2 .. Len(h) : Parent(j) >= m => h[j].size <= h[Parent(j)].size

\* The parent of a node is before it, and the node one of its two children.
LEMMA ParentFacts ==
    ASSUME NEW j \in Nat, j >= 2
    PROVE  /\ Parent(j) \in Nat /\ Parent(j) >= 1 /\ Parent(j) < j
           /\ j = 2 * Parent(j) \/ j = 2 * Parent(j) + 1
BY DEF Parent

LEMMA ChildFacts ==
    ASSUME NEW i \in Nat
    PROVE  Parent(2 * i) = i /\ Parent(2 * i + 1) = i
BY DEF Parent

\* Two nodes change places.
LEMMA SwapFacts ==
    ASSUME NEW S, NEW h \in Seq(S), NEW i \in 1 .. Len(h), NEW j \in 1 .. Len(h), i # j
    PROVE  /\ Swap(h, i, j) \in Seq(S)
           /\ SameNodes(Swap(h, i, j), h)
           /\ \A k \in 1 .. Len(h) :
                 Swap(h, i, j)[k] = IF k = i THEN h[j] ELSE IF k = j THEN h[i] ELSE h[k]
<1> DEFINE n == Len(h)
           g == Swap(h, i, j)
           at(k) == IF k = i THEN j ELSE IF k = j THEN i ELSE k
<1>1. n \in Nat /\ h \in [1 .. n -> S] /\ DOMAIN h = 1 .. n
  BY LenProperties
<1>2. g \in [1 .. n -> S]
  BY <1>1 DEF Swap
<1>3. g \in Seq(S) /\ Len(g) = n /\ DOMAIN g = 1 .. n
  <2>1. g \in Seq(S)
    BY <1>1, <1>2, SeqDef
  <2> HIDE DEF g
  <2>2. Len(g) = n
    BY <1>1, <1>2, <2>1, LenProperties
  <2> QED
    BY <1>2, <2>1, <2>2
<1>4. \A k \in 1 .. n : at(k) \in 1 .. n /\ at(at(k)) = k /\ g[k] = h[at(k)]
  BY <1>1 DEF Swap
<1> HIDE DEF g, at, n
<1>5. NodesOf(g) = NodesOf(h)
  BY <1>1, <1>3, <1>4 DEF NodesOf
<1>6. Distinct(h) => Distinct(g)
  BY <1>1, <1>3, <1>4 DEF Distinct
<1> QED
  BY <1>1, <1>3, <1>4, <1>5, <1>6 DEF SameNodes, g, n, at

LEMMA SameNodesIsTransitive ==
    ASSUME NEW f, NEW g, NEW h, SameNodes(f, g), SameNodes(g, h)
    PROVE  SameNodes(f, h)
BY DEF SameNodes

\* The larger child of a node that has one.
LEMMA GreatestFacts ==
    ASSUME NEW S, Sized(S), NEW h \in Seq(S), NEW i \in Nat \ {0}, 2 * i <= Len(h)
    PROVE  /\ Greatest(h, i) \in Nat
           /\ Greatest(h, i) \in i + 1 .. Len(h)
           /\ Parent(Greatest(h, i)) = i
           /\ \A j \in 2 .. Len(h) : Parent(j) = i => h[j].size <= h[Greatest(h, i)].size
<1>1. /\ Len(h) \in Nat /\ 2 * i \in 1 .. Len(h) /\ i \in 1 .. Len(h)
      /\ \A j \in 1 .. Len(h) : h[j].size \in Int
  BY DEF Sized
<1>2. Greatest(h, i) = 2 * i \/ (Greatest(h, i) = 2 * i + 1 /\ 2 * i + 1 <= Len(h))
  BY DEF Greatest
<1>3. ASSUME NEW j \in 2 .. Len(h), Parent(j) = i
      PROVE  h[j].size <= h[Greatest(h, i)].size
  <2>1. j = 2 * i \/ j = 2 * i + 1
    BY <1>3, ParentFacts
  <2>2. CASE j = 2 * i
    BY <1>1, <2>2 DEF Greatest
  <2>3. CASE j = 2 * i + 1
    BY <1>1, <2>3 DEF Greatest
  <2> QED
    BY <2>1, <2>2, <2>3
<1>4. Parent(Greatest(h, i)) = i
  <2>1. Parent(2 * i) = i /\ Parent(2 * i + 1) = i
    BY ChildFacts
  <2> QED
    BY <1>2, <2>1
<1> QED
  BY <1>1, <1>2, <1>3, <1>4

-----------------------------------------------------------------------------
(* Moving a node down *)

Cursor(S) == [heap : Seq(S), pos : Nat \ {0}]

\* From h on, the nodes behind m are in order but for the children of the
\* node that is moved, and these are no larger than its parent.
DownInv(s, h, m) ==
    /\ SameNodes(s.heap, h)
    /\ \A j \in 2 .. Len(h) :
          Parent(j) >= m /\ Parent(j) # s.pos => s.heap[j].size <= s.heap[Parent(j)].size
    /\ \A j \in 2 .. Len(h) :
          Parent(j) = s.pos /\ Parent(s.pos) >= m
              => s.heap[j].size <= s.heap[Parent(s.pos)].size

DownStops(s) ==
    2 * s.pos > Len(s.heap) \/ s.heap[s.pos].size >= s.heap[Greatest(s.heap, s.pos)].size

\* A turn of the loop stays among the positions, and moves behind the old one
\* unless the loop stops.
LEMMA DownTyped ==
    ASSUME NEW S, Sized(S), NEW s \in Cursor(S)
    PROVE  /\ Down(s) \in Cursor(S)
           /\ DownStops(s) => Down(s) = s
           /\ ~DownStops(s) =>
                 /\ Greatest(s.heap, s.pos) \in s.pos + 1 .. Len(s.heap)
                 /\ s.pos \in 1 .. Len(s.heap)
                 /\ Down(s).heap = Swap(s.heap, s.pos, Greatest(s.heap, s.pos))
                 /\ Down(s).pos = Greatest(s.heap, s.pos)
<1>1. s.heap \in Seq(S) /\ s.pos \in Nat \ {0} /\ Len(s.heap) \in Nat
  BY DEF Cursor
<1>2. CASE DownStops(s)
  BY <1>2 DEF Down, DownStops
<1>3. CASE ~DownStops(s)
  <2> DEFINE c == Greatest(s.heap, s.pos)
  <2>1. 2 * s.pos <= Len(s.heap)
    BY <1>1, <1>3 DEF DownStops
  <2>2. c \in Nat /\ c \in s.pos + 1 .. Len(s.heap)
    BY <1>1, <2>1, GreatestFacts
  <2>3. Down(s) = [heap |-> Swap(s.heap, s.pos, c), pos |-> c]
    BY <1>3 DEF Down, DownStops
  <2> HIDE DEF c
  <2>4. s.pos \in 1 .. Len(s.heap) /\ c \in 1 .. Len(s.heap) /\ c # s.pos /\ c \in Nat \ {0}
    BY <1>1, <2>1, <2>2
  <2>5. Swap(s.heap, s.pos, c) \in Seq(S)
    BY <1>1, <2>4, SwapFacts
  <2> QED
    BY <1>3, <2>2, <2>3, <2>4, <2>5 DEF Cursor, c
<1> QED
  BY <1>2, <1>3

LEMMA DownKeepsInv ==
    ASSUME NEW S, Sized(S), NEW s \in Cursor(S), NEW h, NEW m \in Nat \ {0}, s.pos >= m,
           DownInv(s, h, m)
    PROVE  DownInv(Down(s), h, m) /\ Down(s).pos >= m
<1>1. CASE DownStops(s)
  BY <1>1, DownTyped
<1>2. CASE ~DownStops(s)
  <2> DEFINE g == s.heap
             p == s.pos
             c == Greatest(g, p)
             f == Down(s).heap
             n == Len(h)
  <2>1. /\ g \in Seq(S) /\ p \in Nat \ {0} /\ n \in Nat /\ Len(g) = n
        /\ \A j \in 1 .. n : g[j].size \in Int
    BY DEF Cursor, DownInv, SameNodes, Sized
  <2>2. 2 * p <= n /\ g[p].size < g[c].size
    <3>1. 2 * p <= n
      BY <1>2, <2>1 DEF DownStops
    <3>2. p \in 1 .. n /\ c \in 1 .. n
      BY <1>2, <2>1, DownTyped
    <3>3. ~(g[p].size >= g[c].size)
      BY <1>2 DEF DownStops
    <3>4. g[p].size \in Int /\ g[c].size \in Int
      BY <2>1, <3>2
    <3> QED
      BY <3>1, <3>3, <3>4
  <2>3. /\ c \in Nat /\ c \in p + 1 .. n /\ Parent(c) = p
        /\ \A j \in 2 .. n : Parent(j) = p => g[j].size <= g[c].size
    BY <2>1, <2>2, GreatestFacts
  <2>4. p \in 1 .. n /\ c \in 1 .. n /\ c # p /\ Down(s).pos = c /\ f = Swap(g, p, c)
    BY <1>2, <2>1, <2>3, DownTyped
  <2>5. /\ SameNodes(f, g)
        /\ \A k \in 1 .. n : f[k] = IF k = p THEN g[c] ELSE IF k = c THEN g[p] ELSE g[k]
    <3>1. g \in Seq(S) /\ p \in 1 .. Len(g) /\ c \in 1 .. Len(g) /\ p # c
      BY <2>1, <2>4
    <3> HIDE DEF g, p, c, n, f
    <3>2. /\ SameNodes(Swap(g, p, c), g)
          /\ \A k \in 1 .. Len(g) :
                Swap(g, p, c)[k] = IF k = p THEN g[c] ELSE IF k = c THEN g[p] ELSE g[k]
      BY <3>1, SwapFacts
    <3> QED
      BY <2>1, <2>4, <3>2
  <2>6. \A j \in 2 .. n :
           j \in 1 .. n /\ Parent(j) \in 1 .. n /\ Parent(j) < j /\ Parent(j) \in Nat
    BY <2>1, ParentFacts
  <2>7. SameNodes(f, h)
    BY <2>5, SameNodesIsTransitive DEF DownInv
  <2>8. /\ \A j \in 2 .. n : Parent(j) >= m /\ Parent(j) # p => g[j].size <= g[Parent(j)].size
        /\ \A j \in 2 .. n : Parent(j) = p /\ Parent(p) >= m => g[j].size <= g[Parent(p)].size
    BY DEF DownInv
  <2> HIDE DEF g, p, c, f, n
  <2>9. ASSUME NEW j \in 2 .. n, Parent(j) >= m, Parent(j) # c
        PROVE  f[j].size <= f[Parent(j)].size
    <3>0. j \in 1 .. n /\ Parent(j) \in 1 .. n /\ Parent(j) < j /\ Parent(j) \in Nat
      BY <2>6
    <3>1. CASE j = c
      <4>1. f[j] = g[p] /\ f[Parent(j)] = g[c]
        BY <2>3, <2>4, <2>5, <3>0, <3>1
      <4> QED
        BY <2>1, <2>2, <2>4, <4>1
    <3>2. CASE j # c /\ Parent(j) = p
      <4>1. f[j] = g[j] /\ f[Parent(j)] = g[c]
        BY <2>4, <2>5, <3>0, <3>2
      <4> QED
        BY <2>3, <3>2, <4>1
    <3>3. CASE j = p
      <4>1. f[j] = g[c] /\ f[Parent(j)] = g[Parent(p)]
        BY <2>4, <2>5, <2>9, <3>0, <3>3
      <4>2. c \in 2 .. n
        BY <2>1, <2>3
      <4>3. g[c].size <= g[Parent(p)].size
        BY <2>3, <2>8, <2>9, <3>3, <4>2
      <4> QED
        BY <4>1, <4>3
    <3>4. CASE j # c /\ j # p /\ Parent(j) # p
      <4>1. f[j] = g[j] /\ f[Parent(j)] = g[Parent(j)]
        BY <2>5, <2>9, <3>0, <3>4
      <4> QED
        BY <2>8, <2>9, <3>4, <4>1
    <3> QED
      BY <3>1, <3>2, <3>3, <3>4
  <2>10. ASSUME NEW j \in 2 .. n, Parent(j) = c, Parent(c) >= m
         PROVE  f[j].size <= f[Parent(c)].size
    <3>1. j \in 1 .. n /\ j # c /\ j # p /\ Parent(c) = p
      BY <2>1, <2>3, <2>6, <2>10
    <3>2. f[j] = g[j] /\ f[Parent(c)] = g[c]
      BY <2>4, <2>5, <3>1
    <3>3. g[j].size <= g[c].size
      BY <2>1, <2>3, <2>4, <2>8, <2>10
    <3> QED
      BY <3>2, <3>3
  <2>11. c >= m
    BY <2>1, <2>3 DEF p
  <2> QED
    BY <2>4, <2>7, <2>9, <2>10, <2>11 DEF DownInv, f, n
<1> QED
  BY <1>1, <1>2

\* The loop defines the states it goes through.
LEMMA DownDefined ==
    ASSUME NEW S, Sized(S), NEW h \in Seq(S), NEW i \in Nat \ {0}
    PROVE  \E f : /\ f[0] = [heap |-> h, pos |-> i]
                  /\ \A n \in Nat : f[n + 1] = Down(f[n])
                  /\ SiftDown(h, i) = f[Len(h)].heap
<1> DEFINE V == Cursor(S)
           v0 == [heap |-> h, pos |-> i]
           step == [n \in Nat |-> [s \in V |-> Down(s)]]
           IsLoop(g) == g = [n \in Nat |-> IF n = 0 THEN v0 ELSE Down(g[n - 1])]
           f == CHOOSE g : IsLoop(g)
<1>1. v0 \in V /\ step \in [Nat -> [V -> V]]
  BY DownTyped DEF Cursor
<1>2. PICK g \in [Nat -> V] : g[0] = v0 /\ \A n \in Nat : g[n + 1] = step[n][g[n]]
  <2> HIDE DEF V, v0, step
  <2>1. \E g \in [Nat -> V] : Data!Steps(g, v0, step)
    BY <1>1, DataAssumption, Data!RecursionOnNat
  <2> QED
    BY <2>1 DEF Data!Steps
<1>3. ASSUME NEW n \in Nat, n # 0
      PROVE  g[n] = Down(g[n - 1])
  <2>1. n - 1 \in Nat /\ (n - 1) + 1 = n
    BY <1>3
  <2> QED
    BY <1>2, <2>1
<1> HIDE DEF V, v0, step
<1>4. IsLoop(g)
  BY <1>2, <1>3
<1>5. IsLoop(f)
  <2> HIDE DEF IsLoop
  <2> QED
    BY <1>4
<1>6. ASSUME NEW n \in Nat
      PROVE  f[n + 1] = Down(f[n])
  <2>1. n + 1 \in Nat /\ n + 1 # 0 /\ (n + 1) - 1 = n
    OBVIOUS
  <2> HIDE DEF f
  <2> QED
    BY <1>5, <2>1
<1>7. f[0] = v0 /\ SiftDown(h, i) = f[Len(h)].heap
  <2>1. SiftDown(h, i) = f[Len(h)].heap
    BY DEF SiftDown, v0
  <2> HIDE DEF f
  <2> QED
    BY <1>5, <2>1
<1> HIDE DEF f
<1> QED
  BY <1>6, <1>7 DEF v0

\* Moving the node at m down puts the nodes from m on into order, if they were
\* in order behind m.
LEMMA SiftDownFacts ==
    ASSUME NEW S, Sized(S), NEW h \in Seq(S), NEW m \in Nat \ {0}, OrderedFrom(h, m + 1)
    PROVE  /\ SiftDown(h, m) \in Seq(S)
           /\ SameNodes(SiftDown(h, m), h)
           /\ OrderedFrom(SiftDown(h, m), m)
<1>1. Len(h) \in Nat
  OBVIOUS
<1>2. PICK f : /\ f[0] = [heap |-> h, pos |-> m]
               /\ \A n \in Nat : f[n + 1] = Down(f[n])
               /\ SiftDown(h, m) = f[Len(h)].heap
  BY DownDefined
<1> DEFINE T == {n \in Nat : /\ f[n] \in Cursor(S) /\ DownInv(f[n], h, m) /\ f[n].pos >= m
                             /\ DownStops(f[n]) \/ f[n].pos >= m + n}
<1>3. 0 \in T
  <2>1. f[0] \in Cursor(S) /\ f[0].heap = h /\ f[0].pos = m
    BY <1>2 DEF Cursor
  <2>2. ASSUME NEW j \in 2 .. Len(h), Parent(j) >= m, Parent(j) # m
        PROVE  h[j].size <= h[Parent(j)].size
    <3>1. Parent(j) >= m + 1
      BY <2>2, ParentFacts
    <3> QED
      BY <3>1 DEF OrderedFrom
  <2>3. ASSUME Parent(m) >= m
        PROVE  FALSE
    BY <2>3 DEF Parent
  <2>4. DownInv(f[0], h, m)
    BY <2>1, <2>2, <2>3 DEF DownInv, SameNodes
  <2> QED
    BY <2>1, <2>4
<1>4. ASSUME NEW n \in Nat, n \in T
      PROVE  n + 1 \in T
  <2>1. f[n + 1] = Down(f[n])
    BY <1>2
  <2>2. f[n + 1] \in Cursor(S)
    BY <1>4, <2>1, DownTyped
  <2>3. DownInv(f[n + 1], h, m) /\ f[n + 1].pos >= m
    BY <1>4, <2>1, DownKeepsInv
  <2>4. DownStops(f[n + 1]) \/ f[n + 1].pos >= m + (n + 1)
    <3>1. CASE DownStops(f[n])
      BY <1>4, <2>1, <3>1, DownTyped
    <3>2. CASE ~DownStops(f[n])
      <4>1. f[n] \in Cursor(S) /\ f[n].pos >= m + n
        BY <1>4, <3>2
      <4>2. f[n + 1].pos \in f[n].pos + 1 .. Len(f[n].heap)
        BY <2>1, <3>2, <4>1, DownTyped
      <4>3. f[n].pos \in Nat
        BY <4>1 DEF Cursor
      <4> QED
        BY <4>1, <4>2, <4>3
    <3> QED
      BY <3>1, <3>2
  <2> QED
    BY <2>2, <2>3, <2>4
<1>5. \A n \in Nat : n \in T
  <2> HIDE DEF T
  <2> QED
    BY <1>3, <1>4, DataAssumption, Data!SetInduction
<1> DEFINE s == f[Len(h)]
<1>6. /\ s.heap \in Seq(S) /\ s.pos \in Nat /\ s.pos >= m /\ Len(s.heap) = Len(h) /\ DownInv(s, h, m)
      /\ DownStops(s) \/ s.pos >= m + Len(h)
  BY <1>1, <1>5 DEF Cursor, DownInv, SameNodes
<1> HIDE DEF s
<1>7. DownStops(s)
  <2>1. CASE s.pos >= m + Len(h)
    BY <1>1, <1>6, <2>1 DEF DownStops
  <2> QED
    BY <1>6, <2>1
<1>8. ASSUME NEW j \in 2 .. Len(h), Parent(j) >= m
      PROVE  s.heap[j].size <= s.heap[Parent(j)].size
  <2>1. CASE Parent(j) # s.pos
    BY <1>6, <1>8, <2>1 DEF DownInv
  <2>2. CASE Parent(j) = s.pos
    <3>1. 2 * s.pos <= Len(s.heap) /\ s.pos \in Nat \ {0}
      <4>1. j >= 2 * Parent(j) /\ Parent(j) \in Nat \ {0} /\ j <= Len(h)
        <5>1. j \in Nat /\ j >= 2 /\ j <= Len(h)
          BY <1>1
        <5>2. /\ Parent(j) \in Nat /\ Parent(j) >= 1
              /\ j = 2 * Parent(j) \/ j = 2 * Parent(j) + 1
          BY <5>1, ParentFacts
        <5> QED
          BY <5>1, <5>2
      <4> QED
        BY <1>1, <1>6, <2>2, <4>1
    <3>2. /\ Greatest(s.heap, s.pos) \in s.pos + 1 .. Len(s.heap)
          /\ s.heap[j].size <= s.heap[Greatest(s.heap, s.pos)].size
      BY <1>6, <2>2, <3>1, GreatestFacts
    <3>3. s.heap[s.pos].size >= s.heap[Greatest(s.heap, s.pos)].size
      BY <1>1, <1>6, <1>7, <3>1 DEF DownStops
    <3>4. j \in 1 .. Len(s.heap) /\ s.pos \in 1 .. Len(s.heap) /\ Greatest(s.heap, s.pos) \in 1 .. Len(s.heap)
      BY <1>1, <1>6, <3>1, <3>2
    <3>5. /\ s.heap[j].size \in Int /\ s.heap[s.pos].size \in Int
          /\ s.heap[Greatest(s.heap, s.pos)].size \in Int
      BY <1>6, <3>4 DEF Sized
    <3> QED
      BY <2>2, <3>2, <3>3, <3>5
  <2> QED
    BY <2>1, <2>2
<1> QED
  BY <1>2, <1>6, <1>8 DEF s, OrderedFrom, DownInv

-----------------------------------------------------------------------------
(* Moving a node up *)

\* The nodes are in order but for the one that is moved, whose children are
\* no larger than its parent.
UpInv(s, h) ==
    /\ SameNodes(s.heap, h)
    /\ \A j \in 2 .. Len(h) : j # s.pos => s.heap[j].size <= s.heap[Parent(j)].size
    /\ \A j \in 2 .. Len(h) :
          Parent(j) = s.pos /\ s.pos >= 2 => s.heap[j].size <= s.heap[Parent(s.pos)].size

UpStops(s) == ~(s.pos > 1 /\ s.heap[s.pos].size > s.heap[Parent(s.pos)].size)

\* the states of the loop that moves a node of an array of n
CursorIn(S, n) == {s \in Cursor(S) : s.pos <= n /\ Len(s.heap) = n}

LEMMA UpTyped ==
    ASSUME NEW S, Sized(S), NEW n \in Nat, NEW s \in CursorIn(S, n)
    PROVE  /\ Up(s) \in CursorIn(S, n)
           /\ UpStops(s) => Up(s) = s
           /\ ~UpStops(s) =>
                 /\ s.pos >= 2 /\ s.pos \in 1 .. n /\ Parent(s.pos) \in 1 .. n
                 /\ Parent(s.pos) < s.pos
                 /\ Up(s).heap = Swap(s.heap, s.pos, Parent(s.pos))
                 /\ Up(s).pos = Parent(s.pos)
<1>1. s.heap \in Seq(S) /\ s.pos \in Nat \ {0} /\ Len(s.heap) = n /\ s.pos <= n
  BY DEF CursorIn, Cursor
<1>2. CASE UpStops(s)
  BY <1>2 DEF Up, UpStops
<1>3. CASE ~UpStops(s)
  <2> DEFINE p == Parent(s.pos)
  <2>1. s.pos >= 2 /\ s.pos \in Nat
    BY <1>1, <1>3 DEF UpStops
  <2>2. p \in Nat /\ p >= 1 /\ p < s.pos
    BY <2>1, ParentFacts
  <2>3. Up(s) = [heap |-> Swap(s.heap, s.pos, p), pos |-> p]
    BY <1>3 DEF Up, UpStops
  <2> HIDE DEF p
  <2>4. s.pos \in 1 .. n /\ p \in 1 .. n /\ p # s.pos /\ p \in Nat \ {0} /\ p <= n
    BY <1>1, <2>1, <2>2
  <2>5. Swap(s.heap, s.pos, p) \in Seq(S) /\ Len(Swap(s.heap, s.pos, p)) = n
    BY <1>1, <2>4, SwapFacts DEF SameNodes
  <2> QED
    BY <1>3, <2>1, <2>2, <2>3, <2>4, <2>5 DEF CursorIn, Cursor, p
<1> QED
  BY <1>2, <1>3

LEMMA UpKeepsInv ==
    ASSUME NEW S, Sized(S), NEW h, NEW n \in Nat, Len(h) = n, NEW s \in CursorIn(S, n), UpInv(s, h)
    PROVE  UpInv(Up(s), h)
<1>1. CASE UpStops(s)
  BY <1>1, UpTyped
<1>2. CASE ~UpStops(s)
  <2> DEFINE g == s.heap
             c == s.pos
             p == Parent(c)
             f == Up(s).heap
  <2>1. g \in Seq(S) /\ Len(g) = n /\ \A j \in 1 .. n : g[j].size \in Int
    BY DEF CursorIn, Cursor, Sized
  <2>2. /\ c >= 2 /\ c \in 1 .. n /\ p \in 1 .. n /\ p < c
        /\ f = Swap(g, c, p) /\ Up(s).pos = p
    BY <1>2, UpTyped
  <2>3. g[c].size > g[p].size /\ g[c].size \in Int /\ g[p].size \in Int
    BY <1>2, <2>1, <2>2 DEF UpStops
  <2>4. /\ \A j \in 2 .. n : j # c => g[j].size <= g[Parent(j)].size
        /\ \A j \in 2 .. n : Parent(j) = c => g[j].size <= g[p].size
    BY <2>2 DEF UpInv
  <2>5. \A j \in 2 .. n :
           j \in 1 .. n /\ Parent(j) \in 1 .. n /\ Parent(j) < j /\ Parent(j) \in Nat
    BY ParentFacts
  <2>6. /\ SameNodes(f, g)
        /\ \A k \in 1 .. n : f[k] = IF k = c THEN g[p] ELSE IF k = p THEN g[c] ELSE g[k]
    <3>1. g \in Seq(S) /\ p \in 1 .. Len(g) /\ c \in 1 .. Len(g) /\ p # c
      BY <2>1, <2>2
    <3> HIDE DEF g, p, c, f
    <3>2. /\ SameNodes(Swap(g, c, p), g)
          /\ \A k \in 1 .. Len(g) :
                Swap(g, c, p)[k] = IF k = c THEN g[p] ELSE IF k = p THEN g[c] ELSE g[k]
      BY <3>1, SwapFacts
    <3> QED
      BY <2>1, <2>2, <3>2
  <2>7. SameNodes(f, h)
    BY <2>6, SameNodesIsTransitive DEF UpInv
  <2>8. p = Parent(c)
    OBVIOUS
  <2> HIDE DEF g, p, c, f
  <2>9. ASSUME NEW j \in 2 .. n, j # p
        PROVE  f[j].size <= f[Parent(j)].size
    <3>0. /\ j \in 1 .. n /\ Parent(j) \in 1 .. n /\ Parent(j) < j
          /\ g[j].size \in Int /\ g[Parent(j)].size \in Int
      BY <2>1, <2>5
    <3>1. CASE j = c
      <4>1. f[j] = g[p] /\ f[Parent(j)] = g[c]
        BY <2>2, <2>6, <2>8, <3>0, <3>1
      <4> QED
        BY <2>3, <4>1
    <3>2. CASE j # c /\ Parent(j) = c
      <4>1. f[j] = g[j] /\ f[Parent(j)] = g[p]
        BY <2>2, <2>6, <2>9, <3>0, <3>2
      <4> QED
        BY <2>4, <3>2, <4>1
    <3>3. CASE j # c /\ Parent(j) = p
      <4>1. f[j] = g[j] /\ f[Parent(j)] = g[c]
        BY <2>2, <2>6, <2>9, <3>0, <3>3
      <4>2. g[j].size <= g[p].size
        BY <2>4, <3>3
      <4> QED
        BY <2>3, <3>0, <4>1, <4>2
    <3>4. CASE j # c /\ Parent(j) # c /\ Parent(j) # p
      <4>1. f[j] = g[j] /\ f[Parent(j)] = g[Parent(j)]
        BY <2>6, <2>9, <3>0, <3>4
      <4> QED
        BY <2>4, <3>4, <4>1
    <3> QED
      BY <3>1, <3>2, <3>3, <3>4
  <2>10. ASSUME NEW j \in 2 .. n, Parent(j) = p, p >= 2
         PROVE  f[j].size <= f[Parent(p)].size
    <3>1. p \in 2 .. n /\ j \in 1 .. n /\ j # p /\ p # c
      BY <2>2, <2>5, <2>10
    <3>2. Parent(p) \in 1 .. n /\ Parent(p) # p /\ Parent(p) # c
      BY <2>2, <2>5, <3>1
    <3>3. f[Parent(p)] = g[Parent(p)] /\ g[p].size <= g[Parent(p)].size
      BY <2>4, <2>6, <3>1, <3>2
    <3>4. g[Parent(p)].size \in Int /\ g[j].size \in Int
      BY <2>1, <3>1, <3>2
    <3>5. CASE j = c
      BY <2>6, <3>1, <3>3, <3>5
    <3>6. CASE j # c
      <4>1. f[j] = g[j] /\ g[j].size <= g[p].size
        BY <2>4, <2>6, <2>10, <3>1, <3>6
      <4> QED
        BY <2>3, <3>3, <3>4, <4>1
    <3> QED
      BY <3>5, <3>6
  <2> QED
    BY <2>2, <2>7, <2>9, <2>10 DEF UpInv, f, p, c
<1> QED
  BY <1>1, <1>2

\* The loop defines the states it goes through.
LEMMA UpDefined ==
    ASSUME NEW S, Sized(S), NEW h \in Seq(S), NEW i \in 1 .. Len(h)
    PROVE  \E f : /\ f[0] = [heap |-> h, pos |-> i]
                  /\ \A n \in Nat : f[n + 1] = Up(f[n])
                  /\ SiftUp(h, i) = f[Len(h)].heap
<1> DEFINE V == CursorIn(S, Len(h))
           v0 == [heap |-> h, pos |-> i]
           step == [n \in Nat |-> [s \in V |-> Up(s)]]
           IsLoop(g) == g = [n \in Nat |-> IF n = 0 THEN v0 ELSE Up(g[n - 1])]
           f == CHOOSE g : IsLoop(g)
<1>1. v0 \in V /\ step \in [Nat -> [V -> V]]
  BY UpTyped DEF CursorIn, Cursor
<1>2. PICK g \in [Nat -> V] : g[0] = v0 /\ \A n \in Nat : g[n + 1] = step[n][g[n]]
  <2> HIDE DEF V, v0, step
  <2>1. \E g \in [Nat -> V] : Data!Steps(g, v0, step)
    BY <1>1, DataAssumption, Data!RecursionOnNat
  <2> QED
    BY <2>1 DEF Data!Steps
<1>3. ASSUME NEW n \in Nat, n # 0
      PROVE  g[n] = Up(g[n - 1])
  <2>1. n - 1 \in Nat /\ (n - 1) + 1 = n
    BY <1>3
  <2> QED
    BY <1>2, <2>1
<1> HIDE DEF V, v0, step
<1>4. IsLoop(g)
  BY <1>2, <1>3
<1>5. IsLoop(f)
  <2> HIDE DEF IsLoop
  <2> QED
    BY <1>4
<1>6. ASSUME NEW n \in Nat
      PROVE  f[n + 1] = Up(f[n])
  <2>1. n + 1 \in Nat /\ n + 1 # 0 /\ (n + 1) - 1 = n
    OBVIOUS
  <2> HIDE DEF f
  <2> QED
    BY <1>5, <2>1
<1>7. f[0] = v0 /\ SiftUp(h, i) = f[Len(h)].heap
  <2>1. SiftUp(h, i) = f[Len(h)].heap
    BY DEF SiftUp, v0
  <2> HIDE DEF f
  <2> QED
    BY <1>5, <2>1
<1> HIDE DEF f
<1> QED
  BY <1>6, <1>7 DEF v0

\* Moving the last node up puts the nodes into order, if they were in order
\* before it.
LEMMA SiftUpFacts ==
    ASSUME NEW S, Sized(S), NEW h \in Seq(S), h # <<>>,
           \A j \in 2 .. Len(h) - 1 : h[j].size <= h[Parent(j)].size
    PROVE  /\ SiftUp(h, Len(h)) \in Seq(S)
           /\ SameNodes(SiftUp(h, Len(h)), h)
           /\ IsHeap(SiftUp(h, Len(h)))
<1> DEFINE n == Len(h)
<1>1. n \in Nat /\ n \in 1 .. n
  BY EmptySeq, LenProperties
<1>2. PICK f : /\ f[0] = [heap |-> h, pos |-> n]
               /\ \A k \in Nat : f[k + 1] = Up(f[k])
               /\ SiftUp(h, n) = f[n].heap
  BY <1>1, UpDefined
<1> DEFINE T == {k \in Nat : /\ f[k] \in CursorIn(S, n) /\ UpInv(f[k], h)
                             /\ UpStops(f[k]) \/ f[k].pos <= n - k}
<1>3. 0 \in T
  <2>1. f[0] \in CursorIn(S, n) /\ f[0].heap = h /\ f[0].pos = n
    BY <1>1, <1>2 DEF CursorIn, Cursor
  <2>2. ASSUME NEW j \in 2 .. n, j # n
        PROVE  h[j].size <= h[Parent(j)].size
    BY <1>1, <2>2
  <2>3. ASSUME NEW j \in 2 .. n, Parent(j) = n
        PROVE  FALSE
    BY <1>1, <2>3 DEF Parent
  <2> HIDE DEF n
  <2>4. UpInv(f[0], h)
    BY <2>1, <2>2, <2>3 DEF UpInv, SameNodes, n
  <2> QED
    BY <1>1, <2>1, <2>4
<1> HIDE DEF n
<1>4. ASSUME NEW k \in Nat, k \in T
      PROVE  k + 1 \in T
  <2>1. f[k + 1] = Up(f[k]) /\ f[k] \in CursorIn(S, n) /\ UpInv(f[k], h)
    BY <1>2, <1>4
  <2>2. f[k + 1] \in CursorIn(S, n)
    BY <1>1, <2>1, UpTyped
  <2>3. UpInv(f[k + 1], h)
    BY <1>1, <2>1, UpKeepsInv DEF n
  <2>4. UpStops(f[k + 1]) \/ f[k + 1].pos <= n - (k + 1)
    <3>1. CASE UpStops(f[k])
      BY <1>1, <2>1, <3>1, UpTyped
    <3>2. CASE ~UpStops(f[k])
      <4>1. f[k].pos <= n - k
        BY <1>4, <3>2
      <4>2. f[k].pos \in 1 .. n /\ f[k + 1].pos \in 1 .. n /\ f[k + 1].pos < f[k].pos
        BY <1>1, <2>1, <3>2, UpTyped
      <4> QED
        BY <1>1, <4>1, <4>2
    <3> QED
      BY <3>1, <3>2
  <2> QED
    BY <2>2, <2>3, <2>4
<1>5. \A k \in Nat : k \in T
  <2> HIDE DEF T
  <2> QED
    BY <1>3, <1>4, DataAssumption, Data!SetInduction
<1> DEFINE s == f[n]
<1>6. s \in CursorIn(S, n) /\ UpInv(s, h) /\ (UpStops(s) \/ s.pos <= n - n)
  BY <1>1, <1>5
<1> HIDE DEF s
<1>7. s.heap \in Seq(S) /\ s.pos \in 1 .. n /\ Len(s.heap) = n
  BY <1>6 DEF CursorIn, Cursor
<1>8. UpStops(s)
  BY <1>1, <1>6, <1>7
<1>9. ASSUME NEW j \in 2 .. n
      PROVE  s.heap[j].size <= s.heap[Parent(j)].size
  <2>1. CASE j # s.pos
    BY <1>6, <2>1 DEF UpInv, n
  <2>2. CASE j = s.pos
    <3>1. j \in 1 .. n /\ Parent(j) \in 1 .. n
      BY <1>1, ParentFacts
    <3>2. s.heap[j].size \in Int /\ s.heap[Parent(j)].size \in Int
      BY <1>7, <3>1 DEF Sized
    <3> QED
      BY <1>7, <1>8, <2>2, <3>1, <3>2 DEF UpStops
  <2> QED
    BY <2>1, <2>2
<1>10. SiftUp(h, Len(h)) = s.heap
  BY <1>2 DEF s, n
<1> QED
  BY <1>6, <1>7, <1>9, <1>10 DEF IsHeap, UpInv

-----------------------------------------------------------------------------
(* The operations of the heap *)

\* The loop over the inner nodes, the last one first.
LEMMA BuildDefined ==
    ASSUME NEW S, Sized(S), NEW h \in Seq(S)
    PROVE  \E f : /\ f[0] = h
                  /\ \A k \in 1 .. Len(h) \div 2 : f[k] = SiftDown(f[k - 1], Len(h) \div 2 + 1 - k)
                  /\ Build(h) = f[Len(h) \div 2]
<1> DEFINE half == Len(h) \div 2
           Ordered(k) == {g \in Seq(S) : Len(g) = Len(h) /\ OrderedFrom(g, half + 1 - k)}
           V == UNION {{k} \X Ordered(k) : k \in 0 .. half}
           next(v) == IF v[1] < half THEN <<v[1] + 1, SiftDown(v[2], half + 1 - (v[1] + 1))>> ELSE v
           step == [n \in Nat |-> [v \in V |-> next(v)]]
           IsLoop(f) == f = [k \in 0 .. half |-> IF k = 0 THEN h ELSE SiftDown(f[k - 1], half + 1 - k)]
<1>1. Len(h) \in Nat /\ half \in Nat
  BY LenProperties
<1>2. h \in Ordered(0) /\ <<0, h>> \in V
  <2>1. \A j \in 2 .. Len(h) : ~(Parent(j) >= half + 1)
    BY <1>1 DEF Parent
  <2>2. h \in Ordered(0)
    BY <1>1, <2>1 DEF OrderedFrom
  <2> HIDE DEF half, Ordered
  <2> QED
    BY <1>1, <2>2
<1> HIDE DEF half
<1>3. ASSUME NEW v \in V
      PROVE  next(v) \in V
  <2>1. PICK k \in 0 .. half : v \in {k} \X Ordered(k)
    OBVIOUS
  <2>2. v[1] = k /\ v[2] \in Ordered(k)
    BY <2>1
  <2>3. CASE k < half
    <3>1. half + 1 - (k + 1) \in Nat \ {0} /\ (half + 1 - (k + 1)) + 1 = half + 1 - k /\ k + 1 \in 0 .. half
      BY <1>1, <2>3
    <3>2. v[2] \in Seq(S) /\ Len(v[2]) = Len(h) /\ OrderedFrom(v[2], half + 1 - k)
      BY <2>2
    <3> DEFINE m == half + 1 - (k + 1)
               g == SiftDown(v[2], m)
    <3> HIDE DEF m
    <3>3. g \in Seq(S) /\ Len(g) = Len(h) /\ OrderedFrom(g, m)
      BY <3>1, <3>2, SiftDownFacts DEF m, SameNodes
    <3>4. g \in Ordered(k + 1)
      BY <3>3 DEF m
    <3>5. next(v) = <<k + 1, g>>
      BY <2>2, <2>3 DEF m
    <3> HIDE DEF Ordered, next, g
    <3> QED
      BY <3>1, <3>4, <3>5
  <2>4. CASE ~(k < half)
    BY <2>2, <2>4
  <2> QED
    BY <2>3, <2>4
<1>4. step \in [Nat -> [V -> V]]
  <2> HIDE DEF V, next
  <2> QED
    BY <1>3
<1>5. PICK w \in [Nat -> V] : w[0] = <<0, h>> /\ \A n \in Nat : w[n + 1] = step[n][w[n]]
  <2> HIDE DEF V, step
  <2>1. \E w \in [Nat -> V] : Data!Steps(w, <<0, h>>, step)
    BY <1>2, <1>4, DataAssumption, Data!RecursionOnNat
  <2> QED
    BY <2>1 DEF Data!Steps
<1>6. \A n \in Nat : w[n + 1] = next(w[n])
  <2> HIDE DEF V, next
  <2> QED
    BY <1>5
<1> HIDE DEF V, step
<1>7. ASSUME NEW n \in Nat, w[n][1] = n, n < half
       PROVE  w[n + 1] = <<n + 1, SiftDown(w[n][2], half + 1 - (n + 1))>>
  BY <1>6, <1>7
<1> HIDE DEF next
<1> DEFINE T == {n \in Nat : n <= half => w[n][1] = n}
<1>8. 0 \in T
  BY <1>5
<1>9. ASSUME NEW n \in Nat, n \in T
      PROVE  n + 1 \in T
  <2> SUFFICES ASSUME n + 1 <= half
               PROVE  w[n + 1][1] = n + 1
    OBVIOUS
  <2>1. w[n][1] = n /\ n < half
    BY <1>1, <1>9
  <2> QED
    BY <1>7, <2>1
<1>10. \A n \in Nat : n \in T
  <2> HIDE DEF T
  <2> QED
    BY <1>8, <1>9, DataAssumption, Data!SetInduction
<1> DEFINE f == [k \in 0 .. half |-> w[k][2]]
<1>11. ASSUME NEW k \in 1 .. half
       PROVE  f[k] = SiftDown(f[k - 1], half + 1 - k)
  <2>1. k - 1 \in Nat /\ k - 1 \in 0 .. half /\ k - 1 < half /\ (k - 1) + 1 = k /\ k \in 0 .. half
    BY <1>1
  <2>2. w[k - 1][1] = k - 1
    BY <1>10, <2>1
  <2>3. w[k] = <<k, SiftDown(w[k - 1][2], half + 1 - k)>>
    BY <1>7, <2>1, <2>2
  <2> QED
    BY <2>1, <2>3
<1>12. f[0] = h /\ DOMAIN f = 0 .. half
  BY <1>1, <1>5
<1>13. IsLoop(f)
  <2>1. \A k \in 0 .. half : k = 0 \/ k \in 1 .. half
    BY <1>1
  <2>2. f = [k \in 0 .. half |-> f[k]]
    OBVIOUS
  <2> HIDE DEF f
  <2> QED
    BY <1>11, <1>12, <2>1, <2>2
<1> DEFINE e == CHOOSE g : IsLoop(g)
<1>14. IsLoop(e)
  <2> HIDE DEF IsLoop, f
  <2> QED
    BY <1>13
<1>15. Build(h) = e[half]
  BY DEF Build, half
<1> HIDE DEF e
<1>16. \A k \in 1 .. half : k \in 0 .. half /\ k # 0
  BY <1>1
<1>17. 0 \in 0 .. half
  BY <1>1
<1> QED
  BY <1>14, <1>15, <1>16, <1>17 DEF half

\* block_heap_build makes a heap of any array, with the same nodes.
LEMMA BuildFacts ==
    ASSUME NEW S, Sized(S), NEW h \in Seq(S)
    PROVE  Build(h) \in Seq(S) /\ SameNodes(Build(h), h) /\ IsHeap(Build(h))
<1> DEFINE half == Len(h) \div 2
<1>1. /\ Len(h) \in Nat /\ half \in Nat
      /\ \A j \in 2 .. Len(h) : ~(Parent(j) >= half + 1)
  BY LenProperties DEF Parent
<1>2. PICK f : /\ f[0] = h
               /\ \A k \in 1 .. half : f[k] = SiftDown(f[k - 1], half + 1 - k)
               /\ Build(h) = f[half]
  BY BuildDefined
<1> HIDE DEF half
<1> DEFINE T == {k \in Nat : k <= half => /\ f[k] \in Seq(S) /\ SameNodes(f[k], h)
                                         /\ OrderedFrom(f[k], half + 1 - k)}
<1>3. 0 \in T
  BY <1>1, <1>2 DEF OrderedFrom, SameNodes
<1>4. ASSUME NEW k \in Nat, k \in T
      PROVE  k + 1 \in T
  <2> SUFFICES ASSUME k + 1 <= half
               PROVE  /\ f[k + 1] \in Seq(S) /\ SameNodes(f[k + 1], h)
                      /\ OrderedFrom(f[k + 1], half + 1 - (k + 1))
    OBVIOUS
  <2> DEFINE m == half + 1 - (k + 1)
  <2>1. /\ k + 1 \in 1 .. half /\ (k + 1) - 1 = k /\ k <= half
        /\ m \in Nat \ {0} /\ m + 1 = half + 1 - k
    BY <1>1
  <2>2. f[k + 1] = SiftDown(f[k], m)
    BY <1>2, <2>1
  <2> HIDE DEF m
  <2>3. f[k] \in Seq(S) /\ SameNodes(f[k], h) /\ OrderedFrom(f[k], m + 1)
    BY <1>4, <2>1
  <2>4. f[k + 1] \in Seq(S) /\ SameNodes(f[k + 1], f[k]) /\ OrderedFrom(f[k + 1], m)
    BY <2>1, <2>2, <2>3, SiftDownFacts
  <2>5. SameNodes(f[k + 1], h)
    BY <2>3, <2>4, SameNodesIsTransitive
  <2> QED
    BY <2>4, <2>5 DEF m
<1>5. \A k \in Nat : k \in T
  <2> HIDE DEF T
  <2> QED
    BY <1>3, <1>4, DataAssumption, Data!SetInduction
<1>6. f[half] \in Seq(S) /\ SameNodes(f[half], h) /\ OrderedFrom(f[half], 1)
  <2>1. half <= half /\ half + 1 - half = 1
    BY <1>1
  <2> QED
    BY <1>1, <1>5, <2>1
<1>7. ASSUME NEW j \in 2 .. Len(f[half])
      PROVE  f[half][j].size <= f[half][Parent(j)].size
  <2>1. Len(f[half]) \in Nat
    BY <1>6
  <2>2. Parent(j) >= 1
    BY <2>1, ParentFacts
  <2> QED
    BY <1>6, <2>2 DEF OrderedFrom
<1> QED
  BY <1>2, <1>6, <1>7 DEF IsHeap

\* No node of a heap is larger than the top.
LEMMA TopIsLargest ==
    ASSUME NEW S, Sized(S), NEW h \in Seq(S), IsHeap(h), NEW i \in 1 .. Len(h)
    PROVE  h[i].size <= h[1].size
<1>1. Len(h) \in Nat /\ \A j \in 1 .. Len(h) : h[j].size \in Int
  BY LenProperties DEF Sized
<1> DEFINE Larger == {j \in 1 .. Len(h) : h[j].size > h[1].size}
<1> SUFFICES ASSUME Larger # {}
             PROVE  FALSE
  BY <1>1
<1>2. PICK j \in Larger : \A k \in Larger : j <= k
  <2>1. Larger \in SUBSET Nat
    OBVIOUS
  <2> HIDE DEF Larger
  <2> QED
    BY <2>1, DataAssumption, Data!LeastNumber
<1>3. j \in 2 .. Len(h)
  BY <1>1, <1>2
<1>4. Parent(j) \in 1 .. Len(h) /\ Parent(j) < j
  BY <1>1, <1>3, ParentFacts
<1>5. Parent(j) \in Larger
  BY <1>1, <1>2, <1>3, <1>4 DEF IsHeap
<1> QED
  BY <1>1, <1>2, <1>4, <1>5

\* Whatever the top is replaced by, moving it down makes a heap again.
LEMMA ReplaceTopFacts ==
    ASSUME NEW S, Sized(S), NEW h \in Seq(S), h # <<>>, NEW x \in S,
           \A j \in 2 .. Len(h) : Parent(j) >= 2 => h[j].size <= h[Parent(j)].size
    PROVE  /\ ReplaceTop(h, x) \in Seq(S)
           /\ SameNodes(ReplaceTop(h, x), [h EXCEPT ![1] = x])
           /\ IsHeap(ReplaceTop(h, x))
<1> DEFINE g == [h EXCEPT ![1] = x]
<1>1. Len(h) \in Nat \ {0} /\ h \in [1 .. Len(h) -> S]
  BY EmptySeq, LenProperties
<1>2. g \in [1 .. Len(h) -> S] /\ \A j \in 2 .. Len(h) : g[j] = h[j]
  BY <1>1
<1>3. g \in Seq(S)
  BY <1>1, <1>2, SeqDef
<1> HIDE DEF g
<1>4. Len(g) = Len(h)
  BY <1>1, <1>2, <1>3, LenProperties
<1>5. ASSUME NEW j \in 2 .. Len(g), Parent(j) >= 2
      PROVE  g[j].size <= g[Parent(j)].size
  <2>1. j \in 2 .. Len(h) /\ Parent(j) \in 2 .. Len(h)
    BY <1>1, <1>4, <1>5, ParentFacts
  <2> QED
    BY <1>2, <1>5, <2>1
<1>6. OrderedFrom(g, 1 + 1)
  BY <1>5 DEF OrderedFrom
<1>7. /\ SiftDown(g, 1) \in Seq(S) /\ SameNodes(SiftDown(g, 1), g)
      /\ OrderedFrom(SiftDown(g, 1), 1)
  BY <1>3, <1>6, SiftDownFacts
<1>8. IsHeap(SiftDown(g, 1))
  <2>1. Len(SiftDown(g, 1)) \in Nat
    BY <1>7
  <2> QED
    BY <1>7, <2>1, ParentFacts DEF IsHeap, OrderedFrom
<1>9. ReplaceTop(h, x) = SiftDown(g, 1)
  BY DEF ReplaceTop, g
<1> QED
  BY <1>7, <1>8, <1>9 DEF g

\* Without its top a heap is a heap of the other nodes.
LEMMA RemoveTopFacts ==
    ASSUME NEW S, Sized(S), NEW h \in Seq(S), h # <<>>, IsHeap(h)
    PROVE  /\ RemoveTop(h) \in Seq(S) /\ IsHeap(RemoveTop(h))
           /\ Len(RemoveTop(h)) = Len(h) - 1
           /\ NodesOf(RemoveTop(h)) = {h[k] : k \in 2 .. Len(h)}
           /\ Distinct(h) => Distinct(RemoveTop(h))
<1> DEFINE n == Len(h)
           g == Swap(h, 1, n)
           r == SubSeq(g, 1, n - 1)
<1>1. n \in Nat \ {0} /\ DOMAIN h = 1 .. n /\ h \in [1 .. n -> S]
  BY EmptySeq, LenProperties
<1>2. g \in [1 .. n -> S] /\ \A k \in 1 .. n - 1 : g[k] = h[IF k = 1 THEN n ELSE k]
  BY <1>1 DEF Swap
<1>3. g \in Seq(S)
  BY <1>1, <1>2, SeqDef
<1> HIDE DEF g, n
<1>4. r \in Seq(S) /\ Len(r) = n - 1 /\ \A k \in 1 .. n - 1 : r[k] = g[k]
  <2>1. 1 \in Int /\ n - 1 \in Int /\ \A k \in 1 .. n - 1 : g[k] \in S
    BY <1>1, <1>2
  <2>2. /\ r \in Seq(S) /\ Len(r) = IF 1 <= n - 1 THEN n - 1 - 1 + 1 ELSE 0
        /\ \A k \in 1 .. n - 1 - 1 + 1 : r[k] = g[1 + k - 1]
    BY <2>1, SubSeqProperties
  <2> HIDE DEF r
  <2>3. Len(r) = n - 1
    BY <1>1, <2>2
  <2>4. ASSUME NEW k \in 1 .. n - 1
        PROVE  r[k] = g[k]
    <3>1. k \in 1 .. n - 1 - 1 + 1 /\ 1 + k - 1 = k
      BY <1>1
    <3> QED
      BY <2>2, <3>1
  <2> QED
    BY <2>2, <2>3, <2>4
<1> HIDE DEF r
<1> DEFINE at(k) == IF k = 1 THEN n ELSE k
<1>5. DOMAIN r = 1 .. n - 1 /\ \A k \in 1 .. n - 1 : at(k) \in 2 .. n /\ r[k] = h[at(k)]
  BY <1>1, <1>2, <1>4
<1>6. NodesOf(r) = {h[k] : k \in 2 .. n}
  <2>1. ASSUME NEW k \in 2 .. n
        PROVE  \E i \in 1 .. n - 1 : at(i) = k
    <3>1. CASE k = n
      <4>1. 1 \in 1 .. n - 1
        BY <1>1, <3>1
      <4> QED
        BY <3>1, <4>1
    <3>2. CASE k # n
      <4>1. k \in 1 .. n - 1 /\ k # 1
        BY <1>1, <3>2
      <4> QED
        BY <4>1
    <3> QED
      BY <3>1, <3>2
  <2> HIDE DEF at
  <2> QED
    BY <1>5, <2>1 DEF NodesOf
<1>7. Distinct(h) => Distinct(r)
  <2> SUFFICES ASSUME Distinct(h), NEW i \in 1 .. n - 1, NEW j \in 1 .. n - 1, r[i].ptr = r[j].ptr
               PROVE  i = j
    BY <1>5 DEF Distinct
  <2>1. at(i) = at(j)
    <3> HIDE DEF at
    <3>1. at(i) \in DOMAIN h /\ at(j) \in DOMAIN h
      BY <1>1, <1>5
    <3> QED
      BY <1>5, <3>1 DEF Distinct
  <2> QED
    BY <1>1, <2>1
<1>8. OrderedFrom(r, 1 + 1)
  <2> SUFFICES ASSUME NEW j \in 2 .. Len(r), Parent(j) >= 2
               PROVE  r[j].size <= r[Parent(j)].size
    BY DEF OrderedFrom
  <2>1. /\ j \in 2 .. n /\ j \in 1 .. n - 1 /\ j # 1
        /\ Parent(j) \in 1 .. n - 1 /\ Parent(j) # 1
    BY <1>1, <1>4, ParentFacts
  <2>2. r[j] = h[j] /\ r[Parent(j)] = h[Parent(j)]
    BY <1>5, <2>1
  <2> QED
    BY <2>1, <2>2 DEF IsHeap, n
<1>9. /\ SiftDown(r, 1) \in Seq(S) /\ SameNodes(SiftDown(r, 1), r)
      /\ OrderedFrom(SiftDown(r, 1), 1)
  BY <1>4, <1>8, SiftDownFacts
<1>10. IsHeap(SiftDown(r, 1))
  <2>1. Len(SiftDown(r, 1)) \in Nat
    BY <1>9
  <2> QED
    BY <1>9, <2>1, ParentFacts DEF IsHeap, OrderedFrom
<1>11. RemoveTop(h) = SiftDown(r, 1)
  BY DEF RemoveTop, r, g, n
<1> QED
  BY <1>4, <1>6, <1>7, <1>9, <1>10, <1>11 DEF SameNodes, n

\* The operations of block_heap.c on an array of any length: building makes a
\* heap of any array, and the others make a heap of a heap.  None of them
\* loses a node, doubles one or makes one up.
THEOREM HeapOperations ==
    ASSUME NEW S, Sized(S), NEW h \in Seq(S), NEW x \in S
    PROVE  /\ IsHeap(Build(h)) /\ SameNodes(Build(h), h)
           /\ IsHeap(h) =>
                 /\ IsHeap(Insert(h, x)) /\ SameNodes(Insert(h, x), Append(h, x))
                 /\ \A i \in 1 .. Len(h) : h[i].size <= h[1].size
                 /\ h # <<>> =>
                       /\ IsHeap(ReplaceTop(h, x))
                       /\ SameNodes(ReplaceTop(h, x), [h EXCEPT ![1] = x])
                       /\ IsHeap(RemoveTop(h)) /\ Len(RemoveTop(h)) = Len(h) - 1
                       /\ NodesOf(RemoveTop(h)) = {h[k] : k \in 2 .. Len(h)}
                       /\ Distinct(h) => Distinct(RemoveTop(h))
<1>1. IsHeap(Build(h)) /\ SameNodes(Build(h), h)
  BY BuildFacts
<1> SUFFICES ASSUME IsHeap(h)
             PROVE  /\ IsHeap(Insert(h, x)) /\ SameNodes(Insert(h, x), Append(h, x))
                    /\ \A i \in 1 .. Len(h) : h[i].size <= h[1].size
                    /\ h # <<>> =>
                          /\ IsHeap(ReplaceTop(h, x))
                          /\ SameNodes(ReplaceTop(h, x), [h EXCEPT ![1] = x])
                          /\ IsHeap(RemoveTop(h)) /\ Len(RemoveTop(h)) = Len(h) - 1
                          /\ NodesOf(RemoveTop(h)) = {h[k] : k \in 2 .. Len(h)}
                          /\ Distinct(h) => Distinct(RemoveTop(h))
  BY <1>1
<1>2. IsHeap(Insert(h, x)) /\ SameNodes(Insert(h, x), Append(h, x))
  <2> DEFINE g == Append(h, x)
  <2>1. /\ g \in Seq(S) /\ Len(h) \in Nat /\ Len(g) = Len(h) + 1 /\ g # <<>>
        /\ \A k \in 1 .. Len(h) : g[k] = h[k]
    BY AppendProperties, LenProperties
  <2> HIDE DEF g
  <2>2. ASSUME NEW j \in 2 .. Len(g) - 1
        PROVE  g[j].size <= g[Parent(j)].size
    <3>1. j \in 2 .. Len(h) /\ j \in 1 .. Len(h) /\ Parent(j) \in 1 .. Len(h)
      BY <2>1, ParentFacts
    <3> QED
      BY <2>1, <3>1 DEF IsHeap
  <2>3. SameNodes(SiftUp(g, Len(g)), g) /\ IsHeap(SiftUp(g, Len(g)))
    BY <2>1, <2>2, SiftUpFacts
  <2> QED
    BY <2>1, <2>3 DEF Insert, g
<1>3. ASSUME h # <<>>
      PROVE  IsHeap(ReplaceTop(h, x)) /\ SameNodes(ReplaceTop(h, x), [h EXCEPT ![1] = x])
  BY <1>3, ReplaceTopFacts DEF IsHeap
<1> QED
  BY <1>2, <1>3, TopIsLargest, RemoveTopFacts

-----------------------------------------------------------------------------
(* The inductive invariant.  That the file agrees with the heap survives a  *)
(* split only because the bytes behind the first of a block are content:    *)
(* the remainder begins at one of them and has no header yet.  That a scan  *)
(* steps from block to block needs what BlockStore proves of the blocks,    *)
(* that they lie side by side, and that no padding wraps around.            *)

Alloc == INSTANCE BlockStore_proofs WITH live <- LiveBlocks, pool <- Nodes, eof <- Eof

BlockEnd(c) == c.ptr + H + c.cap

ContentBehind(f, c) == \A x \in c.ptr + 1 .. BlockEnd(c) - 1 : f[x] = Byte

\* a block in use, and a free one, in the file f
InUse(f, c) == f[c.ptr] = Header(FALSE, c.size, c.cap) /\ ContentBehind(f, c)
IsFree(f, c) ==
    /\ \/ f[c.ptr] = Byte
       \/ f[c.ptr] = Header(TRUE, c.size, c.cap) /\ c.size <= c.cap
    /\ ContentBehind(f, c)

FileInv ==
    /\ DOMAIN file = Base .. Eof - 1 /\ IsFiniteSet(DOMAIN file)
    /\ \A c \in LiveBlocks : InUse(file, c)
    /\ \A c \in Nodes : IsFree(file, c)

Inv ==
    /\ heap \in Seq(Alloc!Block) /\ HeapOrdered
    /\ FileInv
    /\ Alloc!IInv

\* The headers of all blocks are in the file, or no content looks like one.
NothingMisread == Garbage = {} \/ \A nd \in Nodes : file[nd.ptr].kind = "header"

-----------------------------------------------------------------------------
(* What the invariant says of the blocks *)

LEMMA AllocAssumption == Alloc!StoreAssumption
BY HeapFileAssumption DEF Alloc!StoreAssumption

Blocks == LiveBlocks \union Nodes

LEMMA BlockFacts ==
    ASSUME Inv
    PROVE  /\ Eof \in Nat /\ Base \in Nat /\ Base <= Eof /\ H \in Nat \ {0} /\ M \in Nat \ {0}
           /\ \A c \in Blocks :
                 /\ c \in Alloc!Block
                 /\ c.ptr \in Nat /\ c.size \in 0 .. M - 1 /\ c.cap \in 0 .. M - 1
                 /\ BlockEnd(c) \in Nat /\ Base <= c.ptr /\ c.ptr < BlockEnd(c) /\ BlockEnd(c) <= Eof
           /\ \A c, d \in Blocks : c = d \/ BlockEnd(c) <= d.ptr \/ BlockEnd(d) <= c.ptr
           /\ LiveBlocks \intersect Nodes = {}
           /\ \A c \in LiveBlocks : c.size <= c.cap
           /\ \A x \in Base .. Eof - 1 : \E c \in Blocks : c.ptr <= x /\ x < BlockEnd(c)
<1>1. H \in Nat \ {0} /\ Base \in Nat /\ M \in Nat \ {0}
  BY HeapFileAssumption
<1>2. LiveBlocks \subseteq Alloc!Block /\ Nodes \subseteq Alloc!Block /\ Eof \in Nat
  BY DEF Inv, Alloc!IInv, Alloc!TypeOK
<1>3. Base <= Eof /\ \A c \in Blocks : Base <= c.ptr /\ BlockEnd(c) <= Eof
  BY DEF Inv, Alloc!IInv, Alloc!Within, Alloc!BlockEnd, BlockEnd, Blocks
<1>4. /\ \A c, d \in Blocks : c = d \/ BlockEnd(c) <= d.ptr \/ BlockEnd(d) <= c.ptr
      /\ LiveBlocks \intersect Nodes = {}
  BY DEF Inv, Alloc!IInv, Alloc!NoOverlap, Alloc!BlockEnd, BlockEnd, Blocks
<1>5. \A c \in LiveBlocks : c.size <= c.cap
  BY DEF Inv, Alloc!IInv, Alloc!WasteBounded
<1>6. \A x \in Base .. Eof - 1 : \E c \in Blocks : c.ptr <= x /\ x < BlockEnd(c)
  BY DEF Inv, Alloc!IInv, Alloc!Covered, Alloc!BlockEnd, BlockEnd, Blocks
<1>7. ASSUME NEW c \in Blocks
      PROVE  /\ c \in Alloc!Block
             /\ c.ptr \in Nat /\ c.size \in 0 .. M - 1 /\ c.cap \in 0 .. M - 1
             /\ BlockEnd(c) \in Nat /\ c.ptr < BlockEnd(c)
  <2>1. c \in Alloc!Block
    BY <1>2 DEF Blocks
  <2> QED
    BY <1>1, <2>1 DEF Alloc!Block, BlockEnd
<1> QED
  BY <1>1, <1>2, <1>3, <1>4, <1>5, <1>6, <1>7

\* The block in use at a pointer that a caller holds.
LiveAt(p) == [ptr |-> p, size |-> file[p].size, cap |-> file[p].cap]

LEMMA OwnedFacts ==
    ASSUME Inv, NEW p \in owned
    PROVE  /\ LiveAt(p) \in LiveBlocks /\ LiveAt(p).ptr = p
           /\ file[p] = Header(FALSE, LiveAt(p).size, LiveAt(p).cap)
           /\ p \in DOMAIN file
<1>1. LiveAt(p) \in LiveBlocks /\ LiveAt(p).ptr = p
  BY DEF LiveAt, LiveBlocks
<1>2. file[p] = Header(FALSE, LiveAt(p).size, LiveAt(p).cap)
  BY <1>1 DEF Inv, FileInv, InUse
<1>3. p \in Base .. Eof - 1
  BY <1>1, BlockFacts DEF Blocks
<1> QED
  BY <1>1, <1>2, <1>3 DEF Inv, FileInv

LEMMA LiveIsOwned ==
    ASSUME NEW c \in LiveBlocks
    PROVE  c.ptr \in owned /\ c = LiveAt(c.ptr)
BY DEF LiveBlocks, LiveAt

\* What the invariant promises of the heap and the file.
LEMMA InvAgrees == Inv => HeapOrdered /\ FileAgrees
<1> SUFFICES ASSUME Inv
             PROVE  FileAgrees
  BY DEF Inv
<1>1. \A p \in owned : file[p].kind = "header" /\ ~file[p].free
  <2> SUFFICES ASSUME NEW p \in owned
               PROVE  file[p].kind = "header" /\ ~file[p].free
    OBVIOUS
  <2>1. file[p] = Header(FALSE, LiveAt(p).size, LiveAt(p).cap)
    BY OwnedFacts
  <2>2. file[p].kind = "header" /\ file[p].free = FALSE
    BY <2>1 DEF Header
  <2> QED
    BY <2>2
<1>2. \A nd \in Nodes : file[nd.ptr] \in {Header(TRUE, nd.size, nd.cap), Byte}
  BY DEF Inv, FileInv, IsFree
<1> QED
  BY <1>1, <1>2 DEF FileAgrees

\* A block at addresses that two files agree on is the same in both.
LEMMA SameInBoth ==
    ASSUME NEW f, NEW g, NEW c \in Alloc!Block,
           \A x \in c.ptr .. BlockEnd(c) - 1 : g[x] = f[x]
    PROVE  (InUse(f, c) => InUse(g, c)) /\ (IsFree(f, c) => IsFree(g, c))
<1>1. H \in Nat \ {0} /\ c.ptr \in Nat /\ c.cap \in Nat /\ BlockEnd(c) \in Nat /\ c.ptr < BlockEnd(c)
  BY HeapFileAssumption DEF Alloc!Block, BlockEnd
<1>2. g[c.ptr] = f[c.ptr] /\ \A x \in c.ptr + 1 .. BlockEnd(c) - 1 : g[x] = f[x]
  BY <1>1
<1> QED
  BY <1>2 DEF InUse, IsFree, ContentBehind

\* How far a file reaches.
LEMMA EofIs ==
    ASSUME NEW e \in Nat, Base <= e, NEW f, DOMAIN f = Base .. e - 1
    PROVE  Base + Cardinality(DOMAIN f) = e /\ IsFiniteSet(DOMAIN f)
<1>1. Base \in Nat /\ Base \in Int /\ e - 1 \in Int
  BY HeapFileAssumption
<1>2. /\ IsFiniteSet(Base .. e - 1)
      /\ Cardinality(Base .. e - 1) = IF Base > e - 1 THEN 0 ELSE e - 1 - Base + 1
  BY <1>1, FS_Interval
<1> QED
  BY <1>1, <1>2

LEMMA InitInv == Init => Inv
<1> SUFFICES ASSUME Init
             PROVE  Inv
  OBVIOUS
<1>1. heap = <<>> /\ file = <<>> /\ owned = {} /\ DOMAIN file = {} /\ Base \in Nat
  BY HeapFileAssumption DEF Init
<1>2. Nodes = {} /\ LiveBlocks = {}
  BY <1>1 DEF Nodes, LiveBlocks
<1>3. Eof = Base /\ IsFiniteSet(DOMAIN file) /\ DOMAIN file = Base .. Eof - 1
  <2>1. DOMAIN file = Base .. Base - 1 /\ Base <= Base
    BY <1>1
  <2>2. Base + Cardinality(DOMAIN file) = Base /\ IsFiniteSet(DOMAIN file)
    BY <1>1, <2>1, EofIs
  <2> QED
    BY <2>1, <2>2 DEF Eof
<1>4. Alloc!Init
  BY <1>2, <1>3 DEF Alloc!Init
<1>5. Alloc!IInv
  BY <1>4, AllocAssumption, Alloc!InitIInv
<1>6. heap \in Seq(Alloc!Block) /\ HeapOrdered
  BY <1>1 DEF HeapOrdered, IsHeap
<1> QED
  BY <1>2, <1>3, <1>5, <1>6 DEF Inv, FileInv

-----------------------------------------------------------------------------
(* Handing out a block *)

\* Writing a block where no other block in use is adds it to these, changes
\* the addresses of its header and its content and no others.
LEMMA WriteFacts ==
    ASSUME Inv, NEW p \in Nat, Base <= p, p <= Eof, NEW n \in Requests, NEW cap,
           WriteBlock(p, n, cap),
           \A c \in LiveBlocks : BlockEnd(c) <= p \/ p + H + n <= c.ptr
    PROVE  /\ LiveBlocks' = LiveBlocks \union {[ptr |-> p, size |-> n, cap |-> cap]}
           /\ Eof' = (IF p + H + n > Eof THEN p + H + n ELSE Eof)
           /\ DOMAIN file' = Base .. Eof' - 1 /\ IsFiniteSet(DOMAIN file')
           /\ file'[p] = Header(FALSE, n, cap)
           /\ \A x \in p + 1 .. p + H + n - 1 : file'[x] = Byte
           /\ \A x \in Base .. Eof - 1 : x < p \/ x >= p + H + n => file'[x] = file[x]
<1> DEFINE end == p + H + n
           e == IF end > Eof THEN end ELSE Eof
<1>1. /\ Eof \in Nat /\ Base \in Nat /\ Base <= Eof /\ H \in Nat \ {0} /\ n \in Nat \ {0}
      /\ end \in Nat /\ e \in Nat /\ Base <= e /\ p < end /\ end <= e /\ Eof <= e
  <2>1. Eof \in Nat /\ Base \in Nat /\ Base <= Eof /\ H \in Nat \ {0}
    BY BlockFacts
  <2>2. n \in Nat \ {0}
    BY HeapFileAssumption
  <2> QED
    BY <2>1, <2>2
<1>2. DOMAIN file = Base .. Eof - 1
  BY DEF Inv, FileInv
<1>3. /\ file' = [x \in DOMAIN file \union Eof .. end - 1 |->
                      IF x = p THEN Header(FALSE, n, cap)
                      ELSE IF x \in p .. end - 1 \/ x >= Eof THEN Byte
                      ELSE file[x]]
      /\ owned' = owned \union {p}
  BY DEF WriteBlock
<1>4. DOMAIN file \union Eof .. end - 1 = Base .. e - 1
  BY <1>1, <1>2
<1>5. DOMAIN file' = Base .. e - 1
  BY <1>3, <1>4
<1>6. Eof' = e /\ IsFiniteSet(DOMAIN file')
  BY <1>1, <1>5, EofIs DEF Eof
<1>7. \A x \in Base .. e - 1 : file'[x] = IF x = p THEN Header(FALSE, n, cap)
                                       ELSE IF x \in p .. end - 1 \/ x >= Eof THEN Byte
                                       ELSE file[x]
  BY <1>3, <1>4
<1> HIDE DEF end, e
<1>8. file'[p] = Header(FALSE, n, cap)
  <2>1. p \in Base .. e - 1
    BY <1>1
  <2> QED
    BY <1>7, <2>1
<1>9. \A x \in p + 1 .. end - 1 : file'[x] = Byte
  <2> SUFFICES ASSUME NEW x \in p + 1 .. end - 1
               PROVE  file'[x] = Byte
    OBVIOUS
  <2>1. x \in Base .. e - 1 /\ x # p /\ x \in p .. end - 1
    BY <1>1
  <2> QED
    BY <1>7, <2>1
<1>10. \A x \in Base .. Eof - 1 : x < p \/ x >= end => file'[x] = file[x]
  <2> SUFFICES ASSUME NEW x \in Base .. Eof - 1, x < p \/ x >= end
               PROVE  file'[x] = file[x]
    OBVIOUS
  <2>1. x \in Base .. e - 1 /\ x # p /\ ~(x \in p .. end - 1 \/ x >= Eof)
    BY <1>1
  <2> QED
    BY <1>7, <2>1
<1>11. ASSUME NEW q \in owned
       PROVE  q # p /\ file'[q] = file[q]
  <2>1. LiveAt(q) \in LiveBlocks /\ LiveAt(q).ptr = q /\ q \in Base .. Eof - 1
    BY <1>2, OwnedFacts
  <2>2. q \in Nat /\ q < BlockEnd(LiveAt(q)) /\ BlockEnd(LiveAt(q)) \in Nat
    BY <2>1, BlockFacts DEF Blocks
  <2>3. BlockEnd(LiveAt(q)) <= p \/ end <= q
    BY <2>1 DEF end
  <2>4. q < p \/ q >= end
    BY <1>1, <2>2, <2>3
  <2> QED
    BY <1>1, <1>10, <2>1, <2>2, <2>4
<1>12. LiveBlocks' = LiveBlocks \union {[ptr |-> p, size |-> n, cap |-> cap]}
  <2>1. LiveBlocks' = {[ptr |-> q, size |-> file'[q].size, cap |-> file'[q].cap] : q \in owned \union {p}}
    BY <1>3 DEF LiveBlocks
  <2>2. file'[p].size = n /\ file'[p].cap = cap
    BY <1>8 DEF Header
  <2> QED
    BY <1>11, <2>1, <2>2 DEF LiveBlocks
<1>13. /\ Eof' = (IF p + H + n > Eof THEN p + H + n ELSE Eof)
       /\ DOMAIN file' = Base .. Eof' - 1 /\ IsFiniteSet(DOMAIN file')
  BY <1>5, <1>6 DEF end, e
<1>14. /\ \A x \in p + 1 .. p + H + n - 1 : file'[x] = Byte
       /\ \A x \in Base .. Eof - 1 : x < p \/ x >= p + H + n => file'[x] = file[x]
  <2>1. end = p + H + n
    BY DEF end
  <2> QED
    BY <1>1, <1>9, <1>10, <2>1
<1> QED
  BY <1>8, <1>12, <1>13, <1>14

LEMMA BlocksAreSized == Sized(Alloc!Block)
BY HeapFileAssumption DEF Sized, Alloc!Block

LEMMA TopFacts ==
    ASSUME Inv, heap # <<>>
    PROVE  /\ heap[1] \in Nodes /\ Alloc!IsTop(heap[1])
           /\ {heap[k] : k \in 2 .. Len(heap)} = Nodes \ {heap[1]}
           /\ Len(heap) \in Nat \ {0} /\ DOMAIN heap = 1 .. Len(heap)
<1>1. heap \in Seq(Alloc!Block) /\ IsHeap(heap) /\ \A i, j \in DOMAIN heap : heap[i].ptr = heap[j].ptr => i = j
  BY DEF Inv, HeapOrdered
<1>2. Len(heap) \in Nat \ {0} /\ DOMAIN heap = 1 .. Len(heap)
  BY <1>1, EmptySeq, LenProperties
<1>3. \A i \in 1 .. Len(heap) : heap[i].size <= heap[1].size
  BY <1>1, TopIsLargest, BlocksAreSized
<1>4. heap[1] \in Nodes /\ Alloc!IsTop(heap[1])
  BY <1>2, <1>3 DEF Nodes, Alloc!IsTop
<1>5. {heap[k] : k \in 2 .. Len(heap)} = Nodes \ {heap[1]}
  <2>1. \A k \in 2 .. Len(heap) : k \in DOMAIN heap /\ k # 1
    BY <1>2
  <2>2. \A k \in DOMAIN heap : k = 1 \/ k \in 2 .. Len(heap)
    BY <1>2
  <2>3. 1 \in DOMAIN heap
    BY <1>2
  <2> QED
    BY <1>1, <2>1, <2>2, <2>3 DEF Nodes
<1> QED
  BY <1>2, <1>4, <1>5

\* Writing a block at the head of the top of the heap.
LEMMA WriteInTop ==
    ASSUME Inv, heap # <<>>, NEW n \in Requests, NEW cap \in Nat, n <= cap, cap <= heap[1].cap,
           WriteBlock(heap[1].ptr, n, cap)
    PROVE  LET top == heap[1]
               new == [ptr |-> top.ptr, size |-> n, cap |-> cap]
           IN  /\ LiveBlocks' = LiveBlocks \union {new} /\ Eof' = Eof
               /\ DOMAIN file' = Base .. Eof' - 1 /\ IsFiniteSet(DOMAIN file')
               /\ InUse(file', new)
               /\ \A x \in top.ptr + H + n .. BlockEnd(top) - 1 : file'[x] = Byte
               /\ \A c \in LiveBlocks : InUse(file', c)
               /\ \A c \in Nodes \ {top} : IsFree(file', c)
<1> DEFINE top == heap[1]
           p == top.ptr
           end == p + H + n
           stop == BlockEnd(top)
           new == [ptr |-> p, size |-> n, cap |-> cap]
<1>1. /\ top \in Nodes /\ top \in Blocks /\ top \notin LiveBlocks
      /\ cap <= top.cap /\ WriteBlock(p, n, cap)
  BY TopFacts, BlockFacts DEF Blocks
<1> HIDE DEF top
<1>2. /\ Eof \in Nat /\ Base \in Nat /\ H \in Nat \ {0} /\ n \in Nat \ {0}
      /\ p \in Nat /\ top.cap \in Nat /\ Base <= p /\ stop \in Nat /\ stop <= Eof
      /\ stop = p + H + top.cap
  <2>1. n \in Nat \ {0}
    BY HeapFileAssumption
  <2> QED
    BY <1>1, <2>1, BlockFacts DEF BlockEnd
<1>3. /\ end \in Nat /\ end <= p + H + cap /\ p + H + cap <= stop /\ p < end /\ end <= Eof
      /\ p + H + cap \in Nat
  <2>1. cap <= top.cap /\ cap \in Nat /\ n <= cap
    BY <1>1
  <2> HIDE DEF p, stop
  <2> QED
    BY <1>2, <2>1
<1>4. \A c \in LiveBlocks : BlockEnd(c) <= p \/ end <= c.ptr
  <2> SUFFICES ASSUME NEW c \in LiveBlocks
               PROVE  BlockEnd(c) <= p \/ end <= c.ptr
    OBVIOUS
  <2>1. c \in Blocks /\ c # top
    BY <1>1 DEF Blocks
  <2>2. BlockEnd(c) <= p \/ stop <= c.ptr
    BY <1>1, <2>1, BlockFacts
  <2>3. c.ptr \in Nat
    BY <2>1, BlockFacts
  <2> QED
    BY <1>2, <1>3, <2>2, <2>3
<1>5. /\ LiveBlocks' = LiveBlocks \union {new}
      /\ Eof' = (IF end > Eof THEN end ELSE Eof)
      /\ DOMAIN file' = Base .. Eof' - 1 /\ IsFiniteSet(DOMAIN file')
      /\ file'[p] = Header(FALSE, n, cap)
      /\ \A x \in p + 1 .. end - 1 : file'[x] = Byte
      /\ \A x \in Base .. Eof - 1 : x < p \/ x >= end => file'[x] = file[x]
  <2>1. p \in Nat /\ Base <= p /\ p <= Eof
    BY <1>2, <1>3
  <2>2. WriteBlock(p, n, cap) /\ \A c \in LiveBlocks : BlockEnd(c) <= p \/ p + H + n <= c.ptr
    BY <1>1, <1>4
  <2> HIDE DEF p
  <2>3. /\ LiveBlocks' = LiveBlocks \union {[ptr |-> p, size |-> n, cap |-> cap]}
        /\ Eof' = (IF p + H + n > Eof THEN p + H + n ELSE Eof)
        /\ DOMAIN file' = Base .. Eof' - 1 /\ IsFiniteSet(DOMAIN file')
        /\ file'[p] = Header(FALSE, n, cap)
        /\ \A x \in p + 1 .. p + H + n - 1 : file'[x] = Byte
        /\ \A x \in Base .. Eof - 1 : x < p \/ x >= p + H + n => file'[x] = file[x]
    BY <2>1, <2>2, WriteFacts
  <2>4. end = p + H + n
    OBVIOUS
  <2> HIDE DEF end
  <2> QED
    BY <1>2, <1>3, <2>3, <2>4
<1> HIDE DEF end, p, stop
<1>6. Eof' = Eof
  BY <1>2, <1>3, <1>5
<1>7. \A x \in p + 1 .. stop - 1 : file'[x] = Byte
  <2> SUFFICES ASSUME NEW x \in p + 1 .. stop - 1
               PROVE  file'[x] = Byte
    OBVIOUS
  <2>1. CASE x < end
    <3>1. x \in p + 1 .. end - 1
      BY <1>2, <1>3, <2>1
    <3> QED
      BY <1>5, <3>1
  <2>2. CASE x >= end
    <3>1. x \in Base .. Eof - 1
      BY <1>2, <1>3, <2>2
    <3>2. file[x] = Byte
      BY <1>1 DEF Inv, FileInv, IsFree, ContentBehind, p, stop
    <3> QED
      BY <1>5, <2>2, <3>1, <3>2
  <2> QED
    BY <1>2, <1>3, <2>1, <2>2
<1>8. InUse(file', new)
  <2>1. /\ new.ptr = p /\ new.size = n /\ new.cap = cap /\ BlockEnd(new) = p + H + cap
    BY DEF BlockEnd
  <2>2. \A x \in p + 1 .. p + H + cap - 1 : x \in p + 1 .. stop - 1
    BY <1>2, <1>3
  <2> HIDE DEF new
  <2>3. file'[new.ptr] = Header(FALSE, new.size, new.cap)
    BY <1>5, <2>1
  <2>4. \A x \in new.ptr + 1 .. BlockEnd(new) - 1 : file'[x] = Byte
    BY <1>2, <1>3, <1>7, <2>1, <2>2
  <2> QED
    BY <2>3, <2>4 DEF InUse, ContentBehind
<1>9. ASSUME NEW c \in Blocks, c # top
      PROVE  \A x \in c.ptr .. BlockEnd(c) - 1 : file'[x] = file[x]
  <2> SUFFICES ASSUME NEW x \in c.ptr .. BlockEnd(c) - 1
               PROVE  file'[x] = file[x]
    OBVIOUS
  <2>1. /\ c.ptr \in Nat /\ BlockEnd(c) \in Nat /\ Base <= c.ptr /\ BlockEnd(c) <= Eof
        /\ BlockEnd(c) <= p \/ stop <= c.ptr
    BY <1>1, <1>9, BlockFacts DEF p, stop
  <2>2. x \in Base .. Eof - 1 /\ (x < p \/ x >= end)
    BY <1>2, <1>3, <2>1
  <2> QED
    BY <1>5, <2>2
<1>10. ASSUME NEW c \in LiveBlocks
       PROVE  InUse(file', c)
  <2>1. c \in Blocks /\ c # top /\ c \in Alloc!Block /\ InUse(file, c)
    BY <1>1, BlockFacts DEF Inv, FileInv, Blocks
  <2> QED
    BY <1>9, <2>1, SameInBoth
<1>11. ASSUME NEW c \in Nodes \ {top}
       PROVE  IsFree(file', c)
  <2>1. c \in Blocks /\ c # top /\ c \in Alloc!Block /\ IsFree(file, c)
    BY BlockFacts DEF Inv, FileInv, Blocks
  <2> QED
    BY <1>9, <2>1, SameInBoth
<1>12. \A x \in end .. stop - 1 : file'[x] = Byte
  <2>1. \A x \in end .. stop - 1 : x \in p + 1 .. stop - 1
    BY <1>2, <1>3
  <2> QED
    BY <1>7, <2>1
<1> QED
  BY <1>5, <1>6, <1>8, <1>10, <1>11, <1>12 DEF top, p, end, stop

\* An allocation of BlockStore that leaves the heap in order and the file in
\* agreement with it leaves the whole invariant.
LEMMA StepInv ==
    ASSUME Inv, Alloc!Next, heap' \in Seq(Alloc!Block), IsHeap(heap'), Distinct(heap'), FileInv'
    PROVE  Inv'
<1>1. Alloc!IInv'
  BY AllocAssumption, Alloc!NextIInv DEF Inv
<1>2. HeapOrdered'
  BY DEF HeapOrdered, Distinct
<1>3. Alloc!Block' = Alloc!Block
  BY DEF Alloc!Block
<1> QED
  BY <1>1, <1>2, <1>3 DEF Inv

\* The top is split: its head is handed out and the rest takes its place.
LEMMA SplitInv ==
    ASSUME Inv, NEW n \in Requests, OccupySplit(n)
    PROVE  Inv' /\ Alloc!Next
<1> DEFINE top == heap[1]
           r == Alloc!Remainder(n, top)
           o == Alloc!Occupied(n, top)
           g == [heap EXCEPT ![1] = r]
<1>1. /\ heap # <<>> /\ n <= top.cap /\ top.cap > n + H
      /\ WriteBlock(top.ptr, n, n) /\ heap' = ReplaceTop(heap, r)
  BY DEF OccupySplit, CanOccupyMax, CanSplit, Alloc!Remainder
<1>2. /\ top \in Nodes /\ Alloc!IsTop(top) /\ {heap[k] : k \in 2 .. Len(heap)} = Nodes \ {top}
      /\ Len(heap) \in Nat \ {0} /\ DOMAIN heap = 1 .. Len(heap)
  BY <1>1, TopFacts
<1>3. top \in Alloc!Block /\ top \in Blocks /\ Alloc!CanSplit(n, top) /\ n \in Nat /\ n <= n
  BY <1>1, <1>2, BlockFacts, HeapFileAssumption DEF Blocks, Alloc!CanSplit
<1>4. /\ o = [ptr |-> top.ptr, size |-> n, cap |-> n]
      /\ r \in Alloc!Block /\ r.ptr = top.ptr + H + n /\ BlockEnd(r) = BlockEnd(top)
  <2> HIDE DEF top
  <2> QED
    BY <1>3, AllocAssumption, Alloc!SplitFacts DEF Alloc!Occupied, Alloc!BlockEnd, BlockEnd
<1>5. /\ heap \in Seq(Alloc!Block) /\ IsHeap(heap) /\ Distinct(heap)
      /\ \A j \in 2 .. Len(heap) : Parent(j) >= 2 => heap[j].size <= heap[Parent(j)].size
  BY DEF Inv, HeapOrdered, Distinct, IsHeap
<1> HIDE DEF o, r
<1>6. heap' \in Seq(Alloc!Block) /\ SameNodes(heap', g) /\ IsHeap(heap')
  <2> HIDE DEF top
  <2> QED
    BY <1>1, <1>4, <1>5, ReplaceTopFacts, BlocksAreSized
<1>7. /\ LiveBlocks' = LiveBlocks \union {o} /\ Eof' = Eof
      /\ DOMAIN file' = Base .. Eof' - 1 /\ IsFiniteSet(DOMAIN file')
      /\ InUse(file', o)
      /\ \A x \in top.ptr + H + n .. BlockEnd(top) - 1 : file'[x] = Byte
      /\ \A c \in LiveBlocks : InUse(file', c)
      /\ \A c \in Nodes \ {top} : IsFree(file', c)
  BY <1>1, <1>3, <1>4, WriteInTop
<1> HIDE DEF top
<1>8. top.ptr \in Nat /\ H \in Nat \ {0} /\ top.cap \in Nat /\ BlockEnd(top) = top.ptr + H + top.cap
  BY <1>3, BlockFacts DEF BlockEnd
<1>9. DOMAIN g = 1 .. Len(heap) /\ g[1] = r /\ \A k \in 2 .. Len(heap) : g[k] = heap[k]
  BY <1>2
<1> HIDE DEF g
<1>10. NodesOf(g) = (Nodes \ {top}) \union {r}
  <2>1. \A k \in 1 .. Len(heap) : k = 1 \/ k \in 2 .. Len(heap)
    BY <1>2
  <2>2. 1 \in 1 .. Len(heap) /\ \A k \in 2 .. Len(heap) : k \in 1 .. Len(heap)
    BY <1>2
  <2>3. NodesOf(g) = {g[k] : k \in 2 .. Len(heap)} \union {r}
    BY <1>9, <2>1, <2>2 DEF NodesOf
  <2> QED
    BY <1>2, <1>9, <2>3
<1>11. Nodes' = (Nodes \ {top}) \union {r}
  BY <1>6, <1>10 DEF SameNodes, NodesOf, Nodes
<1>12. \A c \in Nodes \ {top} : c.ptr # r.ptr
  <2> SUFFICES ASSUME NEW c \in Nodes \ {top}
               PROVE  c.ptr # r.ptr
    OBVIOUS
  <2>1. /\ c \in Blocks /\ c.ptr \in Nat /\ BlockEnd(c) \in Nat /\ c.ptr < BlockEnd(c)
        /\ BlockEnd(c) <= top.ptr \/ BlockEnd(top) <= c.ptr
    BY <1>3, BlockFacts DEF Blocks
  <2> QED
    BY <1>1, <1>3, <1>4, <1>8, <2>1
<1>13. Distinct(g)
  <2> SUFFICES ASSUME NEW i \in 1 .. Len(heap), NEW j \in 1 .. Len(heap), g[i].ptr = g[j].ptr
               PROVE  i = j
    BY <1>9 DEF Distinct
  <2>1. \A k \in 2 .. Len(heap) : heap[k].ptr # r.ptr
    BY <1>2, <1>12
  <2>2. \A k \in 1 .. Len(heap) : k = 1 \/ k \in 2 .. Len(heap)
    BY <1>2
  <2> QED
    BY <1>2, <1>5, <1>9, <2>1, <2>2 DEF Distinct
<1>14. IsFree(file', r)
  <2>1. r.ptr \in top.ptr + H + n .. BlockEnd(top) - 1
    BY <1>1, <1>3, <1>4, <1>8
  <2>2. \A x \in r.ptr + 1 .. BlockEnd(r) - 1 : x \in top.ptr + H + n .. BlockEnd(top) - 1
    BY <1>3, <1>4, <1>8
  <2> QED
    BY <1>7, <2>1, <2>2 DEF IsFree, ContentBehind
<1>15. FileInv'
  BY <1>7, <1>11, <1>14 DEF FileInv, InUse, IsFree, ContentBehind, BlockEnd
<1>16. Alloc!OccupySplit(n, top)
  BY <1>1, <1>2, <1>3, <1>7, <1>11 DEF Alloc!OccupySplit, Alloc!CanOccupy, o, r
<1>17. Alloc!Next
  BY <1>2, <1>16 DEF Alloc!Next, Alloc!Insert
<1>18. Distinct(heap')
  BY <1>6, <1>13 DEF SameNodes
<1> QED
  BY <1>6, <1>15, <1>17, <1>18, StepInv

\* The top is handed out whole.
LEMMA WholeInv ==
    ASSUME Inv, NEW n \in Requests, OccupyWhole(n)
    PROVE  Inv' /\ Alloc!Next
<1> DEFINE top == heap[1]
           w == [top EXCEPT !.size = n]
<1>1. /\ heap # <<>> /\ n <= top.cap /\ ~(top.cap > n + H)
      /\ WriteBlock(top.ptr, n, top.cap) /\ heap' = RemoveTop(heap)
  BY DEF OccupyWhole, CanOccupyMax, CanSplit
<1>2. /\ top \in Nodes /\ Alloc!IsTop(top) /\ {heap[k] : k \in 2 .. Len(heap)} = Nodes \ {top}
  BY <1>1, TopFacts
<1>3. top \in Alloc!Block /\ top.cap \in Nat /\ top.cap <= top.cap
  BY <1>2, BlockFacts DEF Blocks
<1>4. /\ LiveBlocks' = LiveBlocks \union {[ptr |-> top.ptr, size |-> n, cap |-> top.cap]} /\ Eof' = Eof
      /\ DOMAIN file' = Base .. Eof' - 1 /\ IsFiniteSet(DOMAIN file')
      /\ InUse(file', [ptr |-> top.ptr, size |-> n, cap |-> top.cap])
      /\ \A c \in LiveBlocks : InUse(file', c)
      /\ \A c \in Nodes \ {top} : IsFree(file', c)
  BY <1>1, <1>3, WriteInTop
<1> HIDE DEF top
<1>5. w = [ptr |-> top.ptr, size |-> n, cap |-> top.cap]
  BY <1>3 DEF Alloc!Block
<1> HIDE DEF w
<1>6. heap \in Seq(Alloc!Block) /\ IsHeap(heap) /\ Distinct(heap)
  BY DEF Inv, HeapOrdered, Distinct
<1>7. /\ heap' \in Seq(Alloc!Block) /\ IsHeap(heap') /\ Distinct(heap')
      /\ NodesOf(heap') = {heap[k] : k \in 2 .. Len(heap)}
  BY <1>1, <1>6, RemoveTopFacts, BlocksAreSized
<1>8. Nodes' = Nodes \ {top}
  BY <1>2, <1>7 DEF Nodes, NodesOf
<1>9. FileInv'
  BY <1>4, <1>8 DEF FileInv, InUse, IsFree, ContentBehind, BlockEnd
<1>10. Alloc!OccupyWhole(n, top)
  BY <1>1, <1>2, <1>4, <1>5, <1>8 DEF Alloc!OccupyWhole, Alloc!CanOccupy, Alloc!CanSplit, w
<1>11. Alloc!Next
  BY <1>2, <1>10 DEF Alloc!Next, Alloc!Insert
<1> QED
  BY <1>7, <1>9, <1>11, StepInv

\* The file grows by a block.
LEMMA AppendInv ==
    ASSUME Inv, NEW n \in Requests, AppendBlock(n)
    PROVE  Inv' /\ Alloc!Next
<1> DEFINE new == [ptr |-> Eof, size |-> n, cap |-> n]
           end == Eof + H + n
<1>1. WriteBlock(Eof, n, n) /\ heap' = heap /\ end <= Limit
  BY DEF AppendBlock, WriteBlock
<1>2. /\ Eof \in Nat /\ Base \in Nat /\ Base <= Eof /\ H \in Nat \ {0} /\ n \in Nat \ {0}
      /\ end \in Nat /\ Eof < end
  <2>1. n \in Nat \ {0}
    BY HeapFileAssumption
  <2>2. Eof \in Nat /\ Base \in Nat /\ Base <= Eof /\ H \in Nat \ {0}
    BY BlockFacts
  <2> QED
    BY <2>1, <2>2
<1>3. \A c \in LiveBlocks : BlockEnd(c) <= Eof \/ Eof + H + n <= c.ptr
  BY BlockFacts DEF Blocks
<1>4. /\ LiveBlocks' = LiveBlocks \union {new}
      /\ Eof' = (IF Eof + H + n > Eof THEN Eof + H + n ELSE Eof)
      /\ DOMAIN file' = Base .. Eof' - 1 /\ IsFiniteSet(DOMAIN file')
      /\ file'[Eof] = Header(FALSE, n, n)
      /\ \A x \in Eof + 1 .. Eof + H + n - 1 : file'[x] = Byte
      /\ \A x \in Base .. Eof - 1 : x < Eof \/ x >= Eof + H + n => file'[x] = file[x]
  <2>1. Eof \in Nat /\ Base <= Eof /\ Eof <= Eof
    BY <1>2
  <2> QED
    BY <1>1, <1>3, <2>1, WriteFacts
<1>5. Eof' = end
  BY <1>2, <1>4
<1>6. Nodes' = Nodes
  BY <1>1 DEF Nodes
<1>7. \A x \in Base .. Eof - 1 : file'[x] = file[x]
  BY <1>2, <1>4
<1>8. ASSUME NEW c \in Blocks
      PROVE  c \in Alloc!Block /\ \A x \in c.ptr .. BlockEnd(c) - 1 : file'[x] = file[x]
  <2>1. /\ c \in Alloc!Block /\ c.ptr \in Nat /\ BlockEnd(c) \in Nat
        /\ Base <= c.ptr /\ BlockEnd(c) <= Eof
    BY BlockFacts
  <2>2. \A x \in c.ptr .. BlockEnd(c) - 1 : x \in Base .. Eof - 1
    BY <1>2, <2>1
  <2> QED
    BY <1>7, <2>1, <2>2
<1>9. InUse(file', new)
  <2>1. new.ptr = Eof /\ new.size = n /\ new.cap = n /\ BlockEnd(new) = Eof + H + n
    BY DEF BlockEnd
  <2> HIDE DEF new
  <2>2. file'[new.ptr] = Header(FALSE, new.size, new.cap)
    BY <1>4, <2>1
  <2>3. \A x \in new.ptr + 1 .. BlockEnd(new) - 1 : file'[x] = Byte
    BY <1>2, <1>4, <2>1
  <2> QED
    BY <2>2, <2>3 DEF InUse, ContentBehind
<1>10. /\ \A c \in LiveBlocks : InUse(file', c)
       /\ \A c \in Nodes : IsFree(file', c)
  <2>1. ASSUME NEW c \in LiveBlocks
        PROVE  InUse(file', c)
    <3>1. InUse(file, c) /\ c \in Blocks
      BY DEF Inv, FileInv, Blocks
    <3> QED
      BY <1>8, <3>1, SameInBoth
  <2>2. ASSUME NEW c \in Nodes
        PROVE  IsFree(file', c)
    <3>1. IsFree(file, c) /\ c \in Blocks
      BY DEF Inv, FileInv, Blocks
    <3> QED
      BY <1>8, <3>1, SameInBoth
  <2> QED
    BY <2>1, <2>2
<1> HIDE DEF new
<1>11. FileInv'
  BY <1>4, <1>6, <1>9, <1>10 DEF FileInv, InUse, IsFree, ContentBehind, BlockEnd
<1>12. Nodes = {} \/ \E b \in Nodes : Alloc!IsTop(b) /\ ~Alloc!CanOccupy(n, b)
  <2>1. CASE heap = <<>>
    BY <2>1 DEF Nodes
  <2>2. CASE heap # <<>>
    <3>1. heap[1] \in Nodes /\ Alloc!IsTop(heap[1])
      BY <2>2, TopFacts
    <3>2. ~(n <= heap[1].cap)
      BY <2>2 DEF AppendBlock, CanOccupyMax
    <3> QED
      BY <3>1, <3>2 DEF Alloc!CanOccupy
  <2> QED
    BY <2>1, <2>2
<1>13. Alloc!Append(n)
  BY <1>1, <1>4, <1>5, <1>6, <1>12 DEF Alloc!Append, new
<1>14. Alloc!Next
  BY <1>13 DEF Alloc!Next, Alloc!Insert
<1>15. heap' \in Seq(Alloc!Block) /\ IsHeap(heap') /\ Distinct(heap')
  BY <1>1 DEF Inv, HeapOrdered, Distinct
<1> QED
  BY <1>11, <1>14, <1>15, StepInv

-----------------------------------------------------------------------------
(* Giving blocks back *)

LEMMA FreedHeaderFacts ==
    ASSUME NEW size, NEW cap
    PROVE  FreedHeader(Header(FALSE, size, cap)) = Header(TRUE, size, cap)
BY DEF FreedHeader, Header

\* An array behind another.
LEMMA ConcatFacts ==
    ASSUME NEW S, NEW a \in Seq(S), NEW b \in Seq(S)
    PROVE  /\ a \o b \in Seq(S) /\ Len(a \o b) = Len(a) + Len(b)
           /\ \A i \in 1 .. Len(a) + Len(b) :
                 (a \o b)[i] = IF i <= Len(a) THEN a[i] ELSE b[i - Len(a)]
BY ConcatProperties

\* The blocks at different pointers are marked free and pushed.
LEMMA FreeInv ==
    ASSUME Inv, NEW k \in Nat \ {0}, NEW ps \in [1 .. k -> owned],
           \A i, j \in 1 .. k : ps[i] = ps[j] => i = j,
           FreeBlocks(ps)
    PROVE  Inv' /\ Alloc!Next
<1> DEFINE S == {LiveAt(ps[i]) : i \in 1 .. k}
           pushed == [i \in 1 .. k |-> LiveAt(ps[i])]
           g == heap \o pushed
<1>1. PICK hds :
         /\ \A i \in DOMAIN ps : hds[i] \in HeadersAt(ps[i])
         /\ file' = [x \in DOMAIN file |->
                        IF \E i \in DOMAIN ps : ps[i] = x
                        THEN FreedHeader(hds[CHOOSE i \in DOMAIN ps : ps[i] = x])
                        ELSE file[x]]
         /\ heap' = Rebuilt(heap \o [i \in DOMAIN ps |-> Node(ps[i], hds[i])])
         /\ owned' = owned \ {ps[i] : i \in DOMAIN ps}
  BY DEF FreeBlocks
<1>2. DOMAIN ps = 1 .. k
  OBVIOUS
<1>3. ASSUME NEW i \in 1 .. k
      PROVE  /\ LiveAt(ps[i]) \in LiveBlocks /\ LiveAt(ps[i]).ptr = ps[i]
             /\ ps[i] \in owned /\ ps[i] \in DOMAIN file
             /\ file[ps[i]] = Header(FALSE, LiveAt(ps[i]).size, LiveAt(ps[i]).cap)
             /\ hds[i] = file[ps[i]]
             /\ Node(ps[i], hds[i]) = LiveAt(ps[i])
  <2>1. ps[i] \in owned
    OBVIOUS
  <2>2. /\ LiveAt(ps[i]) \in LiveBlocks /\ LiveAt(ps[i]).ptr = ps[i] /\ ps[i] \in DOMAIN file
        /\ file[ps[i]] = Header(FALSE, LiveAt(ps[i]).size, LiveAt(ps[i]).cap)
    BY <2>1, OwnedFacts
  <2>3. file[ps[i]].kind = "header"
    BY <2>2 DEF Header
  <2>4. hds[i] = file[ps[i]]
    BY <1>1, <2>2, <2>3 DEF HeadersAt
  <2>5. Node(ps[i], hds[i]) = LiveAt(ps[i])
    BY <2>4 DEF Node, LiveAt
  <2> QED
    BY <2>1, <2>2, <2>4, <2>5
<1>4. \A i \in 1 .. k : LiveAt(ps[i]) \in LiveBlocks /\ LiveAt(ps[i]).ptr = ps[i]
  BY <1>3
<1>5. /\ DOMAIN file' = DOMAIN file
      /\ \A i \in 1 .. k : file'[ps[i]] = Header(TRUE, LiveAt(ps[i]).size, LiveAt(ps[i]).cap)
      /\ \A x \in DOMAIN file : (\A i \in 1 .. k : ps[i] # x) => file'[x] = file[x]
  <2>1. DOMAIN file' = DOMAIN file
    BY <1>1
  <2>2. ASSUME NEW i \in 1 .. k
        PROVE  file'[ps[i]] = Header(TRUE, LiveAt(ps[i]).size, LiveAt(ps[i]).cap)
    <3>1. (CHOOSE j \in DOMAIN ps : ps[j] = ps[i]) = i
      BY <1>2
    <3>2. file'[ps[i]] = FreedHeader(hds[i])
      BY <1>1, <1>2, <1>3, <3>1
    <3>3. hds[i] = Header(FALSE, LiveAt(ps[i]).size, LiveAt(ps[i]).cap)
      BY <1>3
    <3> QED
      BY <3>2, <3>3, FreedHeaderFacts
  <2>3. ASSUME NEW x \in DOMAIN file, \A i \in 1 .. k : ps[i] # x
        PROVE  file'[x] = file[x]
    BY <1>1, <1>2, <2>3
  <2> QED
    BY <2>1, <2>2, <2>3
<1>6. heap' = Build(g) /\ owned' = owned \ {ps[i] : i \in 1 .. k}
  <2>1. [i \in DOMAIN ps |-> Node(ps[i], hds[i])] = pushed
    BY <1>2, <1>3
  <2> QED
    BY <1>1, <1>2, <2>1 DEF Rebuilt
<1>7. /\ S \subseteq LiveBlocks /\ S # {}
      /\ \A i \in 1 .. k : LiveAt(ps[i]) \in S
      /\ \A c \in S : \E i \in 1 .. k : c = LiveAt(ps[i])
  <2>1. 1 \in 1 .. k
    OBVIOUS
  <2>2. \A c \in S : \E i \in 1 .. k : c = LiveAt(ps[i])
    OBVIOUS
  <2> QED
    BY <1>4, <2>1, <2>2
<1> HIDE DEF S
<1>8. /\ pushed \in Seq(Alloc!Block) /\ Len(pushed) = k /\ DOMAIN pushed = 1 .. k
      /\ \A i \in 1 .. k : pushed[i] = LiveAt(ps[i])
  <2>1. \A c \in LiveBlocks : c \in Alloc!Block
    BY BlockFacts DEF Blocks
  <2>2. pushed \in [1 .. k -> Alloc!Block]
    <3>1. \A i \in 1 .. k : LiveAt(ps[i]) \in Alloc!Block
      BY <1>4, <2>1
    <3> QED
      BY <3>1
  <2>3. pushed \in Seq(Alloc!Block)
    BY <2>2, SeqDef
  <2> HIDE DEF pushed
  <2>4. Len(pushed) = k
    BY <2>2, <2>3, LenProperties
  <2> QED
    BY <2>2, <2>3, <2>4 DEF pushed
<1> HIDE DEF pushed
<1> DEFINE m == Len(heap)
<1>9. /\ heap \in Seq(Alloc!Block) /\ Distinct(heap) /\ m \in Nat /\ DOMAIN heap = 1 .. m
  <2>1. heap \in Seq(Alloc!Block) /\ Distinct(heap)
    BY DEF Inv, HeapOrdered, Distinct
  <2> QED
    BY <2>1, LenProperties
<1>10. /\ g \in Seq(Alloc!Block) /\ Len(g) = m + k
      /\ \A i \in 1 .. m + k : g[i] = IF i <= m THEN heap[i] ELSE pushed[i - m]
  <2>1. /\ heap \o pushed \in Seq(Alloc!Block) /\ Len(heap \o pushed) = Len(heap) + Len(pushed)
        /\ \A i \in 1 .. Len(heap) + Len(pushed) :
              (heap \o pushed)[i] = IF i <= Len(heap) THEN heap[i] ELSE pushed[i - Len(heap)]
    <3>1. heap \in Seq(Alloc!Block) /\ pushed \in Seq(Alloc!Block)
      BY <1>8, <1>9
    <3> HIDE DEF g, m
    <3> QED
      BY ONLY <3>1, ConcatFacts
  <2> QED
    BY <1>8, <2>1
<1> HIDE DEF g, m
<1>11. DOMAIN g = 1 .. m + k
  BY <1>10, LenProperties
<1>12. ASSUME NEW i \in 1 .. m
       PROVE  i \in DOMAIN g /\ g[i] = heap[i] /\ heap[i] \in Nodes
  <2>1. i \in 1 .. m + k /\ i <= m
    BY <1>9
  <2> QED
    BY <1>9, <1>10, <1>11, <2>1 DEF Nodes
<1>13. ASSUME NEW i \in 1 .. k
       PROVE  m + i \in DOMAIN g /\ g[m + i] = LiveAt(ps[i])
  <2>1. m + i \in 1 .. m + k /\ ~(m + i <= m) /\ (m + i) - m = i
    BY <1>9
  <2> QED
    BY <1>8, <1>10, <1>11, <2>1
<1>14. ASSUME NEW i \in DOMAIN g
       PROVE  i \in 1 .. m \/ \E j \in 1 .. k : i = m + j
  <2>1. CASE i <= m
    BY <1>9, <1>11, <2>1
  <2>2. CASE i > m
    <3>1. i - m \in 1 .. k /\ i = m + (i - m)
      BY <1>9, <1>11, <2>2
    <3> QED
      BY <3>1
  <2> QED
    BY <1>9, <1>11, <2>1, <2>2
<1>15. NodesOf(g) = Nodes \union S
  <2>1. ASSUME NEW i \in DOMAIN g
        PROVE  g[i] \in Nodes \union S
    BY <1>7, <1>12, <1>13, <1>14
  <2>2. ASSUME NEW c \in Nodes
        PROVE  c \in NodesOf(g)
    <3>1. PICK i \in 1 .. m : c = heap[i]
      BY <1>9 DEF Nodes
    <3> QED
      BY <1>12, <3>1 DEF NodesOf
  <2>3. ASSUME NEW c \in S
        PROVE  c \in NodesOf(g)
    <3>1. PICK i \in 1 .. k : c = LiveAt(ps[i])
      BY <1>7
    <3> QED
      BY <1>13, <3>1 DEF NodesOf
  <2> QED
    BY <2>1, <2>2, <2>3 DEF NodesOf
<1>16. ASSUME NEW c \in Nodes, NEW d \in LiveBlocks
       PROVE  c.ptr # d.ptr
  <2>1. c \in Blocks /\ d \in Blocks /\ c # d
    BY BlockFacts DEF Blocks
  <2>2. /\ c.ptr \in Nat /\ BlockEnd(c) \in Nat /\ d.ptr \in Nat /\ BlockEnd(d) \in Nat
        /\ c.ptr < BlockEnd(c) /\ d.ptr < BlockEnd(d)
        /\ BlockEnd(c) <= d.ptr \/ BlockEnd(d) <= c.ptr
    BY <2>1, BlockFacts
  <2> QED
    BY <2>2
<1>17. Distinct(g)
  <2> SUFFICES ASSUME NEW i \in DOMAIN g, NEW j \in DOMAIN g, g[i].ptr = g[j].ptr
               PROVE  i = j
    BY DEF Distinct
  <2>1. CASE i \in 1 .. m /\ j \in 1 .. m
    BY <1>9, <1>12, <2>1 DEF Distinct
  <2>2. ASSUME NEW a \in 1 .. k, NEW b \in 1 .. k, i = m + a, j = m + b
        PROVE  i = j
    BY <1>4, <1>13, <2>2
  <2>3. ASSUME NEW a \in 1 .. m, NEW b \in 1 .. k
        PROVE  g[a].ptr # g[m + b].ptr
    BY <1>4, <1>16, <1>12, <1>13
  <2> QED
    BY <1>14, <2>1, <2>2, <2>3
<1>18. heap' \in Seq(Alloc!Block) /\ IsHeap(heap') /\ Distinct(heap') /\ Nodes' = Nodes \union S
  <2>1. Build(g) \in Seq(Alloc!Block) /\ SameNodes(Build(g), g) /\ IsHeap(Build(g))
    BY <1>10, BuildFacts, BlocksAreSized
  <2>2. NodesOf(heap') = Nodes \union S
    BY <1>6, <1>15, <2>1 DEF SameNodes
  <2> QED
    BY <1>6, <1>17, <2>1, <2>2 DEF SameNodes, NodesOf, Nodes
<1>19. ASSUME NEW c \in Blocks, NEW x \in c.ptr .. BlockEnd(c) - 1, NEW i \in 1 .. k, ps[i] = x
       PROVE  c = LiveAt(ps[i]) /\ x = c.ptr
  <2> DEFINE d == LiveAt(ps[i])
  <2>1. d \in Blocks /\ d.ptr = x
    BY <1>3, <1>19 DEF Blocks
  <2>2. /\ c.ptr \in Nat /\ BlockEnd(c) \in Nat /\ d.ptr \in Nat /\ BlockEnd(d) \in Nat
        /\ d.ptr < BlockEnd(d)
        /\ c = d \/ BlockEnd(c) <= d.ptr \/ BlockEnd(d) <= c.ptr
    BY <2>1, BlockFacts
  <2>3. x \in Int /\ c.ptr <= x /\ x < BlockEnd(c)
    BY <2>2
  <2> HIDE DEF d
  <2>4. c = d
    BY <2>1, <2>2, <2>3
  <2> QED
    BY <2>1, <2>4 DEF d
<1>20. ASSUME NEW c \in Blocks
       PROVE  /\ c \in Alloc!Block
              /\ \A x \in c.ptr .. BlockEnd(c) - 1 :
                    (x # c.ptr \/ c \notin S) => file'[x] = file[x]
  <2>1. c \in Alloc!Block /\ \A x \in c.ptr .. BlockEnd(c) - 1 : x \in DOMAIN file
    <3>1. /\ c \in Alloc!Block /\ c.ptr \in Nat /\ BlockEnd(c) \in Nat
          /\ Base <= c.ptr /\ BlockEnd(c) <= Eof /\ Base \in Nat /\ Eof \in Nat
      BY BlockFacts
    <3>2. DOMAIN file = Base .. Eof - 1
      BY DEF Inv, FileInv
    <3>3. \A x \in c.ptr .. BlockEnd(c) - 1 : x \in Base .. Eof - 1
      BY <3>1
    <3> QED
      BY <3>1, <3>2, <3>3
  <2>2. ASSUME NEW x \in c.ptr .. BlockEnd(c) - 1, x # c.ptr \/ c \notin S
        PROVE  file'[x] = file[x]
    <3>1. ASSUME NEW i \in 1 .. k, ps[i] = x
          PROVE  FALSE
      <4>1. c = LiveAt(ps[i]) /\ x = c.ptr
        BY <1>19, <3>1
      <4> QED
        BY <1>7, <2>2, <4>1
    <3> QED
      BY <1>5, <2>1, <3>1
  <2> QED
    BY <2>1, <2>2
<1>21. ASSUME NEW c \in Blocks, c \notin S
       PROVE  (InUse(file, c) => InUse(file', c)) /\ (IsFree(file, c) => IsFree(file', c))
  BY <1>20, <1>21, SameInBoth
<1>22. ASSUME NEW c \in S
       PROVE  IsFree(file', c)
  <2>1. PICK i \in 1 .. k : c = LiveAt(ps[i])
    BY <1>7
  <2>2. c \in LiveBlocks /\ c.ptr = ps[i] /\ c \in Blocks
    BY <1>3, <2>1 DEF Blocks
  <2>3. file'[c.ptr] = Header(TRUE, c.size, c.cap)
    BY <1>5, <2>1, <2>2
  <2>4. c.size <= c.cap
    BY <2>2, BlockFacts
  <2>5. \A x \in c.ptr + 1 .. BlockEnd(c) - 1 : file'[x] = Byte
    <3>1. c.ptr \in Nat /\ BlockEnd(c) \in Nat
      BY <2>2, BlockFacts
    <3>2. \A x \in c.ptr + 1 .. BlockEnd(c) - 1 : x \in c.ptr .. BlockEnd(c) - 1 /\ x # c.ptr
      BY <3>1
    <3>3. \A x \in c.ptr + 1 .. BlockEnd(c) - 1 : file[x] = Byte
      BY <2>2 DEF Inv, FileInv, InUse, ContentBehind
    <3> QED
      BY <1>20, <2>2, <3>2, <3>3
  <2> QED
    BY <2>3, <2>4, <2>5 DEF IsFree, ContentBehind
<1>23. ASSUME NEW q \in owned
       PROVE  LiveAt(q) \in S <=> \E i \in 1 .. k : q = ps[i]
  <2>1. LiveAt(q).ptr = q
    BY DEF LiveAt
  <2> QED
    BY <1>4, <1>7, <2>1
<1>24. LiveBlocks' = LiveBlocks \ S
  <2>1. ASSUME NEW q \in owned'
        PROVE  q \in owned /\ LiveAt(q) \notin S /\ file'[q] = file[q]
    <3>1. q \in owned /\ \A i \in 1 .. k : ps[i] # q
      BY <1>6
    <3>2. q \in DOMAIN file
      BY <3>1, OwnedFacts
    <3> QED
      BY <1>5, <1>23, <3>1, <3>2
  <2>2. ASSUME NEW q \in owned, LiveAt(q) \notin S
        PROVE  q \in owned'
    BY <1>6, <1>23, <2>2
  <2>3. LiveBlocks = {LiveAt(q) : q \in owned}
    BY DEF LiveBlocks, LiveAt
  <2>4. LiveBlocks' = {LiveAt(q) : q \in owned'}
    <3>1. LiveBlocks' = {[ptr |-> q, size |-> file'[q].size, cap |-> file'[q].cap] : q \in owned'}
      BY DEF LiveBlocks
    <3>2. \A q \in owned' : LiveAt(q) = [ptr |-> q, size |-> file'[q].size, cap |-> file'[q].cap]
      BY <2>1 DEF LiveAt
    <3> QED
      BY <3>1, <3>2
  <2> QED
    BY <2>1, <2>2, <2>3, <2>4
<1>25. Eof' = Eof
  BY <1>5 DEF Eof
<1>26. FileInv'
  <2>1. DOMAIN file' = Base .. Eof' - 1 /\ IsFiniteSet(DOMAIN file')
    BY <1>5, <1>25 DEF Inv, FileInv
  <2>2. \A c \in LiveBlocks' : InUse(file', c)
    BY <1>21, <1>24 DEF Inv, FileInv, Blocks
  <2>3. \A c \in Nodes' : IsFree(file', c)
    <3>1. ASSUME NEW c \in Nodes
          PROVE  IsFree(file', c)
      <4>1. c \notin S /\ c \in Blocks /\ IsFree(file, c)
        BY <1>7, BlockFacts DEF Inv, FileInv, Blocks
      <4> QED
        BY <1>21, <4>1
    <3> QED
      BY <1>18, <1>22, <3>1
  <2> QED
    BY <2>1, <2>2, <2>3 DEF FileInv, InUse, IsFree, ContentBehind, BlockEnd
<1>27. Alloc!FreeBlocks(S)
  BY <1>18, <1>24, <1>25 DEF Alloc!FreeBlocks, Alloc!Freed
<1>28. Alloc!Next
  BY <1>7, <1>27 DEF Alloc!Next
<1> QED
  BY <1>18, <1>26, <1>28, StepInv

-----------------------------------------------------------------------------
(* Opening the database again *)

\* Where a scan is between two blocks, and what it has found by then.
Between(s) ==
    /\ s.at \in Base .. Eof /\ s.found \in Seq(Alloc!Block)
    /\ \A c \in Blocks : BlockEnd(c) <= s.at \/ s.at <= c.ptr
    /\ NodesOf(s.found) = {c \in Nodes : c.ptr < s.at}
    /\ Distinct(s.found)

\* Reading the header of a block and skipping the block leads to the next.
LEMMA BehindBlock ==
    ASSUME Inv, NEW c \in Blocks, c.size <= c.cap, NEW free
    PROVE  Behind(c.ptr, Header(free, c.size, c.cap)) = BlockEnd(c)
<1>1. /\ Eof \in Nat /\ H \in Nat \ {0} /\ M \in Nat \ {0} /\ c.ptr \in Nat
      /\ c.size \in 0 .. M - 1 /\ c.cap \in 0 .. M - 1 /\ BlockEnd(c) <= Eof
      /\ BlockEnd(c) = c.ptr + H + c.cap
  BY BlockFacts DEF BlockEnd
<1>2. Header(free, c.size, c.cap).size = c.size /\ Header(free, c.size, c.cap).cap = c.cap
  BY DEF Header
<1>3. c.cap - c.size \in 0 .. M - 1
  BY <1>1
<1>4. (c.cap - c.size) % M = c.cap - c.size
  BY <1>1, <1>3
<1>5. ~(c.ptr + H + c.size > Eof) /\ c.ptr + H + c.size + (c.cap - c.size) = BlockEnd(c)
  BY <1>1
<1> DEFINE hd == Header(free, c.size, c.cap)
<1>6. hd.size = c.size /\ hd.cap = c.cap
  BY <1>2
<1> HIDE DEF hd
<1>7. Behind(c.ptr, hd) = c.ptr + H + c.size + ((c.cap - c.size) % M)
  BY <1>5, <1>6 DEF Behind
<1>8. Behind(c.ptr, hd) = BlockEnd(c)
  BY <1>4, <1>5, <1>7
<1> QED
  BY <1>8 DEF hd

\* A turn of the scan leads from one place between two blocks to the next.
LEMMA ReadFacts ==
    ASSUME Inv, NothingMisread, NEW s, Between(s), NEW t \in Read(s)
    PROVE  Between(t) /\ (t.at = Eof \/ t.at > s.at)
<1>1. /\ Eof \in Nat /\ Base \in Nat /\ s.at \in Nat /\ Base <= s.at /\ s.at <= Eof
  BY BlockFacts DEF Between
<1>2. CASE s.at >= Eof
  BY <1>1, <1>2 DEF Read
<1>3. CASE s.at < Eof
  <2>1. PICK c \in Blocks : c.ptr <= s.at /\ s.at < BlockEnd(c)
    <3>1. s.at \in Base .. Eof - 1
      BY <1>1, <1>3
    <3> QED
      BY <3>1, BlockFacts
  <2>2. /\ c \in Alloc!Block /\ c.ptr \in Nat /\ BlockEnd(c) \in Nat /\ Base <= c.ptr
        /\ c.ptr < BlockEnd(c) /\ BlockEnd(c) <= Eof
    BY BlockFacts
  <2>3. c.ptr = s.at
    <3>1. BlockEnd(c) <= s.at \/ s.at <= c.ptr
      BY DEF Between
    <3> QED
      BY <1>1, <2>1, <2>2, <3>1
  <2>4. s.at \in DOMAIN file
    <3>1. DOMAIN file = Base .. Eof - 1
      BY DEF Inv, FileInv
    <3> QED
      BY <1>1, <1>3, <3>1
  <2>5. PICK hd \in HeadersAt(s.at) :
           /\ t.at = Behind(s.at, hd)
           /\ t.found = IF IsFound(hd) THEN Append(s.found, Node(s.at, hd)) ELSE s.found
    <3>1. ~(s.at >= Eof)
      BY <1>1, <1>3
    <3>2. t \in {[at    |-> Behind(s.at, hd),
                 found |-> IF IsFound(hd) THEN Append(s.found, Node(s.at, hd))
                           ELSE s.found] : hd \in HeadersAt(s.at)}
      BY ONLY <3>1, t \in Read(s) DEF Read
    <3>3. PICK hd \in HeadersAt(s.at) :
             t = [at    |-> Behind(s.at, hd),
                  found |-> IF IsFound(hd) THEN Append(s.found, Node(s.at, hd))
                            ELSE s.found]
      BY <3>2
    <3> QED
      BY ONLY <3>3
  <2>6. \A d \in Blocks : BlockEnd(d) <= BlockEnd(c) \/ BlockEnd(c) <= d.ptr
    <3> SUFFICES ASSUME NEW d \in Blocks
                 PROVE  BlockEnd(d) <= BlockEnd(c) \/ BlockEnd(c) <= d.ptr
      OBVIOUS
    <3>1. /\ BlockEnd(d) \in Nat /\ d.ptr \in Nat
          /\ d = c \/ BlockEnd(d) <= c.ptr \/ BlockEnd(c) <= d.ptr
      BY BlockFacts
    <3> QED
      BY <2>2, <3>1
  <2>7. ASSUME NEW d \in Nodes, d # c
        PROVE  d.ptr < BlockEnd(c) <=> d.ptr < s.at
    <3>1. /\ BlockEnd(d) \in Nat /\ d.ptr \in Nat /\ d.ptr < BlockEnd(d)
          /\ BlockEnd(d) <= c.ptr \/ BlockEnd(c) <= d.ptr
      BY <2>7, BlockFacts DEF Blocks
    <3> QED
      BY <2>2, <2>3, <3>1
  <2>8. CASE c \in LiveBlocks
    <3>1. file[s.at] = Header(FALSE, c.size, c.cap) /\ c.size <= c.cap
      BY <2>3, <2>8, BlockFacts DEF Inv, FileInv, InUse
    <3>2. hd = Header(FALSE, c.size, c.cap)
      BY <2>4, <2>5, <3>1 DEF HeadersAt, Header
    <3>3. t.at = BlockEnd(c)
      BY <2>3, <2>5, <3>1, <3>2, BehindBlock
    <3>4. t.found = s.found
      BY <2>5, <3>2 DEF IsFound, Header
    <3>5. c \notin Nodes
      BY <2>8, BlockFacts
    <3>6. {d \in Nodes : d.ptr < BlockEnd(c)} = {d \in Nodes : d.ptr < s.at}
      BY <2>7, <3>5
    <3>7. BlockEnd(c) \in Base .. Eof /\ BlockEnd(c) > s.at
      BY <1>1, <2>1, <2>2
    <3> QED
      BY <2>6, <3>3, <3>4, <3>6, <3>7 DEF Between
  <2>9. CASE c \in Nodes
    <3>1. file[s.at] = Byte \/ (file[s.at] = Header(TRUE, c.size, c.cap) /\ c.size <= c.cap)
      BY <2>3, <2>9 DEF Inv, FileInv, IsFree
    <3>2. file[s.at] # Byte
      <4> SUFFICES ASSUME file[s.at] = Byte
                   PROVE  FALSE
        OBVIOUS
      <4>1. file[s.at].kind # "header"
        BY DEF Byte
      <4>2. HeadersAt(s.at) = Garbage
        BY <4>1 DEF HeadersAt
      <4>3. Garbage # {}
        BY <2>5, <4>2
      <4>4. file[c.ptr].kind = "header"
        BY <2>9, <4>3 DEF NothingMisread
      <4> QED
        BY <2>3, <4>1, <4>4
    <3>3. hd = Header(TRUE, c.size, c.cap)
      BY <2>4, <2>5, <3>1, <3>2 DEF HeadersAt, Header
    <3>4. t.at = BlockEnd(c)
      BY <2>3, <2>5, <3>1, <3>2, <3>3, BehindBlock
    <3>5. Node(s.at, hd) = c
      BY <2>2, <2>3, <3>3 DEF Node, Header, Alloc!Block
    <3>6. t.found = Append(s.found, c)
      BY <2>5, <3>3, <3>5 DEF IsFound, Header
    <3> DEFINE n == Len(s.found)
    <3>7. s.found \in Seq(Alloc!Block) /\ n \in Nat /\ DOMAIN s.found = 1 .. n
      BY LenProperties DEF Between
    <3>8. /\ t.found \in Seq(Alloc!Block) /\ DOMAIN t.found = 1 .. n + 1
          /\ t.found[n + 1] = c /\ \A i \in 1 .. n : t.found[i] = s.found[i]
      <4>1. /\ t.found \in Seq(Alloc!Block) /\ Len(t.found) = n + 1
            /\ t.found[n + 1] = c /\ \A i \in 1 .. n : t.found[i] = s.found[i]
        BY <2>2, <3>6, <3>7, AppendProperties
      <4> QED
        BY <4>1, LenProperties
    <3> HIDE DEF n
    <3>9. \A i \in 1 .. n + 1 : i \in 1 .. n \/ i = n + 1
      BY <3>7
    <3>10. n + 1 \in 1 .. n + 1 /\ \A i \in 1 .. n : i \in 1 .. n + 1
      BY <3>7
    <3>11. NodesOf(t.found) = NodesOf(s.found) \union {c}
      BY <3>7, <3>8, <3>9, <3>10 DEF NodesOf
    <3>12. NodesOf(t.found) = {d \in Nodes : d.ptr < BlockEnd(c)}
      <4>1. NodesOf(s.found) = {d \in Nodes : d.ptr < s.at}
        BY DEF Between
      <4> QED
        BY <2>2, <2>7, <2>9, <3>11, <4>1
    <3>13. ASSUME NEW i \in 1 .. n
           PROVE  s.found[i].ptr # c.ptr
      <4>1. s.found[i] \in NodesOf(s.found)
        BY <3>7 DEF NodesOf
      <4>2. s.found[i].ptr < s.at /\ s.found[i] \in Nodes
        BY <4>1 DEF Between
      <4>3. s.found[i].ptr \in Nat
        BY <4>2, BlockFacts DEF Blocks
      <4> QED
        BY <1>1, <2>3, <4>2, <4>3
    <3>14. Distinct(t.found)
      <4> SUFFICES ASSUME NEW i \in 1 .. n + 1, NEW j \in 1 .. n + 1,
                          t.found[i].ptr = t.found[j].ptr
                   PROVE  i = j
        BY <3>8 DEF Distinct
      <4>1. CASE i \in 1 .. n /\ j \in 1 .. n
        BY <3>7, <3>8, <4>1 DEF Between, Distinct
      <4>2. CASE i = n + 1 /\ j \in 1 .. n
        BY <3>8, <3>13, <4>2
      <4>3. CASE i \in 1 .. n /\ j = n + 1
        BY <3>8, <3>13, <4>3
      <4> QED
        BY <3>9, <4>1, <4>2, <4>3
    <3>15. BlockEnd(c) \in Base .. Eof /\ BlockEnd(c) > s.at
      BY <1>1, <2>1, <2>2
    <3> QED
      BY <2>6, <3>4, <3>8, <3>12, <3>14, <3>15 DEF Between
  <2> QED
    BY <2>8, <2>9 DEF Blocks
<1> QED
  BY <1>1, <1>2, <1>3

\* The states of a scan between two blocks, and every turn of a set of them.
Scanning == {s \in [at : Base .. Eof, found : Seq(Alloc!Block)] : Between(s)}
Turn(T) == UNION {Read(s) : s \in T}

LEMMA TurnTyped ==
    ASSUME Inv, NothingMisread, NEW T \in SUBSET Scanning
    PROVE  Turn(T) \in SUBSET Scanning
<1> SUFFICES ASSUME NEW s \in T, NEW t \in Read(s)
             PROVE  t \in Scanning
  BY DEF Turn
<1>1. s \in Scanning /\ Between(s)
  BY DEF Scanning
<1>2. Between(t)
  BY <1>1, ReadFacts
<1>3. CASE s.at >= Eof
  BY <1>1, <1>3 DEF Read
<1>4. CASE ~(s.at >= Eof)
  <2>1. t \in {[at    |-> Behind(s.at, hd),
               found |-> IF IsFound(hd) THEN Append(s.found, Node(s.at, hd))
                         ELSE s.found] : hd \in HeadersAt(s.at)}
    BY ONLY <1>4, t \in Read(s) DEF Read
  <2>2. PICK hd \in HeadersAt(s.at) :
           t = [at    |-> Behind(s.at, hd),
                found |-> IF IsFound(hd) THEN Append(s.found, Node(s.at, hd)) ELSE s.found]
    BY <2>1
  <2>3. t = [at |-> t.at, found |-> t.found]
    BY ONLY <2>2
  <2>4. t.at \in Base .. Eof /\ t.found \in Seq(Alloc!Block)
    BY <1>2 DEF Between
  <2>5. t \in [at : Base .. Eof, found : Seq(Alloc!Block)]
    BY ONLY <2>3, <2>4
  <2> QED
    BY <1>2, <2>5 DEF Scanning
<1> QED
  BY <1>3, <1>4

\* The recursive function of Scans is defined at every turn.
LEMMA ScansDefined ==
    ASSUME Inv, NothingMisread
    PROVE  \E f : /\ f[0] = {[at |-> Base, found |-> <<>>]}
                  /\ \A n \in Nat : f[n] \in SUBSET Scanning /\ f[n + 1] = Turn(f[n])
                  /\ Scans = {s.found : s \in f[Eof - Base]}
<1> DEFINE V == SUBSET Scanning
           v0 == {[at |-> Base, found |-> <<>>]}
           step == [n \in Nat |-> [T \in V |-> Turn(T)]]
           IsLoop(g) == g = [n \in Nat |-> IF n = 0 THEN v0
                                           ELSE UNION {Read(s) : s \in g[n - 1]}]
           f == CHOOSE g : IsLoop(g)
<1>1. v0 \in V
  <2> DEFINE s == [at |-> Base, found |-> <<>>]
  <2>1. s.at = Base /\ s.found = <<>>
    OBVIOUS
  <2>2. Base \in Nat /\ Eof \in Nat /\ Base <= Eof
    BY BlockFacts
  <2>3. <<>> \in Seq(Alloc!Block) /\ NodesOf(<<>>) = {} /\ Distinct(<<>>)
    BY DEF NodesOf, Distinct
  <2>4. ASSUME NEW c \in Blocks
        PROVE  c.ptr \in Nat /\ Base <= c.ptr
    BY BlockFacts
  <2>5. {c \in Nodes : c.ptr < Base} = {}
    BY <2>2, <2>4 DEF Blocks
  <2>6. s \in [at : Base .. Eof, found : Seq(Alloc!Block)]
    BY <2>2, <2>3
  <2> HIDE DEF s
  <2>7. Between(s)
    BY <2>1, <2>2, <2>3, <2>4, <2>5 DEF Between
  <2>8. s \in Scanning
    BY <2>6, <2>7 DEF Scanning
  <2> QED
    BY <2>8 DEF s
<1>2. step \in [Nat -> [V -> V]]
  BY TurnTyped
<1>3. PICK g \in [Nat -> V] : g[0] = v0 /\ \A n \in Nat : g[n + 1] = step[n][g[n]]
  <2> HIDE DEF V, v0, step
  <2>1. \E g \in [Nat -> V] : Data!Steps(g, v0, step)
    BY <1>1, <1>2, DataAssumption, Data!RecursionOnNat
  <2> QED
    BY <2>1 DEF Data!Steps
<1>4. ASSUME NEW n \in Nat
      PROVE  g[n + 1] = Turn(g[n])
  BY <1>3
<1>5. ASSUME NEW n \in Nat, n # 0
      PROVE  g[n] = UNION {Read(s) : s \in g[n - 1]}
  <2>1. n - 1 \in Nat /\ (n - 1) + 1 = n
    BY <1>5
  <2> QED
    BY <1>4, <2>1 DEF Turn
<1>6. \A n \in Nat : g[n] \in SUBSET Scanning
  BY <1>3
<1> HIDE DEF V, v0, step
<1>7. IsLoop(g)
  BY <1>3, <1>5
<1>8. IsLoop(f)
  <2> HIDE DEF IsLoop
  <2> QED
    BY <1>7
<1>9. Scans = {s.found : s \in f[Eof - Base]}
  BY DEF Scans, v0
<1> HIDE DEF f
<1>10. f[0] = v0
  BY <1>8
<1>11. ASSUME NEW n \in Nat
       PROVE  f[n + 1] = Turn(f[n])
  <2>1. n + 1 \in Nat /\ n + 1 # 0 /\ (n + 1) - 1 = n
    OBVIOUS
  <2> QED
    BY <1>8, <2>1 DEF Turn
<1>12. \A n \in Nat : f[n] \in SUBSET Scanning
  <2> DEFINE T == {n \in Nat : f[n] \in SUBSET Scanning}
  <2>1. 0 \in T
    BY <1>1, <1>10 DEF V
  <2>2. ASSUME NEW n \in Nat, n \in T
        PROVE  n + 1 \in T
    BY <1>11, <2>2, TurnTyped
  <2>3. \A n \in Nat : n \in T
    <3> HIDE DEF T
    <3> QED
      BY <2>1, <2>2, DataAssumption, Data!SetInduction
  <2> QED
    BY <2>3
<1> QED
  BY <1>9, <1>10, <1>11, <1>12 DEF v0

\* Every scan of a file whose free blocks all have a header finds those blocks,
\* each of them once.
LEMMA ScanFacts ==
    ASSUME Inv, NothingMisread, NEW found \in Scans
    PROVE  found \in Seq(Alloc!Block) /\ NodesOf(found) = Nodes /\ Distinct(found)
<1>1. Eof \in Nat /\ Base \in Nat /\ Base <= Eof
  BY BlockFacts
<1>2. PICK f : /\ f[0] = {[at |-> Base, found |-> <<>>]}
               /\ \A n \in Nat : f[n] \in SUBSET Scanning /\ f[n + 1] = Turn(f[n])
               /\ Scans = {s.found : s \in f[Eof - Base]}
  BY ScansDefined
<1> DEFINE T == {n \in Nat : \A s \in f[n] : s.at = Eof \/ s.at >= Base + n}
<1>3. 0 \in T
  <2>1. \A s \in f[0] : s.at = Base
    BY <1>2
  <2> QED
    BY <1>1, <2>1
<1>4. ASSUME NEW n \in Nat, n \in T
      PROVE  n + 1 \in T
  <2> SUFFICES ASSUME NEW t \in f[n + 1]
               PROVE  t.at = Eof \/ t.at >= Base + (n + 1)
    OBVIOUS
  <2>1. PICK s \in f[n] : t \in Read(s)
    BY <1>2 DEF Turn
  <2>2. Between(s) /\ s.at \in Base .. Eof
    BY <1>2 DEF Scanning
  <2>3. t.at = Eof \/ t.at > s.at
    BY <2>1, <2>2, ReadFacts
  <2>4. Between(t) /\ t.at \in Base .. Eof
    <3>1. n + 1 \in Nat
      OBVIOUS
    <3> QED
      BY <1>2, <3>1 DEF Scanning
  <2>5. s.at = Eof \/ s.at >= Base + n
    BY <1>4
  <2> QED
    BY <1>1, <2>2, <2>3, <2>4, <2>5
<1>5. \A n \in Nat : n \in T
  <2> HIDE DEF T
  <2> QED
    BY <1>3, <1>4, DataAssumption, Data!SetInduction
<1>6. Eof - Base \in Nat
  BY <1>1
<1>7. PICK s \in f[Eof - Base] : found = s.found
  BY <1>2
<1>8. Between(s) /\ s.at \in Base .. Eof
  BY <1>2, <1>6, <1>7 DEF Scanning
<1>9. s.at = Eof \/ s.at >= Base + (Eof - Base)
  BY <1>5, <1>6, <1>7
<1>10. s.at = Eof
  BY <1>1, <1>8, <1>9
<1>11. ASSUME NEW c \in Nodes
       PROVE  c.ptr < Eof
  <2>1. c.ptr \in Nat /\ BlockEnd(c) \in Nat /\ c.ptr < BlockEnd(c) /\ BlockEnd(c) <= Eof
    BY BlockFacts DEF Blocks
  <2> QED
    BY <1>1, <2>1
<1> QED
  BY <1>7, <1>8, <1>10, <1>11 DEF Between

LEMMA ReopenInv ==
    ASSUME Inv, NothingMisread, Reopen
    PROVE  Inv' /\ Nodes' = Nodes /\ UNCHANGED Alloc!vars
<1>1. PICK found \in Scans : heap' = Build(found) /\ file' = file /\ owned' = owned
  BY DEF Reopen
<1>2. found \in Seq(Alloc!Block) /\ NodesOf(found) = Nodes /\ Distinct(found)
  BY <1>1, ScanFacts
<1>3. heap' \in Seq(Alloc!Block) /\ SameNodes(heap', found) /\ IsHeap(heap')
  BY <1>1, <1>2, BuildFacts, BlocksAreSized
<1>4. Nodes' = Nodes
  BY <1>2, <1>3 DEF SameNodes, Nodes, NodesOf
<1>5. LiveBlocks' = LiveBlocks /\ Eof' = Eof
  BY <1>1 DEF LiveBlocks, Eof
<1>6. UNCHANGED Alloc!vars
  BY <1>4, <1>5 DEF Alloc!vars
<1>7. Alloc!IInv'
  BY <1>6, AllocAssumption, Alloc!NextIInv DEF Inv
<1>8. HeapOrdered'
  BY <1>2, <1>3 DEF HeapOrdered, Distinct, SameNodes
<1>9. FileInv'
  BY <1>1, <1>4, <1>5 DEF Inv, FileInv, InUse, IsFree, ContentBehind, BlockEnd
<1>10. Alloc!Block' = Alloc!Block
  BY DEF Alloc!Block
<1> QED
  BY <1>3, <1>4, <1>6, <1>7, <1>8, <1>9, <1>10 DEF Inv

-----------------------------------------------------------------------------
(* The results.  They speak of behaviours in which the file is opened again *)
(* only while nothing can be misread: the run heap_misread shows what       *)
(* happens otherwise.                                                       *)

ReadsHeaders == Reopen => NothingMisread

LEMMA NextInv ==
    Inv /\ [Next]_vars /\ [ReadsHeaders]_vars => Inv' /\ [Alloc!Next]_Alloc!vars
<1> SUFFICES ASSUME Inv, [Next]_vars, [ReadsHeaders]_vars
             PROVE  Inv' /\ [Alloc!Next]_Alloc!vars
  OBVIOUS
<1>1. ASSUME NEW n \in Requests, OccupySplit(n) \/ OccupyWhole(n) \/ AppendBlock(n)
      PROVE  Inv' /\ Alloc!Next
  BY <1>1, SplitInv, WholeInv, AppendInv
<1>2. ASSUME NEW k \in 1 .. MaxFreed, NEW ps \in [1 .. k -> owned],
             \A i, j \in 1 .. k : ps[i] = ps[j] => i = j, FreeBlocks(ps)
      PROVE  Inv' /\ Alloc!Next
  <2>1. k \in Nat \ {0}
    BY HeapFileAssumption
  <2> QED
    BY <1>2, <2>1, FreeInv
<1>3. CASE UNCHANGED vars
  <2>1. heap' = heap /\ file' = file /\ owned' = owned
    BY <1>3 DEF vars
  <2>2. Nodes' = Nodes /\ LiveBlocks' = LiveBlocks /\ Eof' = Eof
    BY <2>1 DEF Nodes, LiveBlocks, Eof
  <2>3. UNCHANGED Alloc!vars
    BY <2>2 DEF Alloc!vars
  <2>4. Alloc!IInv'
    BY <2>3, AllocAssumption, Alloc!NextIInv DEF Inv
  <2>5. HeapOrdered' /\ FileInv'
    BY <2>1, <2>2 DEF Inv, HeapOrdered, FileInv, InUse, IsFree, ContentBehind, BlockEnd
  <2>6. Alloc!Block' = Alloc!Block
    BY DEF Alloc!Block
  <2> QED
    BY <2>1, <2>3, <2>4, <2>5, <2>6 DEF Inv
<1>4. CASE Reopen /\ ~(UNCHANGED vars)
  BY <1>4, ReopenInv DEF ReadsHeaders
<1> QED
  BY <1>1, <1>2, <1>3, <1>4 DEF Next

\* The two names of the specification of the blocks stand for the same.
LEMMA SameStore ==
    /\ Alloc!Init <=> Store!Init
    /\ [Alloc!Next]_Alloc!vars <=> [Store!Next]_Store!vars
BY DEF Alloc!Init, Alloc!Next, Alloc!vars, Alloc!Insert, Alloc!OccupySplit, Alloc!OccupyWhole,
       Alloc!Append, Alloc!FreeBlocks, Alloc!Freed, Alloc!CanOccupy, Alloc!CanSplit, Alloc!IsTop,
       Alloc!Remainder, Alloc!Occupied,
       Store!Init, Store!Next, Store!vars, Store!Insert, Store!OccupySplit, Store!OccupyWhole,
       Store!Append, Store!FreeBlocks, Store!Freed, Store!CanOccupy, Store!CanSplit, Store!IsTop,
       Store!Remainder, Store!Occupied

LEMMA Invariance == Spec /\ [][ReadsHeaders]_vars => []Inv
<1>1. Init => Inv
  BY InitInv
<1>2. Inv /\ [Next]_vars /\ [ReadsHeaders]_vars => Inv'
  BY NextInv
<1> QED
  BY <1>1, <1>2, PTL DEF Spec

\* The array of block_heap.c is in order and lists no block twice, for arrays
\* of any length and after any history of calls.
THEOREM HeapStaysOrdered == Spec /\ [][ReadsHeaders]_vars => []HeapOrdered
<1>1. Inv => HeapOrdered
  BY InvAgrees
<1> QED
  BY <1>1, Invariance, PTL

\* The header of a block in use says so, and a written header of a free block
\* has what the memory knows of that block.
THEOREM FileStaysTrue == Spec /\ [][ReadsHeaders]_vars => []FileAgrees
<1>1. Inv => FileAgrees
  BY InvAgrees
<1> QED
  BY <1>1, Invariance, PTL

\* The array and the file implement BlockStore: an operation of block_heap.c
\* with its writes is one step of the allocator, and a scan of the file none.
THEOREM ImplementsStore == Spec /\ [][ReadsHeaders]_vars => StoreSpec
<1>1. Init => Store!Init
  <2> SUFFICES ASSUME Init
               PROVE  Store!Init
    OBVIOUS
  <2>1. Nodes = {} /\ LiveBlocks = {} /\ DOMAIN file = {}
    BY DEF Init, Nodes, LiveBlocks
  <2>2. Eof = Base
    BY <2>1, HeapFileAssumption, FS_EmptySet DEF Eof
  <2> QED
    BY <2>1, <2>2 DEF Store!Init
<1>2. Inv /\ [Next]_vars /\ [ReadsHeaders]_vars => [Store!Next]_Store!vars
  BY NextInv, SameStore
<1> QED
  BY <1>1, <1>2, Invariance, PTL DEF Spec, StoreSpec, Store!Spec

\* database_close and database_open give the free blocks back: the scan of
\* database_init steps from block to block and misses none.
THEOREM ReopenFindsFreeBlocks == Spec /\ [][ReadsHeaders]_vars => ReopenRestores
<1>1. Inv /\ [ReadsHeaders]_vars =>
         [Reopen => {heap'[i] : i \in DOMAIN heap'} = Nodes]_vars
  <2> SUFFICES ASSUME Inv, ReadsHeaders, Reopen
               PROVE  {heap'[i] : i \in DOMAIN heap'} = Nodes
    OBVIOUS
  <2>1. Nodes' = Nodes
    BY ReopenInv DEF ReadsHeaders
  <2> QED
    BY <2>1 DEF Nodes
<1> QED
  BY <1>1, Invariance, PTL DEF ReopenRestores
=============================================================================
