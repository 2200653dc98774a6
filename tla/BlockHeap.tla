------------------------------ MODULE BlockHeap ------------------------------
(***************************************************************************)
(* The binary heap of free blocks (data_structure/block_heap.c) as         *)
(* operators on the sequence of its nodes.  Positions start at 1, where    *)
(* the code's start at 0.  A node is a record whose field size orders it.  *)
(***************************************************************************)
EXTENDS Integers, Sequences

Parent(i) == i \div 2

\* The order the operations are to keep: no node is larger than its parent.
IsHeap(h) == \A i \in 2 .. Len(h) : h[i].size <= h[Parent(i)].size

Swap(h, i, j) == [h EXCEPT ![i] = h[j], ![j] = h[i]]

\* the larger child of i; the left one when they are equal or it is alone
Greatest(h, i) ==
    IF 2*i + 1 <= Len(h) /\ h[2*i + 1].size > h[2*i].size THEN 2*i + 1 ELSE 2*i

\* One turn of the loop that moves a node down: it changes places with its
\* larger child, unless it has none or none is larger.
Down(s) ==
    LET child == Greatest(s.heap, s.pos)
    IN  IF 2*s.pos > Len(s.heap) \/ s.heap[s.pos].size >= s.heap[child].size
        THEN s
        ELSE [heap |-> Swap(s.heap, s.pos, child), pos |-> child]

\* moves the node at i down; no node passes as many others as there are
SiftDown(h, i) ==
    LET after[n \in Nat] ==
            IF n = 0 THEN [heap |-> h, pos |-> i] ELSE Down(after[n - 1])
    IN  after[Len(h)].heap

\* one turn of the loop that moves a node up, while it is larger than its parent
Up(s) ==
    IF s.pos > 1 /\ s.heap[s.pos].size > s.heap[Parent(s.pos)].size
    THEN [heap |-> Swap(s.heap, s.pos, Parent(s.pos)), pos |-> Parent(s.pos)]
    ELSE s

SiftUp(h, i) ==
    LET after[n \in Nat] ==
            IF n = 0 THEN [heap |-> h, pos |-> i] ELSE Up(after[n - 1])
    IN  after[Len(h)].heap

\* sifts down every inner node, the last one first
Build(h) ==
    LET sifted[k \in 0 .. Len(h) \div 2] ==
            IF k = 0 THEN h
            ELSE SiftDown(sifted[k - 1], Len(h) \div 2 + 1 - k)
    IN  sifted[Len(h) \div 2]

\* block_heap_insert
Insert(h, node) == SiftUp(Append(h, node), Len(h) + 1)

\* block_heap_occupy_max on the heap: the top is replaced by what is left of
\* it, or, when nothing is left, by the last node
ReplaceTop(h, node) == SiftDown([h EXCEPT ![1] = node], 1)
RemoveTop(h) == SiftDown(SubSeq(Swap(h, 1, Len(h)), 1, Len(h) - 1), 1)
=============================================================================
