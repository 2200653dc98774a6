----------------------------- MODULE MCHeapFile -----------------------------
(***************************************************************************)
(* HeapFile with contents that can be read as headers.                     *)
(***************************************************************************)
EXTENDS HeapFile

\* The text "aaaa..." read as a header: is_free is not zero, and both amounts
\* are far larger than the file.  Zeros (an integer, a null pointer) read as
\* an empty block in use.
TextOrZeros ==
    { [kind |-> "header", free |-> TRUE, size |-> M-2, cap |-> M-2],
      [kind |-> "header", free |-> FALSE, size |-> 0, cap |-> 0] }

\* Every array of at most seven nodes with three sizes; seven make three full
\* levels, each with a left and a right child.
Arrays == {[i \in 1 .. n |-> [ptr |-> i, size |-> s[i]]] :
              <<n, s>> \in UNION {{n} \X [1 .. n -> 1 .. 3] : n \in 0 .. 7}}
NodesOf(h) == {h[i].ptr : i \in DOMAIN h}

\* what an operation is to return: a heap of the given nodes
Holds(h, pointers) == IsHeap(h) /\ NodesOf(h) = pointers /\ Len(h) = Cardinality(pointers)

\* Each operation of block_heap.c keeps the order of the heap and its nodes.
ASSUME HeapOperations ==
    \A h \in Arrays :
        /\ Holds(Build(h), NodesOf(h))
        /\ IsHeap(h) =>
              /\ \A s \in 1 .. 3 :
                    /\ Holds(Insert(h, [ptr |-> 8, size |-> s]), NodesOf(h) \union {8})
                    /\ h # <<>> => Holds(ReplaceTop(h, [h[1] EXCEPT !.size = s]), NodesOf(h))
              /\ h # <<>> => Holds(RemoveTop(h), NodesOf(h) \ {h[1].ptr})
=============================================================================
