----------------------------- MODULE BlockStore -----------------------------
(***************************************************************************)
(* What the storage layer of db_lib promises to the layers above it        *)
(* within one connection: the file is cut into blocks, a caller is handed  *)
(* a block for its bytes and may later give it back.                       *)
(*                                                                         *)
(* The order in which the heap of free blocks is laid out in its array is  *)
(* abstracted: here the heap is a set and its top is any free block of     *)
(* maximal recorded size.  HeapFile models the array and the bytes of the  *)
(* file, and is checked to implement this module.                          *)
(*                                                                         *)
(* Here and in the other modules, an operator whose name extends the name  *)
(* of the next one (IsTopSmallest, CanSplitNoHeader ...) is a variant with *)
(* a slip in it.  No action uses it; it is there to show which property    *)
(* would notice that slip.                                                 *)
(***************************************************************************)
EXTENDS Integers, FiniteSets

CONSTANTS
    H,          \* block_header_size(): is_free, size and capacity (9 bytes)
    Base,       \* db_header_size(): where the first block starts (48 bytes)
    M,          \* values of an amount are 0 .. M-1 (uint32_t: M = 2^32)
    Requests,   \* the content sizes the callers ask for
    Limit       \* bound: the file never grows past this address

ASSUME StoreAssumption ==
    /\ H \in Nat \ {0} /\ Base \in Nat /\ M \in Nat /\ Limit \in Nat
    /\ Requests \subseteq Nat \ {0}
    /\ \A n \in Requests : n + H < M

VARIABLES
    live,   \* blocks handed out to callers and not freed since
    pool,   \* buffer_manager->free_blocks, the nodes of the heap
    eof     \* length of the file

vars == <<live, pool, eof>>

Block == [ptr : Nat, size : 0 .. M-1, cap : 0 .. M-1]

\* the first address after a block
BlockEnd(b) == b.ptr + H + b.cap

\* the heap is ordered by the recorded size, and only its top is looked at
IsTopSmallest(b) == b \in pool /\ \A c \in pool : c.size >= b.size
IsTop(b) == b \in pool /\ \A c \in pool : c.size <= b.size

\* block_heap_can_occupy_max: the capacity of the top decides
CanOccupy(n, b) == n <= b.cap

\* case 1 of block_heap_occupy_max: a header and one more byte must remain
CanSplitNoHeader(n, b) == b.cap > n
CanSplitTwoHeaders(n, b) == b.cap > n + H + H
CanSplit(n, b) == b.cap > n + H

\* the two halves of a split; the subtraction from size is on amounts
Occupied(n, b) == [ptr |-> b.ptr, size |-> n, cap |-> n]
RemainderNoHeader(n, b) == [ptr  |-> b.ptr + n,
                            size |-> (b.size - (n + H)) % M,
                            cap  |-> b.cap - (n + H)]
RemainderTwoHeaders(n, b) == [ptr  |-> b.ptr + H + n,
                              size |-> (b.size - (n + H)) % M,
                              cap  |-> b.cap - (n + H + H)]
Remainder(n, b) == [ptr  |-> b.ptr + H + n,
                    size |-> (b.size - (n + H)) % M,
                    cap  |-> b.cap - (n + H)]

-----------------------------------------------------------------------------

Init ==
    /\ live = {}
    /\ pool = {}
    /\ eof = Base

\* the top is larger than needed: its head is occupied, the rest stays free
OccupySplit(n, b) ==
    /\ IsTop(b) /\ CanOccupy(n, b) /\ CanSplit(n, b)
    /\ live' = live \union {Occupied(n, b)}
    /\ pool' = (pool \ {b}) \union {Remainder(n, b)}
    /\ UNCHANGED eof

\* the top fits and cannot be split: it is handed out with its capacity
OccupyWhole(n, b) ==
    /\ IsTop(b) /\ CanOccupy(n, b) /\ ~CanSplit(n, b)
    /\ live' = live \union {[b EXCEPT !.size = n]}
    /\ pool' = pool \ {b}
    /\ UNCHANGED eof

\* the heap is empty or its top is too small: a new block at the end of file
Append(n) ==
    /\ \/ pool = {}
       \/ \E b \in pool : IsTop(b) /\ ~CanOccupy(n, b)
    /\ eof + H + n <= Limit
    /\ live' = live \union {[ptr |-> eof, size |-> n, cap |-> n]}
    /\ eof' = eof + H + n
    /\ UNCHANGED pool

Insert(n) ==
    \/ \E b \in pool : OccupySplit(n, b) \/ OccupyWhole(n, b)
    \/ Append(n)

\* database_free_blocks: each block comes back with the size and the
\* capacity that its header holds
FreedBySize(S) == {[b EXCEPT !.cap = b.size] : b \in S}
Freed(S) == S

FreeBlocks(S) ==
    /\ live' = live \ S
    /\ pool' = pool \union Freed(S)
    /\ UNCHANGED eof

Next ==
    \/ \E n \in Requests : Insert(n)
    \/ \E S \in SUBSET live : S # {} /\ FreeBlocks(S)

Spec == Init /\ [][Next]_vars

-----------------------------------------------------------------------------
(* Properties *)

\* Every amount and every pointer of a block is in the range of its C type.
TypeOK ==
    /\ live \subseteq Block
    /\ pool \subseteq Block
    /\ eof \in Nat

\* Every block lies between the database header and the end of the file.
Within ==
    /\ Base <= eof
    /\ \A b \in live \union pool : Base <= b.ptr /\ BlockEnd(b) <= eof

\* No two blocks share a byte, whether handed out or free: what a caller
\* writes into its block never lands in the block of another caller, and no
\* block is both in use and in the heap.
NoOverlap ==
    /\ live \intersect pool = {}
    /\ \A a, b \in live \union pool :
          a = b \/ BlockEnd(a) <= b.ptr \/ BlockEnd(b) <= a.ptr

\* No byte is lost while the connection is open: every address after the
\* database header belongs to a block in use or to a block of the heap.
Covered ==
    \A x \in Base .. eof-1 :
        \E b \in live \union pool : b.ptr <= x /\ x < BlockEnd(b)

\* A block in use holds its content, and handing out a whole free block
\* wastes no more than a header's worth of padding (a larger rest is split).
WasteBounded ==
    \A b \in live : b.size <= b.cap /\ b.cap <= b.size + H

\* A step never moves, resizes or drops a block in use: it stays as it is, or
\* it is given back and is free with the capacity it had.
LiveStable == [][\A b \in live : b \in live' \/ b \in pool']_vars

\* As long as the recorded size of every free block is its capacity, the file
\* grows only when no free block could hold the request.
GrowsOnlyIfFull ==
    [][ (eof' > eof /\ \A b \in pool : b.size = b.cap)
          => \A b \in pool : b.cap < eof' - eof - H ]_vars
=============================================================================
