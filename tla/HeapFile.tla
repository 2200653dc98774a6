------------------------------ MODULE HeapFile ------------------------------
(***************************************************************************)
(* The storage layer as db_lib implements it: the array of the heap of     *)
(* free blocks in memory and the blocks in the file, where only some of    *)
(* the headers have been written.  Closing and opening the database again  *)
(* rebuilds the heap from the file.                                        *)
(*                                                                         *)
(* An address of the file holds the header of a block (its first address   *)
(* stands for the H bytes of it) or some other byte.  Bytes of content are *)
(* not told apart: read as a header they give any element of Garbage.      *)
(***************************************************************************)
EXTENDS BlockHeap, FiniteSets

CONSTANTS
    H, Base, M, Requests, Limit,    \* as in BlockStore
    MaxFreed,                       \* bound: blocks given back in one call
    Garbage                         \* headers that content may look like

ASSUME HeapFileAssumption ==
    /\ H \in Nat \ {0} /\ Base \in Nat /\ M \in Nat \ {0} /\ Limit \in Nat
    /\ Requests \subseteq Nat \ {0} /\ \A n \in Requests : n + H < M
    /\ MaxFreed \in Nat
    /\ Garbage \subseteq [kind : {"header"}, free : BOOLEAN, size : Nat, cap : Nat]

VARIABLES
    heap,   \* free_blocks->block_node_vector, without the contents
    file,   \* the file behind the database header
    owned   \* the pointers the callers hold

vars == <<heap, file, owned>>

Header(free, size, cap) == [kind |-> "header", free |-> free, size |-> size, cap |-> cap]
Byte == [kind |-> "byte"]

\* database_get_end_pointer
Eof == Base + Cardinality(DOMAIN file)

\* what block_from_file may take for the header at p
HeadersAt(p) ==
    IF p \in DOMAIN file /\ file[p].kind = "header" THEN {file[p]} ELSE Garbage

Node(p, hd) == [ptr |-> p, size |-> hd.size, cap |-> hd.cap]

\* block_to_file: the header and size bytes of content; the padding up to
\* the capacity keeps what it held
WriteBlock(p, size, cap) ==
    LET end == p + H + size
    IN  /\ end <= Limit
        /\ file' = [x \in DOMAIN file \union Eof .. end - 1 |->
                       IF x = p THEN Header(FALSE, size, cap)
                       ELSE IF x \in p .. end - 1 \/ x >= Eof THEN Byte
                       ELSE file[x]]
        /\ owned' = owned \union {p}

-----------------------------------------------------------------------------

Init ==
    /\ heap = <<>>
    /\ file = <<>>
    /\ owned = {}

CanOccupyMaxWithHeader(n) == heap # <<>> /\ n <= heap[1].cap + H
CanOccupyMax(n) == heap # <<>> /\ n <= heap[1].cap

CanSplit(n) == heap[1].cap > n + H

OccupySplit(n) ==
    LET top == heap[1]
    IN  /\ CanOccupyMax(n) /\ CanSplit(n)
        /\ WriteBlock(top.ptr, n, n)
        /\ heap' = ReplaceTop(heap, [ptr  |-> top.ptr + H + n,
                                     size |-> (top.size - (n + H)) % M,
                                     cap  |-> top.cap - (n + H)])

OccupyWhole(n) ==
    LET top == heap[1]
    IN  /\ CanOccupyMax(n) /\ ~CanSplit(n)
        /\ WriteBlock(top.ptr, n, top.cap)
        /\ heap' = RemoveTop(heap)

AppendBlock(n) ==
    /\ ~CanOccupyMax(n)
    /\ WriteBlock(Eof, n, n)
    /\ UNCHANGED heap

\* database_free_blocks: marks each block free in the file, reads its header
\* back, pushes it, and builds the heap anew at the end
FreedHeaderUnmarked(hd) == hd
FreedHeader(hd) == Header(TRUE, hd.size, hd.cap)

RebuiltNot(nodes) == nodes
Rebuilt(nodes) == Build(nodes)

FreeBlocks(ps) ==
    \E hds \in [DOMAIN ps -> UNION {HeadersAt(ps[i]) : i \in DOMAIN ps}] :
        /\ \A i \in DOMAIN ps : hds[i] \in HeadersAt(ps[i])
        /\ file' = [x \in DOMAIN file |->
                       IF \E i \in DOMAIN ps : ps[i] = x
                       THEN FreedHeader(hds[CHOOSE i \in DOMAIN ps : ps[i] = x])
                       ELSE file[x]]
        /\ heap' = Rebuilt(heap \o [i \in DOMAIN ps |-> Node(ps[i], hds[i])])
        /\ owned' = owned \ {ps[i] : i \in DOMAIN ps}

\* database_init: reads block after block up to the end of the file.  The
\* content is read with size bytes, then the padding is skipped; both a
\* content past the end of the file and a padding that wraps around end the
\* scan.
IsFoundAlways(hd) == TRUE
IsFound(hd) == hd.free

\* where the reading of the header hd at p, of the content and of the padding
\* leaves the position
Behind(p, hd) ==
    IF p + H + hd.size > Eof THEN Eof
    ELSE p + H + hd.size + ((hd.cap - hd.size) % M)

\* one turn of the loop: a state for each header that may be read
Read(s) ==
    IF s.at >= Eof THEN {s}
    ELSE {[at    |-> Behind(s.at, hd),
           found |-> IF IsFound(hd) THEN Append(s.found, Node(s.at, hd)) ELSE s.found] :
             hd \in HeadersAt(s.at)}

\* One sequence of free blocks per way the bytes can be read.  Every turn
\* reads an address at least.
Scans ==
    LET after[n \in Nat] ==
            IF n = 0 THEN {[at |-> Base, found |-> <<>>]}
            ELSE UNION {Read(s) : s \in after[n - 1]}
    IN  {s.found : s \in after[Eof - Base]}

\* database_close, then database_open of the same file
Reopen ==
    /\ heap' \in {Build(found) : found \in Scans}
    /\ UNCHANGED <<file, owned>>

Next ==
    \/ \E n \in Requests : OccupySplit(n) \/ OccupyWhole(n) \/ AppendBlock(n)
    \/ \E k \in 1 .. MaxFreed : \E ps \in [1 .. k -> owned] :
          (\A i, j \in 1 .. k : ps[i] = ps[j] => i = j) /\ FreeBlocks(ps)
    \/ Reopen

Spec == Init /\ [][Next]_vars

-----------------------------------------------------------------------------
(* Properties *)

Nodes == {heap[i] : i \in DOMAIN heap}

\* The array is in heap order and holds no block twice, after any history of
\* splits, whole blocks, batches of deletions and reopenings.
HeapOrdered ==
    /\ IsHeap(heap)
    /\ \A i, j \in DOMAIN heap : heap[i].ptr = heap[j].ptr => i = j

\* What the file says of a block is what the memory knows of it: a block in
\* use has a header that says so, and a free block whose header was written
\* has the size, the capacity and the free mark that the heap has.
FileAgrees ==
    /\ \A p \in owned : file[p].kind = "header" /\ ~file[p].free
    /\ \A nd \in Nodes : file[nd.ptr] \in {Header(TRUE, nd.size, nd.cap), Byte}

\* Opening the database again finds the free blocks it had when it was closed.
ReopenRestores == [][Reopen => {heap'[i] : i \in DOMAIN heap'} = Nodes]_vars

\* The blocks in use, as the file describes them.
LiveBlocks == {[ptr |-> p, size |-> file[p].size, cap |-> file[p].cap] : p \in owned}

Store == INSTANCE BlockStore WITH live <- LiveBlocks, pool <- Nodes, eof <- Eof

\* Every step of the array and of the file is a step that BlockStore allows.
StoreSpec == Store!Spec

\* db_lib/README.md:35: the buffer manager holds a heap of the free blocks.  A
\* node of the heap then never shares an address with a block in use.
HeapHoldsFreeBlocks ==
    \A nd \in Nodes, b \in LiveBlocks :
        nd.ptr + H + nd.cap <= b.ptr \/ b.ptr + H + b.cap <= nd.ptr
=============================================================================
