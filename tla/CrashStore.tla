----------------------------- MODULE CrashStore -----------------------------
(***************************************************************************)
(* The list of nodes, or that of links, as the single writes that change   *)
(* it in the file, and a process that ends between two of them.  Every     *)
(* fseek sends what was written before it, and each write is followed by   *)
(* one: at any time the file holds the writes up to some point, in order.  *)
(*                                                                         *)
(* The parts of a node are the blocks of its values, and before that of a  *)
(* text the block with its characters, to which the value leads; the part  *)
(* of a link is the block of its name.  Blocks are given out as BlockStore *)
(* has it: any that is free in the file, or behind its end.  When a query  *)
(* is over, the free blocks are forgotten: nothing reads one again, as     *)
(* long as the file is what Recoverable says.                              *)
(***************************************************************************)
EXTENDS EntityList, Functions, SequencesExt

CONSTANTS
    MaxAttributes, \* bound: attributes of a node
    MaxGone,    \* bound: entities that one query deletes
    MaxCuts     \* bound: times that the process ends in a query

ASSUME CrashStoreAssumption == MaxAttributes \in Nat /\ MaxGone \in Nat /\ MaxCuts \in Nat

EntityKinds == {"node", "link"}
PartKinds == {"value", "text"}

\* What the parts of an entity hold, in the order in which they are inserted.
Layouts ==
    [node |-> {l \in SeqOf(PartKinds, 2 * MaxAttributes) :
                  /\ Cardinality({k \in DOMAIN l : l[k] = "value"}) \in 1 .. MaxAttributes
                  /\ \A k \in DOMAIN l : l[k] = "text" => k + 1 \in DOMAIN l /\ l[k+1] = "value"},
     link |-> {<<"text">>}]

VARIABLES
    kind,       \* "node" or "link": which list it is
    file,       \* the blocks in the file: is_free, and what was written last
    disk,       \* first and last in the header in the file
    mem,        \* and in memory
    writes,     \* the writes left of the running query
    layout,     \* the parts it inserts,
    made,       \* those it has inserted
    latest,     \* and the entity
    nth,        \* the part that it replaces, or the block that it gives back next
    done,       \* entities that were created and not chosen to be deleted
    cuts,       \* how often the process ended
    hurt        \* the header or the list was left wrong

running == <<layout, made, latest, nth>>
crashVars == <<kind, file, disk, mem, writes, running, done, cuts, hurt>>

Empty == [first |-> Null, last |-> Null]

CrashInit ==
    /\ kind \in EntityKinds
    /\ file = <<>>
    /\ disk = Empty /\ mem = Empty
    /\ writes = <<>> /\ layout = <<>> /\ made = <<>> /\ latest = Null /\ nth = 1
    /\ done = <<>>
    /\ cuts = 0 /\ hurt = FALSE

InUse(p) == p \in DOMAIN file /\ ~file[p].free
Written(p, block) == [q \in DOMAIN file \union {p} |-> IF q = p THEN block ELSE file[q]]
Block(holds, prev, parts) ==
    [free |-> FALSE, holds |-> holds, prev |-> prev, next |-> Null, parts |-> parts]

WithoutFree(blocks) == Restrict(blocks, {p \in DOMAIN blocks : ~blocks[p].free})

Running(op) == writes # <<>> /\ Head(writes).op = op
Target == Head(writes).at
Op(op, at) == [op |-> op, at |-> at]
Over == layout' = <<>> /\ made' = <<>> /\ latest' = Null /\ nth' = 1

\* database_update_header, at the end of every query
WriteHeader ==
    /\ Running("header")
    /\ disk' = mem
    /\ done' = IF Target = Null THEN Append(done, latest) ELSE done
    /\ file' = WithoutFree(file)
    /\ writes' = <<>> /\ Over
    /\ UNCHANGED <<kind, mem, cuts, hurt>>

-----------------------------------------------------------------------------
(* create_node and link_create: the parts one after another, the block, the *)
(* pointer to it in the last one, the header                               *)

InsertingHeaderFirst == <<"parts", "entity", "header", "chain">>
Inserting == <<"parts", "entity", "chain", "header">>

BeginInsert(parts) ==
    /\ writes = <<>>
    /\ Cardinality({p \in Ptr : InUse(p)}) + Len(parts) + 1 <= Cardinality(Ptr)
    /\ layout' = parts
    /\ writes' = [i \in DOMAIN Inserting |-> Op(Inserting[i], Null)]
    /\ UNCHANGED <<kind, file, disk, mem, made, latest, nth, done, cuts, hurt>>

WritePart(p) ==
    /\ Running("parts")
    /\ ~InUse(p)
    /\ file' = Written(p, Block(layout[Len(made) + 1], Null, <<>>))
    /\ made' = Append(made, p)
    /\ writes' = IF Len(made) + 1 = Len(layout) THEN Tail(writes) ELSE writes
    /\ UNCHANGED <<kind, disk, mem, layout, latest, nth, done, cuts, hurt>>

WriteEntity(p) ==
    /\ Running("entity")
    /\ ~InUse(p)
    /\ file' = Written(p, Block(kind, mem.last, made))
    /\ latest' = p
    /\ writes' = Tail(writes)
    /\ UNCHANGED <<kind, disk, mem, layout, made, nth, done, cuts, hurt>>

ChainLast ==
    /\ Running("chain")
    /\ file' = IF mem.first = Null THEN file ELSE SetNext(file, mem.last, latest)
    /\ mem' = [first |-> IF mem.first = Null THEN latest ELSE mem.first, last |-> latest]
    /\ writes' = Tail(writes)
    /\ UNCHANGED <<kind, disk, running, done, cuts, hurt>>

-----------------------------------------------------------------------------
(* delete_nodes gives the blocks back before it closes the list around     *)
(* them, link_delete afterwards                                            *)

Deleting == [node |-> <<"free", "close_next", "close_prev">>,
             link |-> <<"close_next", "close_prev", "free">>]

\* an iteration over what the file holds
Listed == Walk(file, disk.first)

BeginDelete(gone) ==
    /\ writes = <<>>
    /\ LET v == Fetched(Listed, gone)
       IN  writes' = [k \in 1 .. 3 * Len(v) |->
                         Op(Deleting[kind][((k-1) % 3) + 1], v[((k-1) \div 3) + 1])]
                     \o <<Op("header", v[1])>>
    /\ done' = Fetched(done, Ptr \ gone)
    /\ UNCHANGED <<kind, file, disk, mem, running, cuts, hurt>>

\* database_free_blocks, of a value before its text
HoldsText(parts, k) == k \in DOMAIN parts /\ file[parts[k]].holds = "text"
ValueFirst(parts) ==
    [k \in DOMAIN parts |-> parts[IF HoldsText(parts, k) THEN k + 1
                                  ELSE IF HoldsText(parts, k - 1) THEN k - 1 ELSE k]]
BlocksButTexts(p) ==
    Append(SelectSeq(file[p].parts, LAMBDA q : file[q].holds = "value"), p)
BlocksToFree(p) ==
    IF kind = "node" THEN Append(ValueFirst(file[p].parts), p) ELSE <<p>> \o file[p].parts

FreedAndUnlinked(p) ==
    IF p \in DOMAIN file THEN [file EXCEPT ![p].free = TRUE, ![p].next = Null] ELSE file
Freed(p) == IF p \in DOMAIN file THEN [file EXCEPT ![p].free = TRUE] ELSE file

Free ==
    /\ Running("free")
    /\ file' = Freed(BlocksToFree(Target)[nth])
    /\ IF nth < Len(BlocksToFree(Target))
       THEN nth' = nth + 1 /\ writes' = writes
       ELSE nth' = 1 /\ writes' = Tail(writes)
    /\ UNCHANGED <<kind, disk, mem, layout, made, latest, done, cuts, hurt>>

CloseNext ==
    /\ Running("close_next")
    /\ file' = SetPrev(file, file[Target].next, file[Target].prev)
    /\ mem' = IF mem.first = Target THEN [mem EXCEPT !.first = file[Target].next] ELSE mem
    /\ writes' = Tail(writes)
    /\ UNCHANGED <<kind, disk, running, done, cuts, hurt>>

ClosePrev ==
    /\ Running("close_prev")
    /\ file' = SetNext(file, file[Target].prev, file[Target].next)
    /\ mem' = IF mem.last = Target THEN [mem EXCEPT !.last = file[Target].prev] ELSE mem
    \* behind the last one there may be one whose creation was cut short
    /\ hurt' = (mem.last = Target /\ file[Target].next # Null)
    /\ writes' = Tail(writes)
    /\ UNCHANGED <<kind, disk, running, done, cuts>>

-----------------------------------------------------------------------------
(* value_update of a text: the old one is given back, a new one inserted,  *)
(* then the pointer to it changed.  (A number is overwritten in its place.) *)

Updating == <<"free_text", "parts", "set_text">>

BeginUpdate(p, k) ==
    /\ kind = "node"
    /\ writes = <<>>
    /\ HoldsText(file[p].parts, k)
    /\ nth' = k /\ layout' = <<"text">>
    /\ writes' = [i \in DOMAIN Updating |-> Op(Updating[i], p)]
    /\ UNCHANGED <<kind, file, disk, mem, made, latest, done, cuts, hurt>>

FreeText ==
    /\ Running("free_text")
    /\ file' = Freed(file[Target].parts[nth])
    /\ writes' = Tail(writes)
    /\ UNCHANGED <<kind, disk, mem, running, done, cuts, hurt>>

SetText ==
    /\ Running("set_text")
    /\ file' = WithoutFree([file EXCEPT ![Target].parts[nth] = made[1]])
    /\ writes' = Tail(writes) /\ Over
    /\ UNCHANGED <<kind, disk, mem, done, cuts, hurt>>

-----------------------------------------------------------------------------

\* The query is where the file must not be left: a text or a node has been
\* given back that the list still leads to, the two neighbours of what is
\* deleted disagree, or the header in the file is not that of the list any
\* more.
Window ==
    \/ Running("set_text")
    \/ Running("parts") /\ Target # Null
    \/ Running("free") /\ kind = "node" /\ nth > 1
    \/ Running("close_next") /\ kind = "node"
    \/ Running("close_prev")
    \/ writes # <<>> /\ Target # Null /\ mem # disk

\* The process ends, and the database is opened again.
Cut ==
    /\ writes # <<>> /\ cuts < MaxCuts
    /\ mem' = disk
    /\ writes' = <<>> /\ Over
    /\ cuts' = cuts + 1
    /\ hurt' = Window
    /\ file' = IF Window THEN file ELSE WithoutFree(file)
    /\ UNCHANGED <<kind, disk, done>>

\* What becomes of a file that is hurt is not followed.
CrashNext ==
    /\ ~hurt
    /\ \/ \E parts \in Layouts[kind] : BeginInsert(parts)
       \/ \E gone \in SUBSET ToSet(Listed) :
             Cardinality(gone) \in 1 .. MaxGone /\ BeginDelete(gone)
       \/ \E p \in ToSet(Listed) : \E k \in DOMAIN file[p].parts : BeginUpdate(p, k)
       \/ \E p \in Ptr : WritePart(p) \/ WriteEntity(p)
       \/ ChainLast \/ WriteHeader
       \/ Free \/ CloseNext \/ ClosePrev
       \/ FreeText \/ SetText
       \/ Cut

CrashSpec == CrashInit /\ [][CrashNext]_crashVars

-----------------------------------------------------------------------------
(* Properties *)

\* what the parts of an entity in the file hold
LayoutOf(p) == [k \in DOMAIN file[p].parts |-> file[file[p].parts[k]].holds]

\* Whoever opens the file finds every entity whose creation was completed, in
\* order, and reads only blocks of its kind that are in use with their parts,
\* each once: after any write of a query, and also after processes that ended
\* in the middle of queries, as long as none ended in a window, and no query
\* deletes the last entity while a half-created one hangs behind it.
Recoverable ==
    ~hurt /\ ~Window =>
        /\ IsInjective(Listed)
        /\ \A p \in ToSet(Listed) :
              /\ InUse(p) /\ file[p].holds = kind
              /\ \A k \in DOMAIN file[p].parts : InUse(file[p].parts[k])
              /\ LayoutOf(p) \in Layouts[kind]
        /\ Fetched(Listed, ToSet(done)) = done

\* An iteration meets every entity whose creation was completed and that no
\* query was asked to delete, in order, whenever the process ended the last
\* time, in a window too: what ends in the middle of a deletion leaves more
\* in the list than it should, never less.  (This is said of the first time
\* that the file is opened after it: a file that is hurt is not followed.)
CompletedReachable == Fetched(Listed, ToSet(done)) = done

Owned == UNION {{p} \union ToSet(file[p].parts) : p \in ToSet(Listed)}

\* A process that ends in a query costs the blocks of one entity at most:
\* those that are in use for nothing afterwards.
MostBlocks == [node |-> 2 * MaxAttributes + 1, link |-> 2]
LeakBounded ==
    ~hurt /\ writes = <<>> =>
        Cardinality({p \in Ptr : InUse(p)} \ Owned) <= MostBlocks[kind] * cuts
=============================================================================
