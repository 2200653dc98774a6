----------------------------- MODULE EntityList -----------------------------
(***************************************************************************)
(* The lists that the blocks of schemas, nodes and links form in the file. *)
(* A list is a function from the addresses of its blocks to their          *)
(* contents, records with a field next and, in nodes and links, prev.      *)
(***************************************************************************)
EXTENDS Integers, Sequences, FiniteSets

CONSTANTS
    Ptr,        \* the addresses where a block may be
    Null        \* nullptr

ASSUME EntityListAssumption == Null \notin Ptr

\* change_next_pointer and change_prev_pointer, which nullptr is kept from
SetNext(list, p, q) == [r \in DOMAIN list |->
    IF r = p THEN [list[r] EXCEPT !.next = q] ELSE list[r]]
SetPrev(list, p, q) == [r \in DOMAIN list |->
    IF r = p THEN [list[r] EXCEPT !.prev = q] ELSE list[r]]

\* The neighbours of a block are joined, the one after it first.
CloseAround(list, e) == SetNext(SetPrev(list, e.next, e.prev), e.prev, e.next)

\* A generator with no condition, called until it returns nothing.  (It
\* stops after one element too many if the list runs in a circle.)
Walk(list, first) ==
    LET from[n \in Nat] ==
            [p \in Ptr \union {Null} |->
                IF n = 0 \/ p \notin DOMAIN list THEN <<>>
                ELSE <<p>> \o from[n - 1][list[p].next]]
    IN  from[Cardinality(DOMAIN list) + 1][first]

\* The vector that a generator is fetched into, if its condition accepts the
\* elements of a set.
Fetched(seq, accepted) ==
    LET upto[n \in 0 .. Len(seq)] ==
            IF n = 0 THEN <<>>
            ELSE IF seq[n] \in accepted THEN Append(upto[n - 1], seq[n])
            ELSE upto[n - 1]
    IN  upto[Len(seq)]

\* The list reads the same from either end, holds every block of its kind,
\* and first and last are its two ends.
DoublyLinked(list, first, last) ==
    LET s == Walk(list, first)
        at(i) == IF i \in DOMAIN s THEN s[i] ELSE Null
    IN  /\ {s[i] : i \in DOMAIN s} = DOMAIN list /\ Len(s) = Cardinality(DOMAIN list)
        /\ first = at(1) /\ last = at(Len(s))
        /\ \A i \in DOMAIN s : list[s[i]].prev = at(i-1) /\ list[s[i]].next = at(i+1)
=============================================================================
