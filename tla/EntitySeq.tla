----------------------------- MODULE EntitySeq -----------------------------
(***************************************************************************)
(* What the list of the nodes (or of the links) of a database promises:    *)
(* a sequence in order of creation, from which a query may take one        *)
(* element after the other, in any places.                                 *)
(***************************************************************************)
EXTENDS Sequences, Integers

CONSTANT Ptr

VARIABLE seq

Init == seq = <<>>

Add(p) ==
    /\ \A i \in DOMAIN seq : seq[i] # p
    /\ seq' = Append(seq, p)

Take(i) == seq' = SubSeq(seq, 1, i-1) \o SubSeq(seq, i+1, Len(seq))

Next ==
    \/ \E p \in Ptr : Add(p)
    \/ \E i \in DOMAIN seq : Take(i)

Spec == Init /\ [][Next]_seq
=============================================================================
