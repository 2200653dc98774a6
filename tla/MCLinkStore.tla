---------------------------- MODULE MCLinkStore ----------------------------
(* LinkStore with interchangeable addresses and two names that differ in   *)
(* their first letter.                                                     *)
EXTENDS LinkStore

Addresses == Permutations(Ptr)

TwoNames == {<<1>>, <<2>>}
=============================================================================
