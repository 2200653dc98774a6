---------------------------- MODULE MCGraphStore ----------------------------
(* GraphStore with interchangeable addresses and a name that begins like   *)
(* another one.                                                            *)
EXTENDS GraphStore, TLC

Addresses == Permutations(Ptr)

TwoNames == {<<1>>, <<1, 2>>}
=============================================================================
