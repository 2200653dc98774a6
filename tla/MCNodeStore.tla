---------------------------- MODULE MCNodeStore ----------------------------
(* NodeStore with interchangeable addresses: none of its definitions tells *)
(* one address from another but through the pointers that hold them.       *)
EXTENDS NodeStore, TLC

Addresses == Permutations(Ptr)
=============================================================================
