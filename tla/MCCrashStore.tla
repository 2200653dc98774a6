---------------------------- MODULE MCCrashStore ----------------------------
(* CrashStore with interchangeable addresses. *)
EXTENDS CrashStore, TLC

Addresses == Permutations(Ptr)
=============================================================================
