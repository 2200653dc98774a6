--------------------------- MODULE MCSchemaStore ---------------------------
(* SchemaStore with interchangeable addresses and a name that begins like   *)
(* another one.                                                             *)
EXTENDS SchemaStore, TLC

Addresses == Permutations(Ptr)

TwoNames == {<<1>>, <<1, 2>>}
=============================================================================
