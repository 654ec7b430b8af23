--------------------------- MODULE MCBoundedStore ---------------------------
(* Small instances of BoundedStore for TLC.                                *)
EXTENDS BoundedStore, TLC

Interchangeable == Permutations(Request) \cup Permutations(Key)
=============================================================================
