------------------------- MODULE MCStandingQueries -------------------------
(* Small instances of StandingQueries for TLC.                             *)
EXTENDS StandingQueries, TLC

Interchangeable == Permutations(Thing)
=============================================================================
