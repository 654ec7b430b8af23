---------------------------- MODULE MCEdgeWrites ----------------------------
(* Small instances of EdgeWrites for TLC.                                  *)
EXTENDS EdgeWrites, TLC

Interchangeable == Permutations(Worker) \cup Permutations(Thing) \cup Permutations(EdgeId)
=============================================================================
