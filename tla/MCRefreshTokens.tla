-------------------------- MODULE MCRefreshTokens --------------------------
(* Small instances of RefreshTokens for TLC.                               *)
EXTENDS RefreshTokens, TLC

Interchangeable == Permutations(Worker) \cup Permutations(Code)
                     \cup Permutations(Family) \cup Permutations(Token)
=============================================================================
