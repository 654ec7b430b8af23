------------------------------ MODULE MCSignIn ------------------------------
(* Small instances of SignIn for TLC.                                      *)
EXTENDS SignIn, TLC

Interchangeable == Permutations(Worker) \cup Permutations(Browser) \cup Permutations(State)
=============================================================================
