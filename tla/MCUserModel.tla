---------------------------- MODULE MCUserModel ----------------------------
(* Small instances of UserModel for TLC.                                   *)
EXTENDS UserModel, TLC

Interchangeable == Permutations(Worker) \cup Permutations(Preference) \cup Permutations(Evidence)
=============================================================================
