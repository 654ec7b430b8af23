-------------------------- MODULE MCRollingDeploy --------------------------
(* Small instances of RollingDeploy for TLC.                               *)
EXTENDS RollingDeploy, TLC

Interchangeable == Permutations(Server)
=============================================================================
