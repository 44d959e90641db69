----------------------------- MODULE MCDatabase -----------------------------
(***************************************************************************)
(* Database for two callers.                                               *)
(***************************************************************************)
EXTENDS Database, TLC

CONSTANTS p1, p2

CallerSymmetry == Permutations(Callers)
=============================================================================
