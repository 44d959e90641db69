--------------------------- MODULE MCMemoryEngine ---------------------------
(***************************************************************************)
(* MemoryEngine on small instances.  Ids and contents are model values;    *)
(* both are only compared for equality.                                    *)
(***************************************************************************)
EXTENDS MemoryEngine, TLC

IdSymmetry == Permutations(Ids)

(* A cfg file cannot hold a negative number. *)
RetryDelays == {-1, 1}
=============================================================================
