-------------------------- MODULE MCLegacyEngines --------------------------
(***************************************************************************)
(* LegacyEngines for two callers and three entries of two payloads: a      *)
(* second can be cut in two while another entry is on the queue, and an    *)
(* entry can be delayed again with the same bytes.                         *)
(***************************************************************************)
EXTENDS LegacyEngines

CONSTANTS c1, c2, a, b

Symmetry == Permutations(Callers) \union Permutations(Payloads)
=============================================================================
