---------------------------- MODULE MCAcceptance ----------------------------
(***************************************************************************)
(* Acceptance for two tasks, in every scenario.                            *)
(***************************************************************************)
EXTENDS Acceptance

CONSTANTS t1, t2
=============================================================================
