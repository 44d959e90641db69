----------------------------- MODULE MCGateRun -----------------------------
(***************************************************************************)
(* GateRun with two scenarios on the main instance and one with an         *)
(* instance of its own.                                                    *)
(***************************************************************************)
EXTENDS GateRun
=============================================================================
