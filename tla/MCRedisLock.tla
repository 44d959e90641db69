---------------------------- MODULE MCRedisLock ----------------------------
(***************************************************************************)
(* RedisLock for two clients and three acquisitions: a client can come     *)
(* back after another has taken over, while its old scripts are under way. *)
(***************************************************************************)
EXTENDS RedisLock, TLC

CONSTANTS c1, c2

ClientSymmetry == Permutations(Clients)
=============================================================================
