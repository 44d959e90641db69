------------------------ MODULE MCRedisStreamEngine ------------------------
(***************************************************************************)
(* RedisStreamEngine on small instances.  Ids and contents are model       *)
(* values; both are only compared for equality, so that safety runs may    *)
(* use their symmetry.                                                     *)
(***************************************************************************)
EXTENDS RedisStreamEngine, TLC

Symmetry == Permutations(Ids) \union Permutations(Contents)
=============================================================================
