---------------------------- MODULE MCRedisQueue ----------------------------
(***************************************************************************)
(* RedisQueue for TLC.  The run checks liveness and uses no symmetry.      *)
(***************************************************************************)
EXTENDS RedisQueue

=============================================================================
