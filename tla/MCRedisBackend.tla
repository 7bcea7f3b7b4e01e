--------------------------- MODULE MCRedisBackend ---------------------------
(* Instances of RedisBackend.  Callers and keys are interchangeable: no        *)
(* definition singles one of them out.                                         *)
EXTENDS RedisBackend, TLC

RedisSymmetry == Permutations(Callers) \cup Permutations(Keys)
=============================================================================
