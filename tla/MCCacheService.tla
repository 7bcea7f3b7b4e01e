--------------------------- MODULE MCCacheService ---------------------------
(* Instances of CacheService: the local cache is registered as a backend like *)
(* the others and is the heaviest, as in configs/config.yaml; one key has a   *)
(* rule.                                                                      *)
EXTENDS Handler, TLC

CONSTANTS local, redis, http, k1

MCKeys == {k1}
MCWeight == [b \in Backends |-> IF b = local THEN 10 ELSE 5]

RuleTo(b, p) == [strategy |-> "exact", keys |-> MCKeys, backend |-> b, priority |-> p]

NoRules == <<>>
RedisRule == << RuleTo(redis, 50) >>
MasterSlaveRules == << RuleTo(redis, 60), RuleTo(http, 50) >>

ProcSymmetry == Permutations(Procs)
=============================================================================
