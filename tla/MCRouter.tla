------------------------------ MODULE MCRouter ------------------------------
(* A model of the router with three backends of which two have no weight,      *)
(* rule lists with overlapping patterns, equal priorities, a blacklist and a  *)
(* whitelist, and a hint route that repeats a backend.                        *)
EXTENDS RouterLookup, LoadBalancer

CONSTANTS local, redis, http, user, order

MCBackends == {local, redis, http}
MCKeys == {user, order}
MCWeight == [b \in MCBackends |-> IF b = local THEN 2 ELSE 0]

R(s, ks, b, p) == [strategy |-> s, keys |-> ks, backend |-> b, priority |-> p]

MCRuleConfigs ==
  { << R("hash", MCKeys, http, 10), R("exact", {user}, redis, 20),
       R("wildcard", {user}, local, 20) >>,
    << R("wildcard", MCKeys, redis, 30), R("blacklist", {order}, redis, 50),
       R("whitelist", MCKeys, redis, 20) >> }

MCHintConfigs == { <<>>, <<http, http, redis>> }
=============================================================================
