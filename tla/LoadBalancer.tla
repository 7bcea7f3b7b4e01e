----------------------------- MODULE LoadBalancer -----------------------------
(***************************************************************************)
(* How Next of internal/router/loadbalancer.go chooses from the backends   *)
(* it was given: as operators, over the health flags of Router.  main.go   *)
(* gives it every backend that is healthy at start-up; nothing in the      *)
(* program calls Next.                                                     *)
(***************************************************************************)
EXTENDS Router

CONSTANT MaxList  \* bound: entries of a list

ASSUME LoadBalancerAssumption == MaxList \in Nat

\* The lists SetBackends, AddBackend and RemoveBackend can leave: SetBackends
\* keeps a list as it is given, repeated backends included.
Lists == UNION {[1 .. n -> registered] : n \in 0 .. MaxList}

\* The backends of the list that are up, in the order of the list.
getHealthyBackends(list) ==
  LET kept[i \in 0 .. Len(list)] ==
        IF i = 0 THEN <<>>
        ELSE IF healthy[list[i]] THEN Append(kept[i - 1], list[i])
        ELSE kept[i - 1]
  IN kept[Len(list)]

\* A weight that is not positive counts as one.
Share(b) == IF Weight[b] <= 0 THEN 1 ELSE Weight[b]

\* The weight of the first i backends of s.
UpTo(s) ==
  LET sum[i \in 0 .. Len(s)] == IF i = 0 THEN 0 ELSE sum[i - 1] + Share(s[i]) IN sum

DrawFromOne(s) == 1 .. UpTo(s)[Len(s)]
\* rng.Intn(totalWeight)
Draws(s) == 0 .. UpTo(s)[Len(s)] - 1

\* weightedRandom: the place of s at which the draw r, less the weights passed,
\* goes below zero; the last one if it never does.
WeightedPlace(s, r) ==
  LET below == {i \in DOMAIN s : r - UpTo(s)[i] < 0}
  IN IF below = {} THEN Len(s) ELSE FirstOf(below)

\* roundRobin: the place of s it takes; the counter moves on first.
RoundRobinPlace(s, counter) == ((counter + 1) % Len(s)) + 1

-----------------------------------------------------------------------------
(* Properties *)

\* PROMPT.txt:5, requests are spread by weight: of the draws of weightedRandom
\* each healthy entry of the list, first and last, repeated and without weight
\* alike, gets exactly its share, and Len(s) turns of roundRobin visit each.
SpreadsFairly ==
  \A list \in Lists :
    LET s == getHealthyBackends(list) IN
    s # <<>> =>
      /\ \A i \in DOMAIN s :
           Cardinality({r \in Draws(s) : WeightedPlace(s, r) = i}) = Share(s[i])
      /\ {RoundRobinPlace(s, n) : n \in 1 .. Len(s)} = DOMAIN s
=============================================================================
