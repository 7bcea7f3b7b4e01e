------------------------------- MODULE Router -------------------------------
(***************************************************************************)
(* The routing table of internal/router/router.go: the registered backends, *)
(* the rules in priority order and the hint routes, and the two lookups the *)
(* cache service makes, GetBackend (one target, for writes) and             *)
(* GetBackendsForRead (the order in which a read tries the backends).       *)
(*                                                                          *)
(* Every operation holds r.mu for its whole body, so each is one step.  A    *)
(* lookup is an operator here: the result for the flags as they stand.  The *)
(* flags have locks of their own and may move while a lookup reads them:    *)
(* RouterLookup has the lookups step by step.  The order in which Go ranges *)
(* over the map of backends is unspecified: where it matters the operator   *)
(* is the set of results the code may return.                               *)
(***************************************************************************)
EXTENDS Integers, Sequences, FiniteSets

CONSTANTS
  Backends,     \* ids of the backends a configuration may name
  Keys,
  Hints,        \* routing hints of the requests
  NoHint,       \* the empty hint
  Weight,       \* [Backends -> Int], backend.Weight()
  RuleConfigs,  \* the rule lists SetRules may be given
  HintConfigs   \* the id lists SetHintRoute may be given

Strategies == {"exact", "wildcard", "hash", "blacklist", "whitelist"}

\* A rule with its pattern (or its hash modulus and remainder) abstracted to
\* the set of keys for which matchRule returns true.
Rule == [strategy : Strategies, keys : SUBSET Keys, backend : Backends, priority : Int]

ASSUME RouterAssumption ==
  /\ IsFiniteSet(Backends)
  /\ NoHint \notin Hints
  /\ Weight \in [Backends -> Int]
  /\ RuleConfigs \subseteq Seq(Rule)
  /\ HintConfigs \subseteq Seq(Backends)

VARIABLES
  registered,  \* DOMAIN r.backends
  healthy,     \* healthy[b]: the flag Healthy() reads, owned by backend b
  rules,       \* r.rules
  hintRoutes   \* r.hintRoutes; <<>> for a hint with no route

routerVars == <<registered, healthy, rules, hintRoutes>>

-----------------------------------------------------------------------------
(* Lookups *)

\* exists && backend.Healthy()
Up(b) == b \in registered /\ healthy[b]
UpSet == {b \in registered : healthy[b]}

FirstOf(I) == CHOOSE i \in I : \A j \in I : i <= j

Route(h) == IF h = NoHint THEN <<>> ELSE hintRoutes[h]

\* Places of the hint route, and of the rules, a lookup may stop at.
HintHits(h) == {i \in DOMAIN Route(h) : Up(Route(h)[i])}

RuleHits(k) ==
  {i \in DOMAIN rules :
     /\ k \in rules[i].keys
     /\ rules[i].strategy # "blacklist"
     /\ Up(rules[i].backend)}

FallbackAny == registered
\* getFallbackBackend: some heaviest healthy backend; none is the error
\* ErrBackendUnhealthy.
Fallback == {b \in UpSet : \A c \in UpSet : Weight[c] <= Weight[b]}

\* GetBackend: the backends it may return, the empty set for the error.
GetBackend(k, h) ==
  IF HintHits(h) # {} THEN {Route(h)[FirstOf(HintHits(h))]}
  ELSE IF RuleHits(k) # {} THEN {rules[FirstOf(RuleHits(k))].backend}
  ELSE Fallback

RulesBeforeHints(k, h, b) ==
  LET hintAt == {i \in HintHits(h) : Route(h)[i] = b}
      ruleAt == {i \in RuleHits(k) : rules[i].backend = b}
  IN IF ruleAt # {} THEN FirstOf(ruleAt)
     ELSE IF hintAt # {} THEN Len(rules) + FirstOf(hintAt)
     ELSE Len(Route(h)) + Len(rules) + 1
\* Where the read list puts backend b: at its first place in the hint route,
\* else after those at its first matching rule, else behind both.
Rank(k, h, b) ==
  LET hintAt == {i \in HintHits(h) : Route(h)[i] = b}
      ruleAt == {i \in RuleHits(k) : rules[i].backend = b}
  IN IF hintAt # {} THEN FirstOf(hintAt)
     ELSE IF ruleAt # {} THEN Len(Route(h)) + FirstOf(ruleAt)
     ELSE Len(Route(h)) + Len(rules) + 1

Orderings(S) ==
  {s \in [1 .. Cardinality(S) -> S] : \A i, j \in DOMAIN s : i # j => s[i] # s[j]}

\* GetBackendsForRead: the lists it may return.  The backends that no hint
\* and no rule names come last, in the order of the map iteration.
GetBackendsForRead(k, h) ==
  {s \in Orderings(UpSet) :
     \A i, j \in DOMAIN s : i < j => Rank(k, h, s[i]) <= Rank(k, h, s[j])}

\* isBlacklisted and the map behind it, which no lookup consults.
IsBlacklisted(k, b) ==
  \E i \in DOMAIN rules :
    rules[i].strategy = "blacklist" /\ rules[i].backend = b /\ k \in rules[i].keys

-----------------------------------------------------------------------------
(* Operations *)

RouterInit ==
  /\ registered = {}
  /\ healthy = [b \in Backends |-> TRUE]
  /\ rules = <<>>
  /\ hintRoutes = [h \in Hints |-> <<>>]

RegisterBackend(b) ==
  /\ registered' = registered \cup {b}
  /\ UNCHANGED <<healthy, rules, hintRoutes>>

UnregisterBackend(b) ==
  /\ registered' = registered \ {b}
  /\ UNCHANGED <<healthy, rules, hintRoutes>>

AnyOrder(rs) == {rs}
\* sort.Slice by descending priority; it is not stable, so rules of one
\* priority may end in any order.
ByPriority(rs) ==
  {[i \in DOMAIN rs |-> rs[p[i]]] :
     p \in {q \in Orderings(DOMAIN rs) :
              \A i, j \in DOMAIN rs : i < j => rs[q[i]].priority >= rs[q[j]].priority}}

\* SetRules also forgets the hint routes.
SetRules(rs) ==
  /\ rules' \in ByPriority(rs)
  /\ hintRoutes' = [h \in Hints |-> <<>>]
  /\ UNCHANGED <<registered, healthy>>

SetHintRoute(h, ids) ==
  /\ hintRoutes' = [hintRoutes EXCEPT ![h] = ids]
  /\ UNCHANGED <<registered, healthy, rules>>

\* backend.SetHealthy, called by the health checker and by Ping.
SetHealthy(b, up) ==
  /\ healthy' = [healthy EXCEPT ![b] = up]
  /\ UNCHANGED <<registered, rules, hintRoutes>>

-----------------------------------------------------------------------------
(* Properties *)

\* The table names backends and rules of the configuration only.
RouterTypeOK ==
  /\ registered \subseteq Backends
  /\ healthy \in [Backends -> BOOLEAN]
  /\ rules \in Seq(Rule)
  /\ hintRoutes \in [Hints -> Seq(Backends)]

AllHints == Hints \cup {NoHint}

\* A lookup fails exactly when no registered backend is healthy: a rule or a
\* hint whose backends are all down never hides a healthy one.
FailsOnlyWhenAllDown ==
  \A k \in Keys, h \in AllHints : GetBackend(k, h) = {} <=> UpSet = {}

\* GetBackend and GetBackendsForRead agree although they are written twice:
\* where a hint or a rule decides, a read tries first the backend a write of
\* the same key goes to.
ReadsWhereItWrites ==
  \A k \in Keys, h \in AllHints :
    HintHits(h) \cup RuleHits(k) # {} =>
      \A s \in GetBackendsForRead(k, h) : GetBackend(k, h) = {s[1]}

\* No rule decides while a rule of higher priority matches the key and its
\* backend is up.
PriorityDecides ==
  \A k \in Keys :
    RuleHits(k) # {} =>
      \A i \in RuleHits(k) :
        rules[i].priority <= rules[FirstOf(RuleHits(k))].priority

\* PROMPT.txt:5, requests are spread by the weights: where neither a hint nor a
\* rule decides, every healthy backend has its share of the keys.
SpreadByWeight ==
  \A k \in Keys :
    RuleHits(k) = {} => \A b \in UpSet : Weight[b] > 0 => b \in GetBackend(k, NoHint)

\* PROMPT.txt:5, a blacklist rule keeps the keys of its pattern away from its
\* backend.
BlacklistHonoured ==
  \A k \in Keys, h \in AllHints :
    \A b \in GetBackend(k, h) : ~IsBlacklisted(k, b)
=============================================================================
