---------------------------- MODULE RouterLookup ----------------------------
(***************************************************************************)
(* One lookup of internal/router/router.go, GetBackend or                  *)
(* GetBackendsForRead, as the loops of the code: the hint route, the       *)
(* rules, and the range over the map of backends, one backend a step.      *)
(*                                                                         *)
(* The lookup holds r.mu for reading, so the table does not change under   *)
(* it; lookups do not change each other, so one at a time is enough.  The  *)
(* flags behind Healthy() have locks of their own, and the health checker  *)
(* moves them between two steps.  Router gives the result for flags that   *)
(* stand still.                                                            *)
(***************************************************************************)
EXTENDS Router

VARIABLES
  loop,      \* "idle", the loop the lookup is in, or "done"
  call,      \* its arguments, and whether it is GetBackendsForRead
  place,     \* index of the loop
  left,      \* backends the range has not visited yet
  found,     \* result of GetBackendsForRead; of GetBackend, at most one backend
  alwaysUp,  \* history: registered backends healthy since the lookup began
  everUp     \* history: those healthy at some moment since then

progress == <<place, left, found>>
lookupVars == <<routerVars, loop, call, progress, alwaysUp, everUp>>

NoCall == [read |-> FALSE, key |-> CHOOSE k \in Keys : TRUE, hint |-> NoHint]

LookupInit ==
  /\ RouterInit
  /\ loop = "idle" /\ call = NoCall
  /\ place = 1 /\ left = {} /\ found = <<>>
  /\ alwaysUp = {} /\ everUp = {}

\* The operations that write the table wait for the lookup to return.
TableChanges ==
  /\ loop = "idle"
  /\ \/ \E b \in Backends : RegisterBackend(b) \/ UnregisterBackend(b)
     \/ \E rs \in RuleConfigs : SetRules(rs)
     \/ \E h \in Hints, ids \in HintConfigs : SetHintRoute(h, ids)
  /\ UNCHANGED <<loop, call, progress, alwaysUp, everUp>>

\* The lookup is called, and takes the read lock.
Begin ==
  /\ loop = "idle"
  /\ \E read \in BOOLEAN, k \in Keys, h \in Hints \cup {NoHint} :
       call' = [read |-> read, key |-> k, hint |-> h]
  /\ loop' = "hint"
  /\ alwaysUp' = UpSet /\ everUp' = UpSet
  /\ UNCHANGED <<routerVars, progress>>

Seen(b) == \E i \in DOMAIN found : found[i] = b

TakeAgain(b) == found' = Append(found, b)
\* GetBackendsForRead appends a backend it has not seen and goes on; GetBackend
\* returns with the first.
Take(b) == found' = IF Seen(b) THEN found ELSE Append(found, b)

\* What the loop at this place does with the backend the place names.
Offer(b) ==
  IF Up(b)
    THEN Take(b) /\ loop' = (IF call.read THEN loop ELSE "done")
    ELSE UNCHANGED <<found, loop>>

\* for _, id := range backendIDs
TryHint ==
  /\ loop = "hint" /\ place \in DOMAIN Route(call.hint)
  /\ Offer(Route(call.hint)[place])
  /\ place' = place + 1
  /\ UNCHANGED <<routerVars, call, left, alwaysUp, everUp>>

EndOfHints ==
  /\ loop = "hint" /\ place \notin DOMAIN Route(call.hint)
  /\ loop' = "rule" /\ place' = 1
  /\ UNCHANGED <<routerVars, call, left, found, alwaysUp, everUp>>

Decides(rule) == call.key \in rule.keys /\ rule.strategy # "blacklist"

TryRuleStopAtDown ==
  /\ loop = "rule" /\ place \in DOMAIN rules
  /\ IF Decides(rules[place]) THEN Offer(rules[place].backend) ELSE UNCHANGED <<found, loop>>
  /\ place' = IF Decides(rules[place]) /\ ~Up(rules[place].backend)
                THEN Len(rules) + 1 ELSE place + 1
  /\ UNCHANGED <<routerVars, call, left, alwaysUp, everUp>>
\* for _, rule := range r.rules
TryRule ==
  /\ loop = "rule" /\ place \in DOMAIN rules
  /\ IF Decides(rules[place]) THEN Offer(rules[place].backend) ELSE UNCHANGED <<found, loop>>
  /\ place' = place + 1
  /\ UNCHANGED <<routerVars, call, left, alwaysUp, everUp>>

EndOfRulesReturn ==
  /\ loop = "rule" /\ place \notin DOMAIN rules
  /\ loop' = (IF found = <<>> THEN "rest" ELSE "done") /\ left' = registered
  /\ UNCHANGED <<routerVars, call, place, found, alwaysUp, everUp>>
EndOfRules ==
  /\ loop = "rule" /\ place \notin DOMAIN rules
  /\ loop' = "rest" /\ left' = registered
  /\ UNCHANGED <<routerVars, call, place, found, alwaysUp, everUp>>

AnyHealthy(b) == found = <<>>
\* getFallbackBackend keeps the heavier of two healthy backends.
Heavier(b) == found = <<>> \/ Weight[b] > Weight[found[1]]

\* for _, backend := range r.backends, in any order
VisitRest ==
  /\ loop = "rest"
  /\ \E b \in left :
       /\ left' = left \ {b}
       /\ IF ~healthy[b] THEN UNCHANGED found
          ELSE IF call.read THEN Take(b)
          ELSE found' = IF Heavier(b) THEN <<b>> ELSE found
  /\ UNCHANGED <<routerVars, loop, call, place, alwaysUp, everUp>>

EndOfRest ==
  /\ loop = "rest" /\ left = {}
  /\ loop' = "done"
  /\ UNCHANGED <<routerVars, call, progress, alwaysUp, everUp>>

\* The caller has its result.
ReturnResult ==
  /\ loop = "done"
  /\ loop' = "idle" /\ call' = NoCall
  /\ place' = 1 /\ left' = {} /\ found' = <<>>
  /\ alwaysUp' = {} /\ everUp' = {}
  /\ UNCHANGED routerVars

\* backend.SetHealthy, between any two steps.
FlagMoves ==
  \E b \in Backends :
    /\ SetHealthy(b, ~healthy[b])
    /\ IF loop = "idle" THEN UNCHANGED <<alwaysUp, everUp>>
       ELSE /\ alwaysUp' = alwaysUp \ {b}
            /\ everUp' = everUp \cup ({b} \cap registered)
    /\ UNCHANGED <<loop, call, progress>>

LookupNext ==
  \/ TableChanges \/ FlagMoves
  \/ Begin \/ TryHint \/ EndOfHints \/ TryRule \/ EndOfRules \/ VisitRest \/ EndOfRest
  \/ ReturnResult

LookupSpec == LookupInit /\ [][LookupNext]_lookupVars

-----------------------------------------------------------------------------
(* Properties *)

\* A result never lists a backend twice, whatever the hint route and the rules
\* repeat, and GetBackend never has more than one.
NoBackendTwice ==
  /\ \A i, j \in DOMAIN found : i # j => found[i] # found[j]
  /\ ~call.read => Len(found) <= 1

Finished == loop = "done"
Steady == alwaysUp = everUp

\* The loops compute the operators of Router: when no flag moves until the
\* lookup is over, GetBackend returns one of the backends Router!GetBackend allows and
\* GetBackendsForRead one of its lists.
AgreesWhenSteady ==
  Finished /\ Steady =>
    IF call.read THEN found \in GetBackendsForRead(call.key, call.hint)
    ELSE IF found = <<>> THEN GetBackend(call.key, call.hint) = {}
    ELSE found[1] \in GetBackend(call.key, call.hint)

\* Flags that move during the lookup hide no backend but their own: the read
\* list has every registered backend that was healthy all along, a lookup for
\* a write fails only if there was none, and what is returned was healthy at
\* some moment of the lookup.
HidesOnlyItsOwn ==
  Finished =>
    /\ \A i \in DOMAIN found : found[i] \in everUp
    /\ call.read => \A b \in alwaysUp : Seen(b)
    /\ found = <<>> => alwaysUp = {}

\* The first place of the hint route or of the rules that names b for the call.
Places(b) ==
  {i \in DOMAIN Route(call.hint) : Route(call.hint)[i] = b}
    \cup {Len(Route(call.hint)) + i :
            i \in {j \in DOMAIN rules : Decides(rules[j]) /\ rules[j].backend = b}}
FirstPlace(b) ==
  IF Places(b) = {} THEN Len(Route(call.hint)) + Len(rules) + 1 ELSE FirstOf(Places(b))

\* A write passes over no backend that was healthy all along: whatever other
\* flags do meanwhile, it goes to a backend that is named no later.
PassesOverNone ==
  Finished /\ ~call.read /\ found # <<>> =>
    \A b \in alwaysUp : FirstPlace(found[1]) <= FirstPlace(b)
=============================================================================
