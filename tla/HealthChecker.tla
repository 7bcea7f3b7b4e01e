--------------------------- MODULE HealthChecker ---------------------------
(***************************************************************************)
(* The health check of one registered backend                              *)
(* (internal/health/healthchecker.go, checkBackend) and the flag it        *)
(* governs, which the backend owns and the router reads.  The scheduler    *)
(* starts a check every interval whether or not the last one has ended, so *)
(* checks overlap; each probes without a lock and reports under hc.mu.     *)
(* CheckType "tcp" is a backend with an address; one without it (memory)   *)
(* is pinged whatever its type says, and its Ping cannot fail.             *)
(***************************************************************************)
EXTENDS Integers, Sequences

CONSTANTS
  Checks,            \* checks that may be under way at once
  CheckType,         \* "tcp" or "ping"
  FailureThreshold,  \* after RegisterBackend's defaults 3 and 2 for zero
  SuccessThreshold

ASSUME HealthAssumption ==
  /\ CheckType \in {"tcp", "ping"}
  /\ FailureThreshold \in Nat \ {0}
  /\ SuccessThreshold \in Nat \ {0}

VARIABLES
  reachable,           \* does the backend answer? (environment)
  healthy,             \* the flag behind backend.Healthy()
  evicted,             \* hc.evicted[id]
  consecutiveSuccess,  \* saturated at the threshold it is compared with
  consecutiveFailure,
  check,               \* check[c]: "idle", "probing", or the result to report
  recent               \* history: the last results reported, newest first

vars == <<reachable, healthy, evicted, consecutiveSuccess, consecutiveFailure, check, recent>>

Larger(m, n) == IF m < n THEN n ELSE m
Smaller(m, n) == IF m < n THEN m ELSE n
Window == Larger(FailureThreshold, SuccessThreshold)

Init ==
  /\ reachable \in BOOLEAN
  /\ healthy = TRUE
  /\ evicted = FALSE
  /\ consecutiveSuccess = 0 /\ consecutiveFailure = 0
  /\ check = [c \in Checks |-> "idle"]
  /\ recent = <<>>

\* The environment: the backend goes down or comes back.
Flip ==
  /\ reachable' = ~reachable
  /\ UNCHANGED <<healthy, evicted, consecutiveSuccess, consecutiveFailure, check, recent>>

\* The scheduler starts a check.
StartCheck(c) ==
  /\ check[c] = "idle"
  /\ check' = [check EXCEPT ![c] = "probing"]
  /\ UNCHANGED <<reachable, healthy, evicted, consecutiveSuccess, consecutiveFailure, recent>>

\* checkTCP only dials.  Ping of a backend also stores its answer in the flag,
\* without any lock of the checker.
Probe(c) ==
  /\ check[c] = "probing"
  /\ check' = [check EXCEPT ![c] = IF reachable THEN "ok" ELSE "error"]
  /\ healthy' = IF CheckType = "ping" THEN reachable ELSE healthy
  /\ UNCHANGED <<reachable, evicted, consecutiveSuccess, consecutiveFailure, recent>>

Log(outcome) ==
  recent' = SubSeq(<<outcome>> \o recent, 1, Smaller(Window, Len(recent) + 1))

CountSuccess ==
  /\ consecutiveSuccess' = Smaller(SuccessThreshold, consecutiveSuccess + 1)
  /\ consecutiveFailure' = 0

RecoveredForgetFlag ==
  IF evicted /\ consecutiveSuccess + 1 >= SuccessThreshold
    THEN evicted' = FALSE /\ UNCHANGED healthy
    ELSE UNCHANGED <<evicted, healthy>>
\* A backend that is evicted comes back after SuccessThreshold successes; one
\* that is not is marked healthy by each.
Recovered ==
  IF ~evicted \/ consecutiveSuccess + 1 >= SuccessThreshold
    THEN evicted' = FALSE /\ healthy' = TRUE
    ELSE UNCHANGED <<evicted, healthy>>

ReportSuccess(c) ==
  /\ check[c] = "ok"
  /\ Recovered
  /\ CountSuccess
  /\ Log("ok")
  /\ check' = [check EXCEPT ![c] = "idle"]
  /\ UNCHANGED reachable

CountFailureOnly ==
  /\ consecutiveFailure' = Smaller(FailureThreshold, consecutiveFailure + 1)
  /\ UNCHANGED consecutiveSuccess
CountFailure ==
  /\ consecutiveFailure' = Smaller(FailureThreshold, consecutiveFailure + 1)
  /\ consecutiveSuccess' = 0

NeverEvict == UNCHANGED <<evicted, healthy>>
\* The FailureThreshold-th failure in a row evicts.
Failed ==
  IF ~evicted /\ consecutiveFailure + 1 >= FailureThreshold
    THEN evicted' = TRUE /\ healthy' = FALSE
    ELSE UNCHANGED <<evicted, healthy>>

ReportFailure(c) ==
  /\ check[c] = "error"
  /\ Failed
  /\ CountFailure
  /\ Log("error")
  /\ check' = [check EXCEPT ![c] = "idle"]
  /\ UNCHANGED reachable

Check(c) == StartCheck(c) \/ Probe(c) \/ ReportSuccess(c) \/ ReportFailure(c)

Next == Flip \/ \E c \in Checks : Check(c)

Spec == Init /\ [][Next]_vars

\* The scheduler keeps starting checks, and every probe has a timeout.
FairSpec == Spec /\ \A c \in Checks : WF_vars(Check(c))

-----------------------------------------------------------------------------
(* Properties *)

\* The variables keep their types; no run of results goes below zero.
TypeOK ==
  /\ reachable \in BOOLEAN /\ healthy \in BOOLEAN /\ evicted \in BOOLEAN
  /\ consecutiveSuccess \in 0 .. SuccessThreshold
  /\ consecutiveFailure \in 0 .. FailureThreshold
  /\ check \in [Checks -> {"idle", "probing", "ok", "error"}]
  /\ recent \in Seq({"ok", "error"}) /\ Len(recent) <= Window

\* The last n reports are all of this outcome.
LastAre(n, outcome, log) == Len(log) >= n /\ \A i \in 1 .. n : log[i] = outcome

\* A backend changes sides only on an unbroken run of reports: it is evicted
\* on FailureThreshold failures in a row and readmitted on SuccessThreshold
\* successes in a row, however the checks overlap.
SidesChangeOnRuns ==
  [][ /\ ~evicted /\ evicted' => LastAre(FailureThreshold, "error", recent')
      /\ evicted /\ ~evicted' => LastAre(SuccessThreshold, "ok", recent') ]_vars

\* With TCP checks the flag the router reads and the evicted set agree
\* whenever no report holds hc.mu.
FlagFollowsEviction == CheckType = "tcp" => (healthy <=> ~evicted)

\* A backend that stays down is taken out of the routing table for good, and
\* one that stays up is back in it for good.
DownIsTakenOut == <>[]~reachable => <>[]~healthy
UpIsPutBack == <>[]reachable => <>[]healthy

-----------------------------------------------------------------------------
(* Documents promise, and the code does not keep: Ping sets the flag itself. *)

\* PROMPT.txt:9, a backend evicted after N failures in a row is not in the
\* routing table until it has answered M times in a row.
EvictedNotRouted == evicted => ~healthy
=============================================================================
