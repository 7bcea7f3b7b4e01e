--------------------------- MODULE CircuitBreaker ---------------------------
(***************************************************************************)
(* One circuit breaker (internal/circuit/circuitbreaker.go) shared by the  *)
(* goroutines that call Execute.                                           *)
(*                                                                         *)
(* Allow is not atomic in the code: it reads the state under RLock, reads  *)
(* lastStateChange without a lock, takes the lock for the transition to    *)
(* half-open, and reads the state again after Unlock.  Each of these is a  *)
(* step of its own.  RecordSuccess and RecordFailure hold the lock for     *)
(* their whole body, so each is one step.                                  *)
(***************************************************************************)
EXTENDS Integers, FiniteSets

CONSTANTS
  Callers,           \* goroutines inside or outside CircuitBreakerManager.Execute
  FailureThreshold,  \* config.CircuitBreakerConfig, none of them validated
  SuccessThreshold,
  HalfOpenMaxCalls

ASSUME BreakerAssumption ==
  /\ IsFiniteSet(Callers)
  /\ FailureThreshold \in Nat
  /\ SuccessThreshold \in Nat
  /\ HalfOpenMaxCalls \in Nat

VARIABLES
  state,          \* cb.state
  failureCount,   \* cb.failureCount
  successCount,   \* cb.successCount
  halfOpenCalls,  \* cb.halfOpenCalls
  timedOut,       \* time.Since(cb.lastStateChange) > cb.timeout
  pc,             \* pc[c]: where goroutine c is in Execute
  probes          \* history: calls admitted since the breaker last became half-open

counters == <<failureCount, successCount, halfOpenCalls>>
vars == <<state, counters, timedOut, pc, probes>>

States == {"closed", "open", "half-open"}
Labels == {"idle", "openCheck", "transition", "reread", "halfOpen", "running"}

Init ==
  /\ state = "closed"
  /\ failureCount = 0
  /\ successCount = 0
  /\ halfOpenCalls = 0
  /\ timedOut = FALSE
  /\ pc = [c \in Callers |-> "idle"]
  /\ probes = 0

Goto(c, label) == pc' = [pc EXCEPT ![c] = label]

\* setState: the assignment also restarts the clock of lastStateChange.
SetState(s) ==
  /\ state' = s
  /\ timedOut' = FALSE

\* history only: an admission while half-open is one more probe
CountProbe == probes' = IF state = "half-open" THEN probes + 1 ELSE probes

-----------------------------------------------------------------------------
(* Allow *)

\* The read of cb.state under RLock, and the branch taken on what it saw.
ReadState(c) ==
  /\ pc[c] = "idle"
  /\ Goto(c, CASE state = "closed"    -> "running"
               [] state = "open"      -> "openCheck"
               [] state = "half-open" -> "halfOpen")
  /\ UNCHANGED <<state, counters, timedOut, probes>>

\* StateOpen: the unlocked read of lastStateChange.
CheckTimeout(c) ==
  /\ pc[c] = "openCheck"
  /\ Goto(c, IF timedOut THEN "transition" ELSE "idle")
  /\ UNCHANGED <<state, counters, timedOut, probes>>

StillOpenNoRecheck == timedOut
\* What the second check, under the lock, requires.
StillOpen == state = "open" /\ timedOut

TransitionKeepBudget(c) ==
  /\ pc[c] = "transition"
  /\ IF StillOpen
       THEN SetState("half-open") /\ probes' = 0
       ELSE UNCHANGED <<state, timedOut, probes>>
  /\ Goto(c, "reread")
  /\ UNCHANGED counters
\* The locked section of StateOpen.
Transition(c) ==
  /\ pc[c] = "transition"
  /\ IF StillOpen
       THEN SetState("half-open") /\ halfOpenCalls' = 0 /\ probes' = 0
       ELSE UNCHANGED <<state, timedOut, halfOpenCalls, probes>>
  /\ Goto(c, "reread")
  /\ UNCHANGED <<failureCount, successCount>>

\* return cb.state == StateHalfOpen, read after Unlock.
Reread(c) ==
  /\ pc[c] = "reread"
  /\ Goto(c, IF state = "half-open" THEN "running" ELSE "idle")
  /\ CountProbe
  /\ UNCHANGED <<state, counters, timedOut>>

BudgetOffByMany == halfOpenCalls < HalfOpenMaxCalls + Cardinality(Callers)
Budget == halfOpenCalls < HalfOpenMaxCalls

\* StateHalfOpen: the state is not read again, only the budget is.
TryHalfOpen(c) ==
  /\ pc[c] = "halfOpen"
  /\ IF Budget
       THEN /\ halfOpenCalls' = halfOpenCalls + 1
            /\ CountProbe
            /\ Goto(c, "running")
       ELSE /\ UNCHANGED <<halfOpenCalls, probes>>
            /\ Goto(c, "idle")
  /\ UNCHANGED <<state, failureCount, successCount, timedOut>>

-----------------------------------------------------------------------------
(* RecordSuccess and RecordFailure, after fn has returned *)

Close ==
  /\ SetState("closed")
  /\ failureCount' = 0
  /\ successCount' = 0
  /\ halfOpenCalls' = 0

CountSuccess ==
  /\ successCount' = successCount + 1
  /\ UNCHANGED <<state, failureCount, halfOpenCalls, timedOut>>

RecordSuccess(c) ==
  /\ pc[c] = "running"
  /\ Goto(c, "idle")
  /\ UNCHANGED probes
  /\ \/ /\ state = "closed"
        /\ failureCount' = 0
        /\ UNCHANGED <<state, successCount, halfOpenCalls, timedOut>>
     \/ /\ state = "open"
        /\ UNCHANGED <<state, counters, timedOut>>
     \/ /\ state = "half-open"
        /\ successCount + 1 >= SuccessThreshold
        /\ Close
     \/ /\ state = "half-open"
        /\ successCount + 1 < SuccessThreshold
        /\ CountSuccess

ReopenKeepSuccesses ==
  /\ SetState("open")
  /\ failureCount' = FailureThreshold
  /\ halfOpenCalls' = 0
  /\ UNCHANGED successCount
Reopen ==
  /\ SetState("open")
  /\ failureCount' = FailureThreshold
  /\ successCount' = 0
  /\ halfOpenCalls' = 0

RecordFailure(c) ==
  /\ pc[c] = "running"
  /\ Goto(c, "idle")
  /\ UNCHANGED probes
  /\ \/ /\ state = "closed"
        /\ failureCount' = failureCount + 1
        /\ IF failureCount + 1 >= FailureThreshold
             THEN SetState("open")
             ELSE UNCHANGED <<state, timedOut>>
        /\ UNCHANGED <<successCount, halfOpenCalls>>
     \/ /\ state = "open"
        /\ UNCHANGED <<state, counters, timedOut>>
     \/ /\ state = "half-open"
        /\ Reopen

-----------------------------------------------------------------------------

\* The clock passes lastStateChange + timeout.
TimeoutElapses ==
  /\ ~timedOut
  /\ timedOut' = TRUE
  /\ UNCHANGED <<state, counters, pc, probes>>

Execute(c) ==
  \/ ReadState(c) \/ CheckTimeout(c) \/ Transition(c) \/ Reread(c)
  \/ TryHalfOpen(c) \/ RecordSuccess(c) \/ RecordFailure(c)

Next == TimeoutElapses \/ \E c \in Callers : Execute(c)

Spec == Init /\ [][Next]_vars

\* Calls keep arriving and the Go scheduler runs every goroutine.
FairSpec == Spec /\ \A c \in Callers : WF_vars(Execute(c))

-----------------------------------------------------------------------------
(* Properties *)

\* The variables keep their types; no counter ever goes below zero, in
\* particular halfOpenCalls, which TryHalfOpen and the resets share.
TypeOK ==
  /\ state \in States
  /\ failureCount \in Nat
  /\ successCount \in Nat
  /\ halfOpenCalls \in Nat
  /\ timedOut \in BOOLEAN
  /\ pc \in [Callers -> Labels]
  /\ probes \in Nat

\* The counters an operation leaves behind fit the state it leaves: a closed
\* breaker has not reached the failure threshold and owes nothing to an
\* earlier recovery, a breaker that is not closed keeps the failures that
\* opened it, and a recovery always counts its successes from zero
\* (RecordSuccess, RecordFailure, Allow reset different counters).
CountersFitState ==
  /\ state = "closed"    => failureCount < FailureThreshold \/ failureCount = 0
  /\ state # "closed"    => failureCount >= FailureThreshold
  /\ state # "half-open" => successCount = 0
  /\ successCount < SuccessThreshold \/ successCount = 0

\* Callers that have been, or may still be, admitted by the half-open state
\* of the moment: inside fn, or about to read the state again after the
\* transition.
Working == {c \in Callers : pc[c] \in {"reread", "running"}}

\* Callers that chose the StateOpen branch of Allow and are not through it.
Opening == {c \in Callers : pc[c] \in {"openCheck", "transition", "reread"}}

\* However the callers interleave, every call a half-open period admits is paid
\* for: by a unit of the budget, which is never overdrawn, also by a caller that
\* read "half-open" in an earlier period, or by a goroutine that had already
\* read "open" and has come through.  The callers of the StateOpen branch are
\* not counted by halfOpenCalls, but each of them gets through at most once, so
\* a period admits at most HalfOpenMaxCalls + |Callers| calls.
ProbesBounded ==
  /\ halfOpenCalls <= HalfOpenMaxCalls
  /\ state = "half-open" =>
       probes + Cardinality(Opening) <= halfOpenCalls + Cardinality(Callers)

\* A half-open breaker always has a way out: a call is under way whose result
\* will move it, or the budget still admits one.  halfOpenCalls is never
\* decremented, so this needs SuccessThreshold <= HalfOpenMaxCalls + 1.
HalfOpenHasWayOut ==
  SuccessThreshold <= HalfOpenMaxCalls + 1
    => (state = "half-open" => Working # {} \/ halfOpenCalls < HalfOpenMaxCalls)

\* The inductive invariant behind the three properties above: in a half-open
\* period every unit of the budget that is spent is a success already counted
\* or a call still under way, and one caller more than that is on its way.
IInv ==
  /\ TypeOK
  /\ CountersFitState
  /\ ProbesBounded
  /\ state = "half-open" => halfOpenCalls + 1 <= successCount + Cardinality(Working)

\* The state only moves closed -> open -> half-open -> closed or open, and
\* leaves open only after the timeout, also when several callers pass the
\* unlocked check of Allow together.
StateMoves ==
  [][ \/ state = "closed" /\ state' = "open"
      \/ state = "open" /\ timedOut /\ state' = "half-open"
      \/ state = "half-open" /\ state' \in {"closed", "open"} ]_state

\* While calls keep arriving the breaker does not stay half-open: it closes or
\* opens again.
LeavesHalfOpen == state = "half-open" ~> state # "half-open"

-----------------------------------------------------------------------------
(* What the configuration promises and the code does not keep *)

\* configs/config.yaml: half_open_max_calls.  A half-open period admits at
\* most that many calls.
ProbeLimit == state = "half-open" => probes <= HalfOpenMaxCalls

\* PROMPT.txt: the open breaker is probed and closes again after recovery.
\* Whatever the thresholds, a half-open breaker with no call under way must
\* admit the next one.
CanRecover ==
  state = "half-open" => Working # {} \/ halfOpenCalls < HalfOpenMaxCalls
=============================================================================
