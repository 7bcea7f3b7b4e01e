---------------------------- MODULE GuardedCall ----------------------------
(***************************************************************************)
(* How internal/cache/cache.go calls a backend through its breaker: it     *)
(* runs Execute around a function that does nothing and returns nil, and   *)
(* calls the backend after Execute has returned.  Get, setCacheAside,      *)
(* setWriteThrough, setPassthrough and Delete all do it this way.          *)
(***************************************************************************)
EXTENDS CircuitBreaker

CONSTANT MaxFailures  \* failuresInARow counts up to this

VARIABLES
  calling,        \* calling[c]: c has passed Execute and calls the backend
  rejected,       \* history: ErrCircuitOpen was returned to some caller
  failuresInARow  \* history: failed calls of the backend since the last success

guardVars == <<vars, calling, rejected, failuresInARow>>

GuardedInit ==
  /\ Init
  /\ calling = [c \in Callers |-> FALSE]
  /\ rejected = FALSE
  /\ failuresInARow = 0

\* fn() returned nil: Execute records a success and returns to cache.go.
ExecuteReturns(c) ==
  /\ RecordSuccess(c)
  /\ calling' = [calling EXCEPT ![c] = TRUE]
  /\ UNCHANGED <<rejected, failuresInARow>>

\* Allow, with the answer false at any of its places.
Ask(c) ==
  /\ ~calling[c]
  /\ ReadState(c) \/ CheckTimeout(c) \/ Transition(c) \/ Reread(c) \/ TryHalfOpen(c)
  /\ rejected' = (rejected \/ pc'[c] = "idle")
  /\ UNCHANGED <<calling, failuresInARow>>

\* The call of the backend, and its answer; the breaker is told nothing.
CallBackend(c) ==
  /\ calling[c]
  /\ calling' = [calling EXCEPT ![c] = FALSE]
  /\ \/ failuresInARow' = 0
     \/ failuresInARow < MaxFailures /\ failuresInARow' = failuresInARow + 1
  /\ UNCHANGED <<vars, rejected>>

ClockAdvances == TimeoutElapses /\ UNCHANGED <<calling, rejected, failuresInARow>>

GuardedNext ==
  \/ ClockAdvances
  \/ \E c \in Callers : Ask(c) \/ ExecuteReturns(c) \/ CallBackend(c)

GuardedSpec == GuardedInit /\ [][GuardedNext]_guardVars

-----------------------------------------------------------------------------

\* As cache.go uses it, the breaker admits every call whatever the backend
\* answers: the models of the cache service may leave it out.
AdmitsEveryCall == ~rejected /\ state = "closed"

-----------------------------------------------------------------------------
(* Documents promise, and the code does not keep: AdmitsEveryCall excludes it. *)

\* PROMPT.txt:13, a backend that fails FailureThreshold times in a row is cut
\* off: no further call is under way with the breaker closed.
OpensOnFailures ==
  failuresInARow >= FailureThreshold => state # "closed"
=============================================================================
