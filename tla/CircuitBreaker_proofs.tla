----------------------- MODULE CircuitBreaker_proofs -----------------------
(***************************************************************************)
(* Proofs about CircuitBreaker, for every set of callers and every value   *)
(* of the three thresholds, and about GuardedCall, the breaker as cache.go *)
(* calls it.                                                               *)
(***************************************************************************)
EXTENDS GuardedCall, FiniteSetTheorems, TLAPS

\* The sets of callers the invariant counts are finite.
LEMMA WorkingOpeningFinite ==
  /\ IsFiniteSet(Callers) /\ Cardinality(Callers) \in Nat
  /\ IsFiniteSet(Working) /\ Cardinality(Working) \in Nat
  /\ IsFiniteSet(Opening) /\ Cardinality(Opening) \in Nat
  /\ Cardinality(Opening) <= Cardinality(Callers)
<1>1. IsFiniteSet(Callers)
  BY BreakerAssumption
<1>2. Working \in SUBSET Callers /\ Opening \in SUBSET Callers
  BY DEF Working, Opening
<1>3. QED
  BY <1>1, <1>2, FS_Subset, FS_CardinalityType

\* The same facts in the next state.
LEMMA WorkingOpeningFiniteNext ==
  /\ IsFiniteSet(Working') /\ Cardinality(Working') \in Nat
  /\ IsFiniteSet(Opening') /\ Cardinality(Opening') \in Nat
  /\ Cardinality(Opening') <= Cardinality(Callers)
<1>1. IsFiniteSet(Callers)
  BY BreakerAssumption
<1>2. Working' \in SUBSET Callers /\ Opening' \in SUBSET Callers
  BY DEF Working, Opening
<1>3. QED
  BY <1>1, <1>2, FS_Subset, FS_CardinalityType

\* Replacing nothing, adding one or removing one caller changes a count by
\* at most one: the only arithmetic of sets the invariant needs.
LEMMA CountAdd ==
  ASSUME NEW S, NEW T, NEW c, IsFiniteSet(S), c \notin S, T = S \cup {c}
  PROVE  Cardinality(T) = Cardinality(S) + 1
BY FS_AddElement

\* The same for one caller that leaves.
LEMMA CountRemove ==
  ASSUME NEW S, NEW T, NEW c, IsFiniteSet(S), c \in S, T = S \ {c}
  PROVE  Cardinality(T) = Cardinality(S) - 1
BY FS_RemoveElement

\* A goroutine that moves from one label of Execute to another enters or
\* leaves Working and Opening as its two labels say.
LEMMA MoveWorking ==
  ASSUME TypeOK, NEW c \in Callers, NEW l \in Labels, Goto(c, l)
  PROVE  /\ pc[c] \in {"reread", "running"} /\ l \notin {"reread", "running"}
              => Cardinality(Working') = Cardinality(Working) - 1
         /\ pc[c] \notin {"reread", "running"} /\ l \in {"reread", "running"}
              => Cardinality(Working') = Cardinality(Working) + 1
         /\ (pc[c] \in {"reread", "running"} <=> l \in {"reread", "running"})
              => Working' = Working
<1>1. /\ pc' = [pc EXCEPT ![c] = l]
      /\ pc \in [Callers -> Labels]
  BY DEF Goto, TypeOK
<1>2. IsFiniteSet(Working)
  BY WorkingOpeningFinite
<1>3. ASSUME pc[c] \in {"reread", "running"}, l \notin {"reread", "running"}
      PROVE  Cardinality(Working') = Cardinality(Working) - 1
  <2>1. c \in Working /\ Working' = Working \ {c}
    BY <1>1, <1>3 DEF Working
  <2>2. QED
    BY <1>2, <2>1, CountRemove
<1>4. ASSUME pc[c] \notin {"reread", "running"}, l \in {"reread", "running"}
      PROVE  Cardinality(Working') = Cardinality(Working) + 1
  <2>1. c \notin Working /\ Working' = Working \cup {c}
    BY <1>1, <1>4 DEF Working
  <2>2. QED
    BY <1>2, <2>1, CountAdd
<1>5. ASSUME pc[c] \in {"reread", "running"} <=> l \in {"reread", "running"}
      PROVE  Working' = Working
  BY <1>1, <1>5 DEF Working
<1>6. QED
  BY <1>3, <1>4, <1>5

\* The same for Opening, which no step but ReadState enters.
LEMMA MoveOpening ==
  ASSUME TypeOK, NEW c \in Callers, NEW l \in Labels, Goto(c, l)
  PROVE  /\ pc[c] \in {"openCheck", "transition", "reread"}
            /\ l \notin {"openCheck", "transition", "reread"}
              => Cardinality(Opening') = Cardinality(Opening) - 1
         /\ (pc[c] \in {"openCheck", "transition", "reread"}
               <=> l \in {"openCheck", "transition", "reread"})
              => Opening' = Opening
<1>1. /\ pc' = [pc EXCEPT ![c] = l]
      /\ pc \in [Callers -> Labels]
  BY DEF Goto, TypeOK
<1>2. IsFiniteSet(Opening)
  BY WorkingOpeningFinite
<1>3. ASSUME pc[c] \in {"openCheck", "transition", "reread"},
             l \notin {"openCheck", "transition", "reread"}
      PROVE  Cardinality(Opening') = Cardinality(Opening) - 1
  <2>1. c \in Opening /\ Opening' = Opening \ {c}
    BY <1>1, <1>3 DEF Opening
  <2>2. QED
    BY <1>2, <2>1, CountRemove
<1>4. ASSUME pc[c] \in {"openCheck", "transition", "reread"}
               <=> l \in {"openCheck", "transition", "reread"}
      PROVE  Opening' = Opening
  BY <1>1, <1>4 DEF Opening
<1>5. QED
  BY <1>3, <1>4

-----------------------------------------------------------------------------
(* The inductive invariant *)

\* The breaker of NewCircuitBreaker satisfies the invariant.
LEMMA InitIInv == Init => IInv
<1> SUFFICES ASSUME Init PROVE IInv
  OBVIOUS
<1>1. TypeOK
  BY DEF Init, TypeOK, Labels, States
<1>2. CountersFitState
  BY DEF Init, CountersFitState
<1>3. halfOpenCalls <= HalfOpenMaxCalls
  BY BreakerAssumption DEF Init
<1>4. state # "half-open"
  BY DEF Init
<1>5. QED
  BY <1>1, <1>2, <1>3, <1>4 DEF IInv, ProbesBounded

\* setState restarts the clock in whatever state it enters.
LEMMA SetStateTypes ==
  ASSUME NEW s \in States, SetState(s)
  PROVE  state' = s /\ state' \in States /\ timedOut' \in BOOLEAN
BY Zenon DEF SetState

\* Part one: types and counters, which no count of callers disturbs.
LEMMA StepTypeCounters ==
  ASSUME TypeOK, CountersFitState, halfOpenCalls <= HalfOpenMaxCalls, [Next]_vars
  PROVE  TypeOK' /\ CountersFitState' /\ (halfOpenCalls <= HalfOpenMaxCalls)'
<1> USE BreakerAssumption DEF TypeOK, CountersFitState, counters, States
<1>1. CASE TimeoutElapses
  BY <1>1 DEF TimeoutElapses
<1>2. ASSUME NEW c \in Callers, Execute(c)
      PROVE  TypeOK' /\ CountersFitState' /\ (halfOpenCalls <= HalfOpenMaxCalls)'
  <2>1. CASE ReadState(c)
    BY <2>1 DEF ReadState, Goto, Labels
  <2>2. CASE CheckTimeout(c)
    BY <2>2 DEF CheckTimeout, Goto, Labels
  <2>3. CASE Transition(c)
    <3>1. pc' \in [Callers -> Labels]
      BY <2>3 DEF Transition, Goto, Labels
    <3>2. CASE StillOpen
      <4>1. SetState("half-open")
        BY <2>3, <3>2 DEF Transition
      <4>2. QED
        BY <2>3, <3>1, <3>2, <4>1, SetStateTypes DEF Transition, StillOpen
    <3>3. CASE ~StillOpen
      BY <2>3, <3>1, <3>3 DEF Transition
    <3>4. QED
      BY <3>2, <3>3
  <2>4. CASE Reread(c)
    BY <2>4 DEF Reread, CountProbe, Goto, Labels
  <2>5. CASE TryHalfOpen(c)
    BY <2>5 DEF TryHalfOpen, Budget, CountProbe, Goto, Labels
  <2>6. CASE RecordSuccess(c)
    <3>1. pc' \in [Callers -> Labels]
      BY <2>6 DEF RecordSuccess, Goto, Labels
    <3>2. CASE state = "closed"
      BY <2>6, <3>1, <3>2 DEF RecordSuccess
    <3>3. CASE state = "open"
      BY <2>6, <3>1, <3>3 DEF RecordSuccess
    <3>4. CASE state = "half-open" /\ successCount + 1 >= SuccessThreshold
      <4>1. SetState("closed") /\ failureCount' = 0 /\ successCount' = 0 /\ halfOpenCalls' = 0
        BY <2>6, <3>4 DEF RecordSuccess, Close
      <4>2. QED
        BY <2>6, <3>1, <4>1, SetStateTypes DEF RecordSuccess
    <3>5. CASE state = "half-open" /\ successCount + 1 < SuccessThreshold
      BY <2>6, <3>1, <3>5 DEF RecordSuccess, CountSuccess
    <3>6. QED
      BY <3>2, <3>3, <3>4, <3>5
  <2>7. CASE RecordFailure(c)
    <3>1. pc' \in [Callers -> Labels]
      BY <2>7 DEF RecordFailure, Goto, Labels
    <3>2. CASE state = "closed" /\ failureCount + 1 >= FailureThreshold
      <4>1. SetState("open") /\ failureCount' = failureCount + 1
        BY <2>7, <3>2 DEF RecordFailure
      <4>2. QED
        BY <2>7, <3>1, <3>2, <4>1, SetStateTypes DEF RecordFailure
    <3>3. CASE state = "closed" /\ failureCount + 1 < FailureThreshold
      BY <2>7, <3>1, <3>3 DEF RecordFailure
    <3>4. CASE state = "open"
      BY <2>7, <3>1, <3>4 DEF RecordFailure
    <3>5. CASE state = "half-open"
      <4>1. /\ SetState("open") /\ failureCount' = FailureThreshold
            /\ successCount' = 0 /\ halfOpenCalls' = 0
        BY <2>7, <3>5 DEF RecordFailure, Reopen
      <4>2. QED
        BY <2>7, <3>1, <4>1, SetStateTypes DEF RecordFailure
    <3>6. QED
      BY <3>2, <3>3, <3>4, <3>5
  <2>8. QED
    BY <1>2, <2>1, <2>2, <2>3, <2>4, <2>5, <2>6, <2>7 DEF Execute
<1>3. CASE UNCHANGED vars
  BY <1>3 DEF vars
<1>4. QED
  BY <1>1, <1>2, <1>3 DEF Next

\* Part two: the two accounts of a half-open period.
Accounts ==
  state = "half-open" =>
    /\ probes + Cardinality(Opening) <= halfOpenCalls + Cardinality(Callers)
    /\ halfOpenCalls + 1 <= successCount + Cardinality(Working)

\* Every step keeps the accounts: a probe not paid for by the budget is paid
\* for by a caller that leaves Opening.
LEMMA StepAccounts ==
  ASSUME TypeOK, Accounts, [Next]_vars
  PROVE  Accounts'
<1> USE WorkingOpeningFinite, WorkingOpeningFiniteNext
<1>1. CASE TimeoutElapses
  <2>1. Working' = Working /\ Opening' = Opening
    BY <1>1 DEF TimeoutElapses, Working, Opening
  <2>2. QED
    BY <1>1, <2>1 DEF TimeoutElapses, counters, Accounts
<1>2. ASSUME NEW c \in Callers, Execute(c)
      PROVE  Accounts'
  <2>1. CASE ReadState(c)
    <3>1. CASE state = "half-open"
      <4>1. pc[c] = "idle" /\ Goto(c, "halfOpen")
        BY <2>1, <3>1 DEF ReadState
      <4>2. Working' = Working /\ Opening' = Opening
        BY <4>1, MoveWorking, MoveOpening DEF Labels
      <4>3. QED
        BY <2>1, <4>2 DEF ReadState, counters, Accounts
    <3>2. CASE state # "half-open"
      BY <2>1, <3>2 DEF ReadState, Accounts
    <3>3. QED
      BY <3>1, <3>2
  <2>2. CASE CheckTimeout(c)
    <3>1. /\ Working' = Working
          /\ Opening' = Opening \/ Cardinality(Opening') = Cardinality(Opening) - 1
      <4>1. PICK l \in {"transition", "idle"} : Goto(c, l)
        BY <2>2 DEF CheckTimeout
      <4>2. pc[c] = "openCheck"
        BY <2>2 DEF CheckTimeout
      <4>3. QED
        BY <4>1, <4>2, MoveWorking, MoveOpening DEF Labels
    <3>2. QED
      BY <2>2, <3>1 DEF CheckTimeout, counters, Accounts, TypeOK
  <2>3. CASE Transition(c)
    <3>1. pc[c] = "transition" /\ Goto(c, "reread")
      BY <2>3 DEF Transition
    <3>2. /\ Cardinality(Working') = Cardinality(Working) + 1
          /\ Opening' = Opening
      BY <3>1, MoveWorking, MoveOpening DEF Labels
    <3>3. CASE StillOpen
      BY <2>3, <3>2, <3>3 DEF Transition, Accounts, TypeOK
    <3>4. CASE ~StillOpen
      BY <2>3, <3>2, <3>4 DEF Transition, Accounts, TypeOK
    <3>5. QED
      BY <3>3, <3>4
  <2>4. CASE Reread(c)
    <3>1. CASE state = "half-open"
      <4>1. pc[c] = "reread" /\ Goto(c, "running")
        BY <2>4, <3>1 DEF Reread
      <4>2. /\ Working' = Working
            /\ Cardinality(Opening') = Cardinality(Opening) - 1
        BY <4>1, MoveWorking, MoveOpening DEF Labels
      <4>3. QED
        BY <2>4, <3>1, <4>2 DEF Reread, CountProbe, counters, Accounts, TypeOK
    <3>2. CASE state # "half-open"
      BY <2>4, <3>2 DEF Reread, Accounts
    <3>3. QED
      BY <3>1, <3>2
  <2>5. CASE TryHalfOpen(c)
    <3>1. CASE Budget
      <4>1. pc[c] = "halfOpen" /\ Goto(c, "running")
        BY <2>5, <3>1 DEF TryHalfOpen
      <4>2. /\ Cardinality(Working') = Cardinality(Working) + 1
            /\ Opening' = Opening
        BY <4>1, MoveWorking, MoveOpening DEF Labels
      <4>3. QED
        BY <2>5, <3>1, <4>2 DEF TryHalfOpen, CountProbe, Accounts, TypeOK
    <3>2. CASE ~Budget
      <4>1. pc[c] = "halfOpen" /\ Goto(c, "idle")
        BY <2>5, <3>2 DEF TryHalfOpen
      <4>2. Working' = Working /\ Opening' = Opening
        BY <4>1, MoveWorking, MoveOpening DEF Labels
      <4>3. QED
        BY <2>5, <3>2, <4>2 DEF TryHalfOpen, Accounts
    <3>3. QED
      BY <3>1, <3>2
  <2>6. CASE RecordSuccess(c)
    <3>1. pc[c] = "running" /\ Goto(c, "idle")
      BY <2>6 DEF RecordSuccess
    <3>2. /\ Cardinality(Working') = Cardinality(Working) - 1
          /\ Opening' = Opening
      BY <3>1, MoveWorking, MoveOpening DEF Labels
    <3>3. QED
      BY <2>6, <3>2 DEF RecordSuccess, Close, CountSuccess, SetState, counters, Accounts, TypeOK
  <2>7. CASE RecordFailure(c)
    <3>1. state' # "half-open"
      BY <2>7 DEF RecordFailure, Reopen, SetState
    <3>2. QED
      BY <3>1 DEF Accounts
  <2>8. QED
    BY <1>2, <2>1, <2>2, <2>3, <2>4, <2>5, <2>6, <2>7 DEF Execute
<1>3. CASE UNCHANGED vars
  <2>1. Working' = Working /\ Opening' = Opening
    BY <1>3 DEF vars, Working, Opening
  <2>2. QED
    BY <1>3, <2>1 DEF vars, counters, Accounts
<1>4. QED
  BY <1>1, <1>2, <1>3 DEF Next

\* Every step of every caller keeps it.
LEMMA StepIInv == IInv /\ [Next]_vars => IInv'
  BY StepTypeCounters, StepAccounts DEF IInv, Accounts, ProbesBounded

\* Every reachable state of the breaker satisfies the inductive invariant.
THEOREM BreakerInvariant == Spec => []IInv
  BY InitIInv, StepIInv, PTL DEF Spec

\* The breaker's variables keep their types.
THEOREM BreakerTypeOK == Spec => []TypeOK
<1>1. IInv => TypeOK
  BY DEF IInv
<1>2. QED
  BY <1>1, BreakerInvariant, PTL

\* What RecordSuccess, RecordFailure and Allow leave in the counters fits the
\* state they leave, however they interleave.
THEOREM BreakerCounters == Spec => []CountersFitState
<1>1. IInv => CountersFitState
  BY DEF IInv
<1>2. QED
  BY <1>1, BreakerInvariant, PTL

\* The budget of a half-open period is never overdrawn, and every call admitted
\* outside it is a goroutine that came through the uncounted StateOpen branch of
\* Allow.
THEOREM BreakerProbesBounded == Spec => []ProbesBounded
<1>1. IInv => ProbesBounded
  BY DEF IInv
<1>2. QED
  BY <1>1, BreakerInvariant, PTL

\* Hence one half-open period admits at most HalfOpenMaxCalls calls and one for
\* each goroutine: what half_open_max_calls is worth in the code.
THEOREM BreakerProbesAtMost ==
  Spec => [](state = "half-open" => probes <= HalfOpenMaxCalls + Cardinality(Callers))
<1>1. IInv => (state = "half-open" => probes <= HalfOpenMaxCalls + Cardinality(Callers))
  BY WorkingOpeningFinite, BreakerAssumption DEF IInv, TypeOK, ProbesBounded
<1>2. QED
  BY <1>1, BreakerInvariant, PTL

\* With SuccessThreshold <= HalfOpenMaxCalls + 1 a half-open breaker cannot
\* run out of ways to close or open again.
THEOREM BreakerHasWayOut == Spec => []HalfOpenHasWayOut
<1>1. IInv => HalfOpenHasWayOut
  <2>1. SUFFICES ASSUME IInv, SuccessThreshold <= HalfOpenMaxCalls + 1,
                        state = "half-open", Working = {}
                 PROVE  halfOpenCalls < HalfOpenMaxCalls
    BY DEF HalfOpenHasWayOut
  <2>2. Cardinality(Working) = 0
    BY <2>1, FS_EmptySet
  <2>3. QED
    BY <2>1, <2>2, BreakerAssumption DEF IInv, TypeOK, CountersFitState, ProbesBounded
<1>2. QED
  BY <1>1, BreakerInvariant, PTL

\* The state moves along closed, open, half-open only, and leaves open only
\* after the timeout: the check of Allow under the lock makes the unlocked
\* ones harmless.
THEOREM BreakerStateMoves == Spec => StateMoves
<1>1. TypeOK /\ [Next]_vars =>
        [ \/ state = "closed" /\ state' = "open"
          \/ state = "open" /\ timedOut /\ state' = "half-open"
          \/ state = "half-open" /\ state' \in {"closed", "open"} ]_state
  BY DEF TypeOK, States, Next, vars, Execute, TimeoutElapses, ReadState,
         CheckTimeout, Transition, StillOpen, Reread, TryHalfOpen, RecordSuccess,
         RecordFailure, Close, CountSuccess, Reopen, SetState
<1>2. QED
  BY <1>1, BreakerTypeOK, PTL DEF Spec, StateMoves

-----------------------------------------------------------------------------
(* The breaker as cache.go calls it admits every call: for any callers, any *)
(* thresholds and any failures of the backend.                              *)

\* The invariant: a closed breaker with no failure counted sends every caller
\* of Allow straight to "running", so no caller is ever in the branches of the
\* open and the half-open state.
GInv ==
  /\ state = "closed"
  /\ failureCount = 0
  /\ pc \in [Callers -> {"idle", "running"}]
  /\ rejected = FALSE

\* A new breaker is closed and nobody has been rejected.
LEMMA InitGInv == GuardedInit => GInv
  BY DEF GuardedInit, Init, GInv

\* In a closed breaker Allow only reads the state and returns true.
LEMMA AskGInv ==
  ASSUME GInv, NEW c \in Callers, Ask(c)
  PROVE  GInv'
<1>1. pc[c] \in {"idle", "running"} /\ state = "closed"
  BY DEF GInv
<1>2. ReadState(c)
  BY <1>1 DEF Ask, CheckTimeout, Transition, Reread, TryHalfOpen
<1>3. /\ Goto(c, "running")
      /\ UNCHANGED <<state, counters>>
  BY <1>1, <1>2 DEF ReadState
<1>4. pc' \in [Callers -> {"idle", "running"}] /\ pc'[c] = "running"
  BY <1>3 DEF GInv, Goto
<1>5. rejected' = FALSE
  BY <1>4 DEF Ask, GInv
<1>6. QED
  BY <1>3, <1>4, <1>5 DEF GInv, counters

\* The function that Execute runs returns nil, and a success of a closed
\* breaker resets its failures.
LEMMA ReturnGInv ==
  ASSUME GInv, NEW c \in Callers, ExecuteReturns(c)
  PROVE  GInv'
<1>1. RecordSuccess(c) /\ rejected' = rejected
  BY DEF ExecuteReturns
<1>2. state' = "closed" /\ failureCount' = 0
  BY <1>1 DEF RecordSuccess, GInv
<1>3. pc' \in [Callers -> {"idle", "running"}]
  BY <1>1 DEF RecordSuccess, Goto, GInv
<1>4. QED
  BY <1>1, <1>2, <1>3 DEF GInv

\* Every step keeps the invariant; the call of the backend and its failures
\* do not touch the breaker.
LEMMA StepGInv == GInv /\ [GuardedNext]_guardVars => GInv'
<1> SUFFICES ASSUME GInv, [GuardedNext]_guardVars
             PROVE  GInv'
  OBVIOUS
<1>1. CASE ClockAdvances
  BY <1>1 DEF ClockAdvances, TimeoutElapses, counters, GInv
<1>2. ASSUME NEW c \in Callers, Ask(c)
      PROVE  GInv'
  BY <1>2, AskGInv
<1>3. ASSUME NEW c \in Callers, ExecuteReturns(c)
      PROVE  GInv'
  BY <1>3, ReturnGInv
<1>4. ASSUME NEW c \in Callers, CallBackend(c)
      PROVE  GInv'
  BY <1>4 DEF CallBackend, vars, counters, GInv
<1>5. CASE UNCHANGED guardVars
  BY <1>5 DEF guardVars, vars, counters, GInv
<1>6. QED
  BY <1>1, <1>2, <1>3, <1>4, <1>5 DEF GuardedNext

\* As cache.go uses it, no failure of a backend reaches the breaker: it stays
\* closed and refuses nobody.
THEOREM GuardedAdmitsEveryCall == GuardedSpec => []AdmitsEveryCall
<1>1. GInv => AdmitsEveryCall
  BY DEF GInv, AdmitsEveryCall
<1>2. QED
  BY <1>1, InitGInv, StepGInv, PTL DEF GuardedSpec
=============================================================================
