-------------------------- MODULE HealthChecker_proofs --------------------------
(***************************************************************************)
(* The health checker's promises for any number of overlapping checks and  *)
(* any thresholds.                                                         *)
(***************************************************************************)
EXTENDS HealthChecker, SequenceTheorems, TLAPS

Outcomes == {"ok", "error"}

\* A run that is counted is a run that was reported.
CountsAreRuns ==
  /\ LastAre(consecutiveSuccess, "ok", recent)
  /\ LastAre(consecutiveFailure, "error", recent)

HealthInv == TypeOK /\ FlagFollowsEviction /\ CountsAreRuns

-----------------------------------------------------------------------------

\* The window is as long as the longer threshold.
LEMMA WindowLong ==
  /\ Window \in Nat \ {0}
  /\ FailureThreshold <= Window
  /\ SuccessThreshold <= Window
BY HealthAssumption DEF Window, Larger

\* A report moves the earlier ones back by one place.
LEMMA LogShifts ==
  ASSUME recent \in Seq(Outcomes), Len(recent) <= Window, NEW outcome \in Outcomes, Log(outcome)
  PROVE  /\ recent' \in Seq(Outcomes)
         /\ Len(recent') = Smaller(Window, Len(recent) + 1)
         /\ recent'[1] = outcome
         /\ \A i \in 2 .. Len(recent') : recent'[i] = recent[i - 1]
<1>. DEFINE longer == <<outcome>> \o recent
            keep == Smaller(Window, Len(recent) + 1)
<1>1. /\ longer \in Seq(Outcomes) /\ Len(longer) = Len(recent) + 1
      /\ longer[1] = outcome /\ \A i \in 2 .. Len(longer) : longer[i] = recent[i - 1]
  OBVIOUS
<1>2. keep \in 1 .. Len(longer)
  BY <1>1, WindowLong DEF Smaller
<1>3. /\ SubSeq(longer, 1, keep) \in Seq(Outcomes)
      /\ Len(SubSeq(longer, 1, keep)) = keep
      /\ \A i \in 1 .. keep : SubSeq(longer, 1, keep)[i] = longer[i]
  BY <1>1, <1>2
<1>. QED  BY <1>1, <1>2, <1>3 DEF Log

\* A run of n reports becomes one of n + 1, as far as the threshold goes.
LEMMA RunGrows ==
  ASSUME recent \in Seq(Outcomes), Len(recent) <= Window, NEW outcome \in Outcomes, Log(outcome),
         NEW threshold \in Nat, threshold <= Window, NEW n \in 0 .. threshold, LastAre(n, outcome, recent)
  PROVE  LastAre(Smaller(threshold, n + 1), outcome, recent')
BY LogShifts, WindowLong DEF LastAre, Smaller

\* The invariant holds before the first check.
LEMMA HealthInit == Init => HealthInv
<1>. SUFFICES ASSUME Init PROVE HealthInv
  OBVIOUS
<1>1. /\ recent \in Seq({"ok", "error"}) /\ Len(recent) <= Window
      /\ consecutiveSuccess \in 0 .. SuccessThreshold /\ consecutiveFailure \in 0 .. FailureThreshold
      /\ CountsAreRuns
  BY HealthAssumption, WindowLong DEF Init, CountsAreRuns, LastAre
<1>2. /\ reachable \in BOOLEAN /\ healthy \in BOOLEAN /\ evicted \in BOOLEAN
      /\ FlagFollowsEviction
  BY Zenon DEF Init, FlagFollowsEviction
<1>3. check \in [Checks -> {"idle", "probing", "ok", "error"}]
  BY DEF Init
<1>. QED  BY <1>1, <1>2, <1>3, Zenon DEF HealthInv, TypeOK

\* A success readmits after a run of successes only, and keeps the invariant.
LEMMA SuccessKeeps ==
  ASSUME HealthInv, NEW c \in Checks, ReportSuccess(c)
  PROVE  /\ HealthInv'
         /\ ~(~evicted /\ evicted')
         /\ evicted /\ ~evicted' => LastAre(SuccessThreshold, "ok", recent')
<1>. /\ recent \in Seq(Outcomes) /\ Len(recent) <= Window /\ Log("ok")
     /\ SuccessThreshold \in Nat /\ consecutiveSuccess \in 0 .. SuccessThreshold
  BY HealthAssumption DEF HealthInv, TypeOK, Outcomes, ReportSuccess
<1>1. LastAre(Smaller(SuccessThreshold, consecutiveSuccess + 1), "ok", recent')
  BY RunGrows, WindowLong DEF HealthInv, CountsAreRuns, Outcomes
<1>2. TypeOK'
  <2>1. recent' \in Seq(Outcomes) /\ Len(recent') <= Window
    BY LogShifts, WindowLong DEF Outcomes, Smaller
  <2>2. consecutiveSuccess' \in 0 .. SuccessThreshold /\ consecutiveFailure' \in 0 .. FailureThreshold
    BY HealthAssumption DEF HealthInv, TypeOK, ReportSuccess, CountSuccess, Smaller
  <2>3. reachable' \in BOOLEAN /\ healthy' \in BOOLEAN /\ evicted' \in BOOLEAN
    BY Zenon DEF HealthInv, TypeOK, ReportSuccess, Recovered
  <2>4. check' \in [Checks -> {"idle", "probing", "ok", "error"}]
    BY DEF HealthInv, TypeOK, ReportSuccess
  <2>. QED  BY <2>1, <2>2, <2>3, <2>4, Zenon DEF TypeOK, Outcomes
<1>3. FlagFollowsEviction'
  BY DEF HealthInv, FlagFollowsEviction, ReportSuccess, Recovered
<1>4. CountsAreRuns'
  BY <1>1, LogShifts DEF CountsAreRuns, ReportSuccess, CountSuccess, LastAre, Outcomes
<1>5. evicted /\ ~evicted' => LastAre(SuccessThreshold, "ok", recent')
  <2>1. evicted /\ ~evicted' => consecutiveSuccess + 1 >= SuccessThreshold
    BY Zenon DEF ReportSuccess, Recovered
  <2>2. consecutiveSuccess + 1 >= SuccessThreshold => Smaller(SuccessThreshold, consecutiveSuccess + 1) = SuccessThreshold
    BY DEF Smaller
  <2>. QED  BY <1>1, <2>1, <2>2
<1>6. ~(~evicted /\ evicted')
  BY DEF ReportSuccess, Recovered
<1>. QED  BY <1>2, <1>3, <1>4, <1>5, <1>6 DEF HealthInv

\* A failure evicts after a run of failures only, and keeps the invariant.
LEMMA FailureKeeps ==
  ASSUME HealthInv, NEW c \in Checks, ReportFailure(c)
  PROVE  /\ HealthInv'
         /\ ~evicted /\ evicted' => LastAre(FailureThreshold, "error", recent')
         /\ ~(evicted /\ ~evicted')
<1>. /\ recent \in Seq(Outcomes) /\ Len(recent) <= Window /\ Log("error")
     /\ FailureThreshold \in Nat /\ consecutiveFailure \in 0 .. FailureThreshold
  BY HealthAssumption DEF HealthInv, TypeOK, Outcomes, ReportFailure
<1>1. LastAre(Smaller(FailureThreshold, consecutiveFailure + 1), "error", recent')
  BY RunGrows, WindowLong DEF HealthInv, CountsAreRuns, Outcomes
<1>2. TypeOK'
  <2>1. recent' \in Seq(Outcomes) /\ Len(recent') <= Window
    BY LogShifts, WindowLong DEF Outcomes, Smaller
  <2>2. consecutiveSuccess' \in 0 .. SuccessThreshold /\ consecutiveFailure' \in 0 .. FailureThreshold
    BY HealthAssumption DEF HealthInv, TypeOK, ReportFailure, CountFailure, Smaller
  <2>3. reachable' \in BOOLEAN /\ healthy' \in BOOLEAN /\ evicted' \in BOOLEAN
    BY Zenon DEF HealthInv, TypeOK, ReportFailure, Failed
  <2>4. check' \in [Checks -> {"idle", "probing", "ok", "error"}]
    BY DEF HealthInv, TypeOK, ReportFailure
  <2>. QED  BY <2>1, <2>2, <2>3, <2>4, Zenon DEF TypeOK, Outcomes
<1>3. FlagFollowsEviction'
  BY DEF HealthInv, FlagFollowsEviction, ReportFailure, Failed
<1>4. CountsAreRuns'
  BY <1>1, LogShifts DEF CountsAreRuns, ReportFailure, CountFailure, LastAre, Outcomes
<1>5. ~evicted /\ evicted' => LastAre(FailureThreshold, "error", recent')
  <2>1. ~evicted /\ evicted' => consecutiveFailure + 1 >= FailureThreshold
    BY Zenon DEF ReportFailure, Failed
  <2>2. consecutiveFailure + 1 >= FailureThreshold => Smaller(FailureThreshold, consecutiveFailure + 1) = FailureThreshold
    BY DEF Smaller
  <2>. QED  BY <1>1, <2>1, <2>2
<1>6. ~(evicted /\ ~evicted')
  BY DEF ReportFailure, Failed
<1>. QED  BY <1>2, <1>3, <1>4, <1>5, <1>6 DEF HealthInv

\* Starting a check, probing and the backend itself leave the counts alone.
LEMMA ProbeKeeps ==
  ASSUME HealthInv, Flip \/ (\E c \in Checks : StartCheck(c) \/ Probe(c)) \/ UNCHANGED vars
  PROVE  HealthInv' /\ evicted' = evicted
<1>1. CASE Flip
  BY <1>1 DEF Flip, HealthInv, TypeOK, FlagFollowsEviction, CountsAreRuns
<1>2. ASSUME NEW c \in Checks, StartCheck(c) \/ Probe(c) PROVE HealthInv' /\ evicted' = evicted
  <2>1. TypeOK'
    BY <1>2 DEF StartCheck, Probe, HealthInv, TypeOK
  <2>2. FlagFollowsEviction' /\ CountsAreRuns' /\ evicted' = evicted
    BY <1>2, HealthAssumption DEF StartCheck, Probe, HealthInv, FlagFollowsEviction, CountsAreRuns
  <2>. QED  BY <2>1, <2>2 DEF HealthInv
<1>3. CASE UNCHANGED vars
  BY <1>3 DEF vars, HealthInv, TypeOK, FlagFollowsEviction, CountsAreRuns
<1>. QED  BY <1>1, <1>2, <1>3

\* Every step keeps the invariant, and changes sides on a run of reports only.
LEMMA HealthStep ==
  ASSUME HealthInv, [Next]_vars
  PROVE  /\ HealthInv'
         /\ ~evicted /\ evicted' => LastAre(FailureThreshold, "error", recent')
         /\ evicted /\ ~evicted' => LastAre(SuccessThreshold, "ok", recent')
<1>1. CASE \E c \in Checks : ReportSuccess(c)
  BY <1>1, SuccessKeeps
<1>2. CASE \E c \in Checks : ReportFailure(c)
  BY <1>2, FailureKeeps
<1>3. CASE Flip \/ (\E c \in Checks : StartCheck(c) \/ Probe(c)) \/ UNCHANGED vars
  BY <1>3, ProbeKeeps
<1>. QED  BY <1>1, <1>2, <1>3 DEF Next, Check

\* With TCP checks the flag the router reads is the negation of the evicted
\* set, however the checks overlap (healthchecker.go:169-208).
THEOREM HealthFlagFollows == Spec => []FlagFollowsEviction
<1>1. HealthInv => FlagFollowsEviction
  BY DEF HealthInv
<1>2. HealthInv /\ [Next]_vars => HealthInv'
  BY HealthStep
<1>. QED  BY HealthInit, <1>1, <1>2, PTL DEF Spec

\* A backend is evicted on FailureThreshold failures in a row and readmitted on
\* SuccessThreshold successes in a row, and never otherwise.
THEOREM HealthSidesChangeOnRuns == Spec => SidesChangeOnRuns
<1>1. HealthInv /\ [Next]_vars =>
        [ /\ ~evicted /\ evicted' => LastAre(FailureThreshold, "error", recent')
          /\ evicted /\ ~evicted' => LastAre(SuccessThreshold, "ok", recent') ]_vars
  BY HealthStep
<1>2. HealthInv /\ [Next]_vars => HealthInv'
  BY HealthStep
<1>. QED  BY HealthInit, <1>1, <1>2, PTL DEF Spec, SidesChangeOnRuns
=============================================================================
