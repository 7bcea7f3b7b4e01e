\* SuccessThreshold = HalfOpenMaxCalls + 1: the most a half-open period can earn.
\* No symmetry: the run checks a liveness property.
SPECIFICATION FairSpec
CONSTANTS
  Callers = {c1, c2, c3}
  FailureThreshold = 2
  SuccessThreshold = 2
  HalfOpenMaxCalls = 1
INVARIANTS ProbesBounded IInv HalfOpenHasWayOut
PROPERTIES StateMoves LeavesHalfOpen
