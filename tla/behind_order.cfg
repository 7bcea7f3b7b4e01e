\* One sequential client whose writes may be refused once.
SPECIFICATION Spec
CONSTANTS
  Clients = {c1}
  Keys = {k1}
  QueueSize = 2
  BatchSize = 2
  MaxRetry = 1
  MaxOps = 2
  Kinds = {"set"}
  Outcomes = {"stored", "refused"}
INVARIANTS AgreeWhenQuiet
CHECK_DEADLOCK FALSE
