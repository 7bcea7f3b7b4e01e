\* Two clients, a queue of one, batches of two, one retry; Close at any time.
SPECIFICATION FairSpec
CONSTANTS
  Clients = {c1, c2}
  Keys = {k1}
  QueueSize = 1
  BatchSize = 2
  MaxRetry = 1
  MaxOps = 3
  Kinds = {"set", "delete"}
  Outcomes = {"stored", "refused"}
INVARIANTS TypeOK Accounted RetriesBounded FirstTriesInOrder DrainedOnClose
PROPERTIES Settles CloseReturns
CHECK_DEADLOCK FALSE
