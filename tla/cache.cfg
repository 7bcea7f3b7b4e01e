\* Two flaky backends and values over the size limit.
SPECIFICATION Spec
CONSTANTS
  local = local
  redis = redis
  http = http
  k1 = k1
  Procs = {p1, p2}
  Backends = {local, redis, http}
  Local = local
  Keys <- MCKeys
  Hints = {}
  NoHint = NoHint
  Weight <- MCWeight
  RuleConfigs = {}
  HintConfigs = {}
  Rules <- MasterSlaveRules
  Flaky = {redis, http}
  MaxOps = 2
  Events = {"get", "set", "delete", "expire", "invalidate"}
  Modes = {"cache-aside", "write-through"}
  BigValues = {FALSE, TRUE}
  Versions = {0, 1}
  EnableVersioning = TRUE
SYMMETRY ProcSymmetry
INVARIANTS TypeOK NoDirtyRead NoFalseMiss BigStaysOut RefusedStaysLocal
PROPERTIES ReadsByPriority
CHECK_DEADLOCK FALSE
