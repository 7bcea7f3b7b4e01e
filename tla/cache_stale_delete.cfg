\* One sequential client that deletes what it has read.
SPECIFICATION Spec
CONSTANTS
  local = local
  redis = redis
  http = http
  k1 = k1
  Procs = {p1}
  Backends = {local, redis}
  Local = local
  Keys <- MCKeys
  Hints = {}
  NoHint = NoHint
  Weight <- MCWeight
  RuleConfigs = {}
  HintConfigs = {}
  Rules <- RedisRule
  Flaky = {}
  MaxOps = 4
  Events = {"get", "set", "delete"}
  Modes = {"cache-aside"}
  BigValues = {FALSE}
  Versions = {0}
  EnableVersioning = TRUE
INVARIANTS FreshAfterDelete
CHECK_DEADLOCK FALSE
