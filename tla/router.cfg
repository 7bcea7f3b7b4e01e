\* Every table of three backends, and every lookup while their flags move.
SPECIFICATION LookupSpec
CONSTANTS
  local = local
  redis = redis
  http = http
  user = user
  order = order
  NoHint = NoHint
  Backends <- MCBackends
  Keys <- MCKeys
  Hints = {tag}
  MaxList = 3
  Weight <- MCWeight
  RuleConfigs <- MCRuleConfigs
  HintConfigs <- MCHintConfigs
INVARIANTS
  NoBackendTwice FailsOnlyWhenAllDown ReadsWhereItWrites SpreadsFairly
  PriorityDecides AgreesWhenSteady HidesOnlyItsOwn PassesOverNone
