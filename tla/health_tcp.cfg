\* TCP checks, two at a time, thresholds of configs/config.yaml.
SPECIFICATION FairSpec
CONSTANTS
  Checks = {c1, c2}
  CheckType = "tcp"
  FailureThreshold = 3
  SuccessThreshold = 2
INVARIANTS FlagFollowsEviction
PROPERTIES SidesChangeOnRuns DownIsTakenOut UpIsPutBack
