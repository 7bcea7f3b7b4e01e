\* Three callers, five calls.
SPECIFICATION Spec
CONSTANTS
  Procs = {p1, p2, p3}
  MaxOps = 5
  Kinds = {"get", "set", "delete"}
SYMMETRY CallerSymmetry
INVARIANTS VersionNotBehind
CHECK_DEADLOCK FALSE
