\* A key whose halves expire separately, a Redis that delays, refuses and answers late.
SPECIFICATION Spec
CONSTANTS
  Callers = {c1, c2}
  Keys = {k1}
  MaxOps = 4
SYMMETRY RedisSymmetry
INVARIANTS VersionOfItsValue
PROPERTIES ImplementsRegister
CHECK_DEADLOCK FALSE
