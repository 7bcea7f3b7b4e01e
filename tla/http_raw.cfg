\* A service that answers with the bytes themselves.
SPECIFICATION Spec
CONSTANTS
  Callers = {c1, c2}
  Keys = {k1, k2}
  Buffers = {b1, b2}
  Formats = {"raw"}
  MaxOps = 3
SYMMETRY HTTPSymmetry
INVARIANTS OwnBytes
CHECK_DEADLOCK FALSE
