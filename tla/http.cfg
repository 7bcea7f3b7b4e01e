\* A service that answers with JSON objects: slow, unreliable, with two buffers in the pool.
SPECIFICATION Spec
CONSTANTS
  Callers = {c1, c2}
  Keys = {k1, k2}
  Buffers = {b1, b2}
  Formats = {"json"}
  MaxOps = 3
SYMMETRY HTTPSymmetry
INVARIANTS TypeOK OwnBytes
PROPERTIES ImplementsRegister
CHECK_DEADLOCK FALSE
