SPECIFICATION Spec
CONSTANTS
  Conn = {c1}
  Request = {q1, q2}
  Fickle = {c1}
  Cap = 3
  MaxFrames = 1
INVARIANT CloseIsIdempotent
CHECK_DEADLOCK FALSE
