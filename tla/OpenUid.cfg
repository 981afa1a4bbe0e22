SPECIFICATION Spec
CONSTANTS
  Conn = {a, b, c}
  uid <- OwnUid
  QLEN = 2
  NALLOC = 1
CHECK_DEADLOCK FALSE
SYMMETRY Symmetric
INVARIANTS UidRight
