SPECIFICATION Spec
CONSTANTS
  Conn = {a, b}
  uid <- OwnUid
  QLEN = 2
  NALLOC = 1
CHECK_DEADLOCK FALSE
INVARIANTS TableExact WatchedExact NeverBlocks UidRightSelect DownOnlyByMishap
PROPERTIES Answered
