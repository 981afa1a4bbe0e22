SPECIFICATION Spec
CONSTANTS
  NULL = NULL
  Job = {a, b, c}
  Thread = {u, v}
CHECK_DEADLOCK FALSE
INVARIANTS FindsQueued
