SPECIFICATION Spec
CONSTANTS
  Client = {"c1"}
  Name = {"a"}
  NoName = "none"
  NChunks <- OneChunk
INVARIANTS ModeAsDocumented
CHECK_DEADLOCK FALSE
