SPECIFICATION Spec
CONSTANTS
  Client = {"c1", "c2"}
  QLEN = 2
  MAXSLEEP = 4
  MaxProc = 3
  MaxLost = 1
  Name = {"a", "b"}
  NoName = "none"
  NChunks <- TwoFiles
  MaxInfo = 2
  MaxKids = 2
  NBytes = 3
  MAXSIZE = 2
  Queue = 1
  SeqMod = 16
  ISS = 14
  MaxData = 3
  MaxDrop = 2
  PortLo = 1
  PortHi = 3
  Count = 7
  MaxStray = 2
CHECK_DEADLOCK FALSE
INVARIANTS StreamsExact ServedRight StoresExact
PROPERTIES Delivered
