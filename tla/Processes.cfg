SPECIFICATION Spec
CONSTANTS
  NBUF = 3
  NBlocks = 4
  MaxOver = 3
  Copy = {"c1", "c2"}
  Book = {"c1"}
  Threaded = {"c1"}
  MaxSig = 2
  FdLimit = 4
  Proc = {"p1", "p2", "p3"}
  Opener = {"p3"}
  initval = 1
  BIGCOUNT = 3
  MaxKill = 1
  NLOOPS = 6
  Queue = {"q1", "q2"}
  MAXMSZ = 3
  SockBuf = 2
  MaxSpurious = 1
  MaxSent = 3
  Kind = {"ok", "noent", "usage", "many", "long"}
  MaxCalls = 4
  Attr = {"ECHO", "ISIG", "INPCK", "OPOST"}
  MaxOut = 2
  SECTONSEC = 3
  Delay = 1
  Sleep = 2
  MaxClock = 12
  Byte = {0, 1}
  MaxSize = 3
  MaxLen = 2
  NFiles = 4
  NAME_MAX = 3
  OPEN_MAX = 2
CHECK_DEADLOCK FALSE
INVARIANTS TablesExact HandedOver OneOwner LeftAsFound EdgesRight
PROPERTIES NoReuseInFlight Returns
