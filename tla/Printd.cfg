SPECIFICATION FairSpec
CONSTANTS
  NoFile = NoFile  NoJob = NoJob
  Client = {a, b}
  NChunks = 1
  MaxJob = 2
  MaxBoot = 2
INVARIANTS AckedKept NoLostWakeup WholeUnlessSilent
PROPERTIES EventuallyPrinted
CHECK_DEADLOCK FALSE
