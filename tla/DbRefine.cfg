SPECIFICATION Spec
CONSTANTS
  k1 = k1  k2 = k2  k3 = k3  d1 = d1  d2 = d2  p1 = p1  p2 = p2
  Proc = {p1, p2}
  Key = {k1, k2, k3}
  Data = {d1, d2}
  Blank = Blank
  NHASH = 2
  Hash <- MCHash
  KeyLen <- MCKeyLen
  DatLen <- MCDatLen
  PTR_MAX = 4
  MaxOff = 4
  Rewinds = TRUE
  CrashAt = {}
  MaxCrash = 0
SYMMETRY Symmetric
INVARIANTS TypeOK
PROPERTIES LenStable Linearizable
