SPECIFICATION Spec
CONSTANTS
  Nobody = Nobody
  Proc = {p1, p2, p3}
INVARIANTS InitOnce OpenedHasHeader
PROPERTIES KeepsRecords
