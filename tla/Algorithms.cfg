SPECIFICATION Spec
CONSTANTS
  MaxLen = 5
  MaxOps = 6
  MaxAbs = 2
  Elems = {1, 2, 6, 13}
INVARIANTS SortsRight ExercisesRight TreesRight TablesRight HeapsRight
CHECK_DEADLOCK FALSE
