SPECIFICATION Spec
CONSTANTS
  Keys = {1, 2}
  Funcs = {datetime, number}
  NULL = NULL
  Changes = {"drop"}
  Steady = {}
  Faults = {}
  MaxEntries = 2
INVARIANTS
  UpdatesContinue
