SPECIFICATION Spec
CONSTANTS
  Keys = {1, 2}
  Funcs = {datetime, number}
  NULL = NULL
  Changes = {"retype"}
  Steady = {}
  Faults = {}
  MaxEntries = 2
INVARIANTS
  MapsColumns
