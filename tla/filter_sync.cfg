SPECIFICATION Spec
CONSTANTS
  Keys = {1, 2, 3}
  Funcs = {datetime, number}
  NULL = NULL
  Changes = {"drop", "retype", "conflict"}
  Steady = {1, 2}
  Faults = {"query"}
  MaxEntries = 2
INVARIANTS
  TypeOK
  SteadyColumnsFiltered
  SteadyAddedOnce
