SPECIFICATION ListSpec
CONSTANTS
  Keys = {1, 2}
  Funcs = {datetime, number}
  NULL = NULL
  Wild = Wild
  FirstCap = 2
  MaxEntries = 2
INVARIANTS
  GetReturnsAdded
