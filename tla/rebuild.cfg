SPECIFICATION Spec
CONSTANTS
  NPos = 4
  Tables = {1, 2}
  Tab <- MCTab
  Seg <- MCSeg
  Twins = {}
  Fan = 2
  Base = 2
  Heads = {h1}
  Tails = {x1}
  None = None
  Zero = Zero
  T = 1
  Again <- MCAgain
  Nuls = {2}
  Faults = {"syntax", "put", "exception"}
  MaxQueue = 2
INVARIANTS
  TypeOK
  CopiedRowsRight
  OtherTablesKept
PROPERTIES
  ChangedRowsLeft
  RebuildEnds
