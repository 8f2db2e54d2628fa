SPECIFICATION Spec
CONSTANTS
  NPos = 4
  Tables = {1, 2}
  Tab <- MCTab
  Seg <- MCSeg
  Twins = {}
  Fan = 2
  Base = 2
  Heads <- MCHeads
  Owner <- MCOwner
  Start <- MCStart
  Tails = {x1, x2}
  None = None
  Zero = Zero
  T = 1
  MaxMessages = 1
INVARIANTS
  TypeOK
  DiffComplete
  EqualSegmentsSilent
