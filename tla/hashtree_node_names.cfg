SPECIFICATION Spec
CONSTANTS
  NPos = 3
  Tables = {1, 2}
  Tab <- MCTab
  Seg <- MCSeg
  Twins = {}
  Fan = 2
  Base = 2
  Heads = {h1}
  Tails = {x1}
  None = None
  Zero = Zero
  T = 1
  Faults = {}
INVARIANTS
  ReadParentsHashChildren
