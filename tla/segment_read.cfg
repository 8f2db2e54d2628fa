SPECIFICATION Spec
CONSTANTS
  NPos = 8
  Tables = {1, 2, 3}
  Tab <- MCTab
  Seg <- MCSeg
  Twins <- MCTwins
  Fan = 2
  Base = 2
  Heads = {h1}
  Tails = {x1}
  None = None
  Zero = Zero
  Block = 2
  LenBytes = 1
  Word = 32
  Bytes <- MCBytes
  RowKey <- MCRowKey
  Prefix = 1
  EntrySize = 2
  FirstAlloc = 5
INVARIANTS
  StoreTypeOK
  SegmentComplete
  SegmentExactBeforeLast
  BlockFits
  PassedBackGone
