SPECIFICATION Spec
CONSTANTS
  Keys = {1, 3}
  Funcs = {Datetime, Number}
  NULL = NULL
  Wild = Wild
  FirstCap = 1
  MaxEntries = 2
  Block = 2
  LenBytes = 1
  Word = 32
  SysKeys = {2}
  Datetime = Datetime
  Number = Number
  Values <- MCValues
  SysValue <- MCEpoch
  Epoch <- MCEpoch
  ZeroDate <- MCZeroDate
  ZeroNumber <- MCZeroNumber
INVARIANTS
  ListTypeOK
  ListSound
  DigestAsDumped
PROPERTIES
  ImplementsEntries
  MessageHandled
