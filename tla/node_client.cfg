SPECIFICATION Spec
CONSTANTS
  Digests <- MCDigests
  Keys <- MCKeys
  MaxDigests = 2
INVARIANTS
  ReturnsReply
  SegmentItems
PROPERTIES
  CallReturns
