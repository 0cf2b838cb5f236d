SPECIFICATION Spec
CONSTANTS
  MaxSeq = 3
  Hidden <- MCHidden
  BufferCap = 2
  MaxDrops = 1
  MaxRestarts = 0
INVARIANT
  BriefDropLosesNothing
