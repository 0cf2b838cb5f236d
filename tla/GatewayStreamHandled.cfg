SPECIFICATION Spec
CONSTANTS
  MaxSeq = 3
  Hidden <- MCHidden
  BufferCap = 8
  MaxDrops = 1
  MaxRestarts = 1
PROPERTY
  ResumesFromHandled
