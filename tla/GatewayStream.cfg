SPECIFICATION FairSpec
CONSTANTS
  MaxSeq = 4
  Hidden <- MCHidden
  BufferCap = 1
  MaxDrops = 1
  MaxRestarts = 1
INVARIANTS
  TypeOK
  PositionNotAhead
  AtMostTwice
  IdleMeansCaughtUp
PROPERTIES
  ImplementsPosition
  PositionForward
  EveryEventSettles
