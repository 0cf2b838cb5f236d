\* A reader whose calls share a context with a deadline, a writer, two callers of Close, a stalling peer.
SPECIFICATION Spec
CONSTANTS
  Writers = {w}
  Closers = {c1, c2}
  Contexts = {d}
  Dated = {d}
  PeerFrames <- ServerFrames
  MaxMessage = 2
  MaxControl = 1
  MaxFrames = 3
  MaxWrites = 1
INVARIANTS
  TypeOK
  MessagesWhole
  PingsAnswered
  InterruptKept
PROPERTIES
  FramesContiguous
  CallsReturn
CHECK_DEADLOCK FALSE
