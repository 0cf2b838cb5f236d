\* Every operation shape, and a pair of calls on one token source.
SPECIFICATION Spec
CONSTANTS
  c1 = c1
  c2 = c2
  NoCall = NoCall
  Calls <- TwoCalls
  Workloads <- EachShapeAndAPair
  MaxRetries = 2
  MaxIssues = 1
  MaxExpiries = 1
  RetryAfters = {5}
  Width = 3
  DelayMin = 2
  DelayMax = 3
INVARIANTS
  TypeOK
  KeyedOnce
  SuccessMeansDone
  WholeBody
  NeverStaleToken
  HoldsLiveRefresh
PROPERTIES
  CallsEnd
