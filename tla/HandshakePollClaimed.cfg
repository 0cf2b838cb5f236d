\* What WaitForCLIAuth says it returns on approval, for a code collected by a lost answer.
SPECIFICATION Spec
CONSTANTS
  Newest = 5
  Fraction = 2
  PageSizes = {0, 1}
  ServerSize = 2
  MaxRows = 4
  MaxEvents = 2
  Intervals <- MCIntervals
  DefaultWait = 3
  Floor = 2
  Width = 4
  DelayMin = 1
  DelayMax = 3
  SlowDown = 2
  Asks <- MCAsks
  Resends = 2
  MaxLimited = 2
  Payloads = {p1, p2}
  Secrets = {mine, other}
  Mine = mine
  Tolerance = 1
  Clock = 3
  Counts <- MCCounts
  Waits <- MCWaits
  MaxOptions = 4
  Editors = {ann, bob}
INVARIANT
  KeyOnApproval
CHECK_DEADLOCK FALSE
