SPECIFICATION Spec
CONSTANTS
  org = org
  user = user
  NoTopic = NoTopic
  Topics <- MCTopics
  Primary = org
  ExtraTopics <- MCExtraTopics
  MaxRef = 5
  MaxDials = 2
  BufferCap = 1
  Callers = {"user"}
  HalfOpen = {}
INVARIANTS
  TypeOK
  ConnectionsDoNotOverlap
  OneHeartbeat
  OneJoinPerTopic
  OutcomesAgree
  CleanCloseQuiesces
