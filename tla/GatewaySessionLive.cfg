SPECIFICATION FairSpec
CONSTANTS
  org = org
  user = user
  NoTopic = NoTopic
  Topics <- MCWorkspaceOnly
  Primary = org
  ExtraTopics <- MCNoExtraTopics
  MaxRef = 3
  MaxDials = 2
  BufferCap = 1
  Callers = {"handler"}
  HalfOpen = {1}
PROPERTIES
  CancelStops
  CloseEnds
  SilentPeerDetected
