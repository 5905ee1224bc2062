SPECIFICATION WorldSpec
CONSTANTS
  SequenceModulus = 4
  Sessions = {s1, s2}
  NoSession = NoSession
  Ports <- OnePort
  Commands <- PlayOnly
  MaxMessages = 2
  Leavers = {s2}
  OperatorStops = FALSE
  Viewer = s1
  BufferSize = 128
CHECK_DEADLOCK FALSE
INVARIANTS
  DespawnedIsNotShown
