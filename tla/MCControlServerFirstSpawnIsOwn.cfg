SPECIFICATION Spec
CONSTANTS
  SequenceModulus = 4
  Sessions = {s1, s2}
  NoSession = NoSession
  Ports <- OnePort
  Commands <- NoCommands
  MaxMessages = 1
  Leavers = {s2}
  OperatorStops = FALSE
CHECK_DEADLOCK FALSE
INVARIANTS
  FirstSpawnIsOwn
