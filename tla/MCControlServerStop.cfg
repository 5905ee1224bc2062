SPECIFICATION FairSpec
CONSTANTS
  SequenceModulus = 4
  Sessions = {s1, s2}
  NoSession = NoSession
  Ports <- OnePort
  Commands <- NoCommands
  MaxMessages = 1
  Leavers = {s2}
  OperatorStops = TRUE
CHECK_DEADLOCK FALSE
INVARIANTS
  TypeOK
  StopLeavesNothing
  StopUnblocksReceivers
  SessionsMatchWorkers
  MutualVisibility
  DepartureTold
PROPERTIES
  StopTerminates
  LostClientIsRemoved
