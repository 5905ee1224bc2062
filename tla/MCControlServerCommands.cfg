SPECIFICATION Spec
CONSTANTS
  SequenceModulus = 4
  Sessions = {s1, s2}
  NoSession = NoSession
  Ports <- AnyPort
  Commands <- SomeCommands
  MaxMessages = 2
  Leavers = {}
  OperatorStops = TRUE
SYMMETRY Symmetry
CHECK_DEADLOCK FALSE
INVARIANTS
  DepartedIsStopped
PROPERTIES
  KeepsMembership
