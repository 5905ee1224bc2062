SPECIFICATION FairSpec
CONSTANTS
  SequenceModulus = 3
  Sessions = {s1}
  Others = {}
  NoSession = NoSession
  Commands <- AllCommands
  ControlValues <- Left
  MaxInputs = 0
  MaxLag = 1
  MaxFailedSends = 1
  OperatorStops = TRUE
CHECK_DEADLOCK FALSE
INVARIANTS
  SimulationKeepsUp
  StoppedSequenceRestarts
PROPERTIES
  GapsAreFailedSends
  PlayingIsServed
  ShutdownReturns
