SPECIFICATION Spec
CONSTANTS
  SequenceModulus = 2
  Sessions = {s1}
  Others = {o1}
  NoSession = NoSession
  Commands <- AllCommands
  ControlValues <- LeftAndFarRight
  MaxInputs = 2
  MaxLag = 0
  MaxFailedSends = 0
  OperatorStops = FALSE
INVARIANTS
  TypeOK
  StoppedStaysAtOrigin
  ControlIsOwn
