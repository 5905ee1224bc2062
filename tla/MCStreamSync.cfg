SPECIFICATION Spec
CONSTANTS
  MaxConnections = 2
  MaxCommands = 3
  MaxPackets = 2
  MissingSequenceWindow = 2
INVARIANTS
  TypeOK
  ShownAgrees
  StoppedCountsAtMostOne
  NewConnectionCountsNothing
