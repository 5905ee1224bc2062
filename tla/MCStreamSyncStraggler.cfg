SPECIFICATION Spec
CONSTANTS
  MaxConnections = 1
  MaxCommands = 2
  MaxPackets = 1
  MissingSequenceWindow = 2
INVARIANTS
  StragglerIsNeverFirst
