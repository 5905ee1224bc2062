SPECIFICATION Spec
CONSTANTS
  Connections <- TwoConnections
  NoConnection = 0
INVARIANTS
  ConnectedIsWatched
