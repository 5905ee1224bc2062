SPECIFICATION FairSpec
CONSTANTS
  Connections <- ThreeConnections
  NoConnection = 0
INVARIANTS
  TypeOK
  ReceiverReadsItsConnection
  WorldIsThisSessions
  WatchdogIsJoinedFirst
  DisconnectIsFinal
PROPERTIES
  KeepsLifecycle
  DisconnectReturns
  FailureIsNoticed
  KeepsTrying
