SPECIFICATION Spec
CONSTANTS
  MissingSequenceWindow = 2
  MaxSequenceId = 5
  MaxReceived = 4
  MaxTime = 3
  Timestamps <- FewTimestamps
INVARIANTS
  TypeOK
  LossIsExact
  MissingIsRecent
  ElapsedIsActiveTime
  TimingFollowsHighest
  AverageLatencyInRange
