-------------------------- MODULE MetricsCollector --------------------------
(***************************************************************************)
(* Client::MetricsCollector: the reception statistics of one client.       *)
(*                                                                         *)
(* The UDP receive thread calls OnPacketReceived, the user's thread all    *)
(* the rest; mutex_ makes each call one step.  Packets come from a UDP     *)
(* stream, so any sequence id may arrive next: lost, late, reordered and   *)
(* duplicated packets are all the sequences of ids there are.              *)
(*                                                                         *)
(* One unit of time is a period of the server's 60 Hz tick.  The sums and  *)
(* maxima of receive intervals are left out: a packet's interval only      *)
(* decides whether it counts as delayed.                                   *)
(***************************************************************************)
EXTENDS Integers, FiniteSets

CONSTANTS MissingSequenceWindow,
          MaxSequenceId,  \* bound on the ids the server reaches
          MaxReceived,    \* bound on the packets between two resets
          MaxTime,        \* bound on time
          Timestamps      \* what the server's clock may have shown at a send

ASSUME WindowAssumption == MissingSequenceWindow \in Nat \ {0}

ASSUME BoundsAssumption == MaxSequenceId \in Nat /\ MaxReceived \in Nat /\ MaxTime \in Nat

ASSUME TimestampsAssumption == Timestamps \subseteq Nat

SequenceIds == 1 .. MaxSequenceId

DataRates == {30, 60}

VARIABLES
  now,                       \* steady_clock
  totalReceivedCount, outOfOrderCount, confirmedLostCount,
  highestSequenceId, hasReceivedPacket, missingSequenceIds,
  statsStartTime, isPaused, pauseStartTime, accumulatedPausedSeconds,
  expectedDataRate, hasTimingSample, lastTimingSequenceId, lastReceiveTime,
  intervalSampleCount, delayedPacketCount,
  hasLatencySample, latencySampleCount, totalLatency, minLatency, maxLatency,
  \* History of the packets since the last Reset, for the properties only.
  firstSequenceId,           \* the first to arrive
  received,                  \* every id that arrived
  late,                      \* those that arrived when the window had passed them
  activeTime                 \* time since the first packet, pauses left out

lossVars    == <<outOfOrderCount, confirmedLostCount, highestSequenceId, hasReceivedPacket,
                 missingSequenceIds>>
elapsedVars == <<statsStartTime, isPaused, pauseStartTime, accumulatedPausedSeconds>>
timingVars  == <<hasTimingSample, lastTimingSequenceId, lastReceiveTime, intervalSampleCount,
                 delayedPacketCount>>
latencyVars == <<hasLatencySample, latencySampleCount, totalLatency, minLatency, maxLatency>>
historyVars == <<firstSequenceId, received, late>>

vars == <<now, totalReceivedCount, lossVars, elapsedVars, expectedDataRate, timingVars,
          latencyVars, historyVars, activeTime>>

Init ==
  /\ now = 0
  /\ totalReceivedCount = 0 /\ outOfOrderCount = 0 /\ confirmedLostCount = 0
  /\ highestSequenceId = 0 /\ hasReceivedPacket = FALSE /\ missingSequenceIds = {}
  /\ statsStartTime = 0 /\ isPaused = FALSE /\ pauseStartTime = 0
  /\ accumulatedPausedSeconds = 0
  /\ expectedDataRate = 30
  /\ hasTimingSample = FALSE /\ lastTimingSequenceId = 0 /\ lastReceiveTime = 0
  /\ intervalSampleCount = 0 /\ delayedPacketCount = 0
  /\ hasLatencySample = FALSE /\ latencySampleCount = 0
  /\ totalLatency = 0 /\ minLatency = 0 /\ maxLatency = 0
  /\ firstSequenceId = 0 /\ received = {} /\ late = {} /\ activeTime = 0

-----------------------------------------------------------------------------
(* OnPacketReceived *)

\* Mutant: the two clocks are taken to be one.
RecordLatency_AnyClock(sendTimestamp) ==
  LET latency == now - sendTimestamp IN
  /\ hasLatencySample' = TRUE
  /\ latencySampleCount' = latencySampleCount + 1
  /\ totalLatency' = totalLatency + latency
  /\ minLatency' = IF ~hasLatencySample \/ latency < minLatency THEN latency ELSE minLatency
  /\ maxLatency' = IF ~hasLatencySample \/ latency > maxLatency THEN latency ELSE maxLatency

\* A timestamp ahead of this computer's clock comes from another one: no sample.
RecordLatency(sendTimestamp) ==
  LET latency == now - sendTimestamp IN
  IF now < sendTimestamp
  THEN UNCHANGED latencyVars
  ELSE /\ hasLatencySample' = TRUE
       /\ latencySampleCount' = latencySampleCount + 1
       /\ totalLatency' = totalLatency + latency
       /\ minLatency' = IF ~hasLatencySample \/ latency < minLatency THEN latency ELSE minLatency
       /\ maxLatency' = IF ~hasLatencySample \/ latency > maxLatency THEN latency ELSE maxLatency

ExpectedInterval == 60 \div expectedDataRate

\* More than one and a half times the expected interval, once for each id passed.
IsDelayed(sequenceId) ==
  2 * (now - lastReceiveTime) > 3 * ExpectedInterval * (sequenceId - lastTimingSequenceId)

TakeTimingSample(sequenceId) ==
  /\ hasTimingSample' = TRUE
  /\ lastTimingSequenceId' = sequenceId
  /\ lastReceiveTime' = now

\* Mutant: only the first packet is taken as a base for the next interval.
RecordReceiveInterval_KeepsBase(sequenceId) ==
  IF ~hasTimingSample
  THEN TakeTimingSample(sequenceId) /\ UNCHANGED <<intervalSampleCount, delayedPacketCount>>
  ELSE /\ UNCHANGED <<hasTimingSample, lastTimingSequenceId, lastReceiveTime>>
       /\ intervalSampleCount' = intervalSampleCount + 1
       /\ delayedPacketCount' = delayedPacketCount + (IF IsDelayed(sequenceId) THEN 1 ELSE 0)

RecordReceiveInterval(sequenceId) ==
  \/ /\ ~hasTimingSample
     /\ TakeTimingSample(sequenceId)
     /\ UNCHANGED <<intervalSampleCount, delayedPacketCount>>
  \/ /\ hasTimingSample
     /\ sequenceId = lastTimingSequenceId
     /\ UNCHANGED timingVars
  \/ /\ hasTimingSample
     /\ sequenceId # lastTimingSequenceId
     /\ TakeTimingSample(sequenceId)
     /\ intervalSampleCount' = intervalSampleCount + 1
     /\ delayedPacketCount' = delayedPacketCount + (IF IsDelayed(sequenceId) THEN 1 ELSE 0)

FirstPacket(sequenceId) ==
  /\ ~hasReceivedPacket
  /\ highestSequenceId' = sequenceId
  /\ hasReceivedPacket' = TRUE
  /\ statsStartTime' = now
  /\ TakeTimingSample(sequenceId)
  /\ UNCHANGED <<outOfOrderCount, confirmedLostCount, missingSequenceIds, isPaused,
                 pauseStartTime, accumulatedPausedSeconds, intervalSampleCount,
                 delayedPacketCount>>

\* Mutant: one id too few expires.
Stale_OffByOne(missing, highest) == { i \in missing : i + MissingSequenceWindow < highest }

\* What ExpireStaleMissingSequenceIds takes out of the missing ids.
Stale(missing, highest) == { i \in missing : i + MissingSequenceWindow <= highest }

NewerPacket(sequenceId) ==
  LET missing == missingSequenceIds \union (highestSequenceId + 1 .. sequenceId - 1)
      stale   == Stale(missing, sequenceId)
  IN
  /\ hasReceivedPacket
  /\ sequenceId > highestSequenceId
  /\ RecordReceiveInterval(sequenceId)
  /\ highestSequenceId' = sequenceId
  /\ missingSequenceIds' = missing \ stale
  /\ confirmedLostCount' = confirmedLostCount + Cardinality(stale)
  /\ UNCHANGED <<outOfOrderCount, hasReceivedPacket, elapsedVars>>

\* Mutant: any packet older than the highest makes up for a lost one.
OlderPacket_CountsAny(sequenceId) ==
  /\ hasReceivedPacket
  /\ sequenceId <= highestSequenceId
  /\ missingSequenceIds' = missingSequenceIds \ {sequenceId}
  /\ confirmedLostCount' =
       IF sequenceId \notin missingSequenceIds /\ confirmedLostCount > 0
       THEN confirmedLostCount - 1 ELSE confirmedLostCount
  /\ UNCHANGED <<outOfOrderCount, highestSequenceId, hasReceivedPacket, elapsedVars, timingVars>>

OlderPacket(sequenceId) ==
  /\ hasReceivedPacket
  /\ sequenceId <= highestSequenceId
  /\ missingSequenceIds' = missingSequenceIds \ {sequenceId}
  /\ outOfOrderCount' = outOfOrderCount + (IF sequenceId \in missingSequenceIds THEN 1 ELSE 0)
  /\ UNCHANGED <<confirmedLostCount, highestSequenceId, hasReceivedPacket, elapsedVars, timingVars>>

Observe(sequenceId) ==
  /\ firstSequenceId' = IF hasReceivedPacket THEN firstSequenceId ELSE sequenceId
  /\ received' = received \union {sequenceId}
  /\ late' = IF /\ hasReceivedPacket
                /\ sequenceId \notin received
                /\ firstSequenceId <= sequenceId
                /\ sequenceId + MissingSequenceWindow <= highestSequenceId
             THEN late \union {sequenceId} ELSE late

OnPacketReceived(sequenceId, sendTimestamp) ==
  /\ totalReceivedCount < MaxReceived
  /\ totalReceivedCount' = totalReceivedCount + 1
  /\ RecordLatency(sendTimestamp)
  /\ FirstPacket(sequenceId) \/ NewerPacket(sequenceId) \/ OlderPacket(sequenceId)
  /\ Observe(sequenceId)
  /\ UNCHANGED <<now, expectedDataRate, activeTime>>

-----------------------------------------------------------------------------
(* The user's commands *)

SetExpectedDataRate(dataRate) ==
  /\ expectedDataRate' = dataRate
  /\ hasTimingSample' = FALSE
  /\ UNCHANGED <<now, totalReceivedCount, lossVars, elapsedVars, lastTimingSequenceId,
                 lastReceiveTime, intervalSampleCount, delayedPacketCount, latencyVars,
                 historyVars, activeTime>>

OnPlay ==
  /\ accumulatedPausedSeconds' =
       IF isPaused THEN accumulatedPausedSeconds + (now - pauseStartTime)
       ELSE accumulatedPausedSeconds
  /\ isPaused' = FALSE
  /\ hasTimingSample' = FALSE
  /\ UNCHANGED <<now, totalReceivedCount, lossVars, statsStartTime, pauseStartTime,
                 expectedDataRate, lastTimingSequenceId, lastReceiveTime, intervalSampleCount,
                 delayedPacketCount, latencyVars, historyVars, activeTime>>

\* Mutant: a second Pause starts the pause anew.
OnPause_Restarts ==
  /\ isPaused' = hasReceivedPacket
  /\ pauseStartTime' = IF hasReceivedPacket THEN now ELSE pauseStartTime
  /\ hasTimingSample' = FALSE
  /\ UNCHANGED <<now, totalReceivedCount, lossVars, statsStartTime, accumulatedPausedSeconds,
                 expectedDataRate, lastTimingSequenceId, lastReceiveTime, intervalSampleCount,
                 delayedPacketCount, latencyVars, historyVars, activeTime>>

\* Before the first packet there is no elapsed time to stop.
OnPause ==
  LET pauses == hasReceivedPacket /\ ~isPaused IN
  /\ isPaused' = (isPaused \/ pauses)
  /\ pauseStartTime' = IF pauses THEN now ELSE pauseStartTime
  /\ hasTimingSample' = FALSE
  /\ UNCHANGED <<now, totalReceivedCount, lossVars, statsStartTime, accumulatedPausedSeconds,
                 expectedDataRate, lastTimingSequenceId, lastReceiveTime, intervalSampleCount,
                 delayedPacketCount, latencyVars, historyVars, activeTime>>

ResetLoss ==
  /\ totalReceivedCount' = 0 /\ outOfOrderCount' = 0 /\ confirmedLostCount' = 0
  /\ highestSequenceId' = 0 /\ hasReceivedPacket' = FALSE /\ missingSequenceIds' = {}

ResetElapsed ==
  /\ statsStartTime' = 0 /\ isPaused' = FALSE /\ pauseStartTime' = 0
  /\ accumulatedPausedSeconds' = 0

ResetTiming ==
  /\ hasTimingSample' = FALSE /\ lastTimingSequenceId' = 0 /\ lastReceiveTime' = 0
  /\ intervalSampleCount' = 0 /\ delayedPacketCount' = 0

\* Mutant: the sum survives the samples it was made of.
ResetLatency_KeepsSum ==
  /\ hasLatencySample' = FALSE /\ latencySampleCount' = 0
  /\ minLatency' = 0 /\ maxLatency' = 0
  /\ UNCHANGED totalLatency

ResetLatency ==
  /\ hasLatencySample' = FALSE /\ latencySampleCount' = 0
  /\ totalLatency' = 0 /\ minLatency' = 0 /\ maxLatency' = 0

\* expectedDataRate_ is a setting of the connection and stays.
Reset ==
  /\ ResetLoss /\ ResetElapsed /\ ResetTiming /\ ResetLatency
  /\ firstSequenceId' = 0 /\ received' = {} /\ late' = {} /\ activeTime' = 0
  /\ UNCHANGED <<now, expectedDataRate>>

Tick ==
  /\ now < MaxTime
  /\ now' = now + 1
  /\ activeTime' = IF hasReceivedPacket /\ ~isPaused THEN activeTime + 1 ELSE activeTime
  /\ UNCHANGED <<totalReceivedCount, lossVars, elapsedVars, expectedDataRate, timingVars,
                 latencyVars, historyVars>>

Next ==
  \/ \E sequenceId \in SequenceIds, sendTimestamp \in Timestamps :
       OnPacketReceived(sequenceId, sendTimestamp)
  \/ \E dataRate \in DataRates : SetExpectedDataRate(dataRate)
  \/ OnPlay \/ OnPause \/ Reset \/ Tick

Spec == Init /\ [][Next]_vars

-----------------------------------------------------------------------------
(* GetSnapshot *)

ElapsedSeconds ==
  IF hasReceivedPacket
  THEN now - statsStartTime
         - (accumulatedPausedSeconds + (IF isPaused THEN now - pauseStartTime ELSE 0))
  ELSE 0

LossCount == confirmedLostCount + Cardinality(missingSequenceIds)

-----------------------------------------------------------------------------
(* Properties *)

\* The counters are natural numbers, the sets hold sequence ids.
TypeOK ==
  /\ now \in Nat
  /\ totalReceivedCount \in Nat /\ outOfOrderCount \in Nat /\ confirmedLostCount \in Nat
  /\ highestSequenceId \in Nat /\ hasReceivedPacket \in BOOLEAN
  /\ missingSequenceIds \subseteq SequenceIds
  /\ statsStartTime \in Nat /\ isPaused \in BOOLEAN /\ pauseStartTime \in Nat
  /\ accumulatedPausedSeconds \in Nat
  /\ expectedDataRate \in DataRates
  /\ hasTimingSample \in BOOLEAN /\ lastTimingSequenceId \in Nat /\ lastReceiveTime \in Nat
  /\ intervalSampleCount \in Nat /\ delayedPacketCount \in Nat
  /\ hasLatencySample \in BOOLEAN /\ latencySampleCount \in Nat
  /\ totalLatency \in Nat /\ minLatency \in Nat /\ maxLatency \in Nat
  /\ firstSequenceId \in Nat /\ received \subseteq SequenceIds /\ late \subseteq SequenceIds
  /\ activeTime \in Nat

\* The loss that GetSnapshot reports, and Stop sends to the server, is the number of
\* ids since the first packet that did not arrive, plus the ids that arrived after
\* the window had given them up: nothing is counted twice when late packets, losses
\* and expiry interleave.
LossIsExact ==
  hasReceivedPacket =>
    LossCount = Cardinality((firstSequenceId .. highestSequenceId) \ received) + Cardinality(late)

\* The set of missing ids holds exactly the gaps of the last MissingSequenceWindow
\* ids, so it stays smaller than the window however long the stream.
MissingIsRecent ==
  missingSequenceIds =
    { i \in firstSequenceId .. highestSequenceId :
        hasReceivedPacket /\ i \notin received /\ highestSequenceId < i + MissingSequenceWindow }

\* The elapsed time of a snapshot is the time since the first packet less the pauses,
\* however often Play and Pause were repeated.
ElapsedIsActiveTime == ElapsedSeconds = activeTime

\* The last timing sample belongs to the highest id, so the difference of ids that
\* RecordReceiveInterval divides by (an unsigned one) is never zero or negative.
TimingFollowsHighest ==
  hasTimingSample =>
    /\ hasReceivedPacket
    /\ lastTimingSequenceId = highestSequenceId
    /\ lastReceiveTime <= now

\* The average latency lies between the least and the greatest.
AverageLatencyInRange ==
  /\ minLatency * latencySampleCount <= totalLatency
  /\ totalLatency <= maxLatency * latencySampleCount

=============================================================================
