----------------------- MODULE MetricsCollectorProofs -----------------------
(***************************************************************************)
(* Proofs about MetricsCollector, for every window, every stream of        *)
(* sequence ids and every order of the user's commands.                    *)
(***************************************************************************)
EXTENDS MetricsCollector, FiniteSetTheorems, TLAPS

\* The ids given up: older than the window, and not received before it passed them.
GivenUp ==
  { i \in firstSequenceId .. highestSequenceId :
      i + MissingSequenceWindow <= highestSequenceId /\ (i \notin received \/ i \in late) }

\* How the collector's numbers and the history of the packets go together.
LossInv ==
  /\ hasReceivedPacket =>
       /\ firstSequenceId \in SequenceIds /\ highestSequenceId \in SequenceIds
       /\ firstSequenceId <= highestSequenceId
       /\ highestSequenceId \in received
       /\ \A i \in received : i <= highestSequenceId
       /\ confirmedLostCount = Cardinality(GivenUp)
  /\ late \subseteq received
  /\ \A i \in late :
       firstSequenceId <= i /\ i + MissingSequenceWindow <= highestSequenceId
  /\ ~hasReceivedPacket => received = {} /\ late = {} /\ confirmedLostCount = 0
  /\ MissingIsRecent

\* The instants that ElapsedSeconds subtracts are in order.
ElapsedInv ==
  /\ ElapsedIsActiveTime
  /\ ~hasReceivedPacket => ~isPaused /\ accumulatedPausedSeconds = 0
  /\ isPaused => pauseStartTime <= now

\* Before a latency sample its sum and extremes are zero.
LatencyInv ==
  /\ ~hasLatencySample =>
       latencySampleCount = 0 /\ totalLatency = 0 /\ minLatency = 0 /\ maxLatency = 0
  /\ AverageLatencyInRange

-----------------------------------------------------------------------------
(* Types *)

\* A subset of the sequence ids is finite, and has a natural number of elements.
LEMMA FiniteIds ==
  ASSUME NEW S, S \subseteq SequenceIds
  PROVE  IsFiniteSet(S) /\ Cardinality(S) \in Nat
<1>1. IsFiniteSet(SequenceIds)
  BY BoundsAssumption, FS_Interval DEF SequenceIds
<1> QED
  BY <1>1, FS_Subset, FS_CardinalityType

\* The collector starts with values of the right types.
LEMMA TypeInit == Init => TypeOK
<1> SUFFICES ASSUME Init PROVE TypeOK
  OBVIOUS
<1>1. /\ hasReceivedPacket \in BOOLEAN /\ isPaused \in BOOLEAN
      /\ hasTimingSample \in BOOLEAN /\ hasLatencySample \in BOOLEAN
  BY Zenon DEF Init
<1> QED
  BY <1>1 DEF Init, TypeOK, DataRates

\* Recording a latency and an interval keeps the types.
LEMMA RecordType ==
  ASSUME TypeOK, NEW i \in SequenceIds
  PROVE  /\ \A t \in Timestamps : RecordLatency(t) =>
              /\ hasLatencySample' \in BOOLEAN /\ latencySampleCount' \in Nat
              /\ totalLatency' \in Nat /\ minLatency' \in Nat /\ maxLatency' \in Nat
         /\ RecordReceiveInterval(i) =>
              /\ hasTimingSample' \in BOOLEAN /\ lastTimingSequenceId' \in Nat
              /\ lastReceiveTime' \in Nat /\ intervalSampleCount' \in Nat
              /\ delayedPacketCount' \in Nat
<1>1. i \in Nat
  BY BoundsAssumption DEF SequenceIds
<1>2. ASSUME NEW t \in Timestamps, RecordLatency(t)
      PROVE  /\ hasLatencySample' \in BOOLEAN /\ latencySampleCount' \in Nat
             /\ totalLatency' \in Nat /\ minLatency' \in Nat /\ maxLatency' \in Nat
  <2>1. t \in Nat
    BY TimestampsAssumption
  <2>2. CASE now < t
    BY <1>2, <2>2 DEF RecordLatency, TypeOK, latencyVars
  <2>3. CASE ~(now < t)
    <3>1. now - t \in Nat
      BY <2>1, <2>3 DEF TypeOK
    <3>2. /\ hasLatencySample' = TRUE
          /\ latencySampleCount' = latencySampleCount + 1
          /\ totalLatency' = totalLatency + (now - t)
          /\ minLatency' \in {now - t, minLatency}
          /\ maxLatency' \in {now - t, maxLatency}
      BY <1>2, <2>3 DEF RecordLatency
    <3> QED
      BY <3>1, <3>2 DEF TypeOK
  <2> QED
    BY <2>2, <2>3
<1>3. ASSUME RecordReceiveInterval(i)
      PROVE  /\ hasTimingSample' \in BOOLEAN /\ lastTimingSequenceId' \in Nat
             /\ lastReceiveTime' \in Nat /\ intervalSampleCount' \in Nat
             /\ delayedPacketCount' \in Nat
  <2>1. delayedPacketCount' \in {delayedPacketCount, delayedPacketCount + 1}
    <3>1. CASE IsDelayed(i)
      BY <1>3, <3>1 DEF RecordReceiveInterval, timingVars, TypeOK
    <3>2. CASE ~IsDelayed(i)
      BY <1>3, <3>2 DEF RecordReceiveInterval, timingVars, TypeOK
    <3> QED
      BY <3>1, <3>2
  <2>2. hasTimingSample' \in BOOLEAN
    BY <1>3 DEF RecordReceiveInterval, TakeTimingSample, TypeOK, timingVars
  <2> QED
    BY <1>1, <1>3, <2>1, <2>2 DEF RecordReceiveInterval, TakeTimingSample, TypeOK, timingVars
<1> QED
  BY <1>2, <1>3

\* Every call of the collector keeps the types.
LEMMA TypeStep == TypeOK /\ ElapsedInv /\ [Next]_vars => TypeOK'
<1> SUFFICES ASSUME TypeOK, ElapsedInv, [Next]_vars PROVE TypeOK'
  OBVIOUS
<1> USE DEF lossVars, elapsedVars, timingVars, latencyVars, historyVars
<1>1. ASSUME NEW i \in SequenceIds, NEW t \in Timestamps, OnPacketReceived(i, t) PROVE TypeOK'
  <2>1. i \in Nat
    BY BoundsAssumption DEF SequenceIds
  <2>2. /\ UNCHANGED <<now, expectedDataRate, activeTime>>
        /\ totalReceivedCount' \in Nat
        /\ RecordLatency(t)
    BY <1>1 DEF OnPacketReceived, TypeOK
  <2>3. firstSequenceId' \in Nat /\ received' \subseteq SequenceIds /\ late' \subseteq SequenceIds
    BY <1>1, <2>1 DEF OnPacketReceived, Observe, TypeOK
  <2>4. CASE FirstPacket(i)
    BY <2>1, <2>2, <2>3, <2>4, RecordType DEF FirstPacket, TakeTimingSample, TypeOK
  <2>5. CASE NewerPacket(i)
    <3> DEFINE missing == missingSequenceIds \union (highestSequenceId + 1 .. i - 1)
    <3>1. missing \subseteq SequenceIds
      BY <2>1, BoundsAssumption DEF TypeOK, SequenceIds
    <3>2. Cardinality(Stale(missing, i)) \in Nat
      BY <3>1, FiniteIds DEF Stale
    <3>3. missingSequenceIds' \subseteq SequenceIds /\ confirmedLostCount' \in Nat
      BY <2>5, <3>1, <3>2 DEF NewerPacket, TypeOK
    <3> QED
      BY <2>1, <2>2, <2>3, <2>5, <3>3, RecordType DEF NewerPacket, TypeOK
  <2>6. CASE OlderPacket(i)
    BY <2>1, <2>2, <2>3, <2>6, RecordType DEF OlderPacket, TypeOK
  <2> QED
    BY <1>1, <2>4, <2>5, <2>6 DEF OnPacketReceived
<1>2. ASSUME NEW rate \in DataRates, SetExpectedDataRate(rate) PROVE TypeOK'
  BY <1>2 DEF SetExpectedDataRate, TypeOK
<1>3. CASE OnPlay
  <2>1. accumulatedPausedSeconds' \in Nat
    <3>1. CASE isPaused
      BY <1>3, <3>1 DEF OnPlay, TypeOK, ElapsedInv
    <3>2. CASE ~isPaused
      BY <1>3, <3>2 DEF OnPlay, TypeOK
    <3> QED
      BY <3>1, <3>2
  <2>2. isPaused' \in BOOLEAN /\ hasTimingSample' \in BOOLEAN
    BY <1>3, Zenon DEF OnPlay
  <2> QED
    BY <1>3, <2>1, <2>2 DEF OnPlay, TypeOK
<1>4. CASE OnPause
  <2>1. isPaused' \in BOOLEAN
    BY <1>4 DEF OnPause
  <2>2. pauseStartTime' \in Nat
    BY <1>4 DEF OnPause, TypeOK
  <2> QED
    BY <1>4, <2>1, <2>2 DEF OnPause, TypeOK
<1>5. CASE Reset
  <2>1. /\ hasReceivedPacket' \in BOOLEAN /\ isPaused' \in BOOLEAN
        /\ hasTimingSample' \in BOOLEAN /\ hasLatencySample' \in BOOLEAN
    BY <1>5, Zenon DEF Reset, ResetLoss, ResetElapsed, ResetTiming, ResetLatency
  <2> QED
    BY <1>5, <2>1 DEF Reset, ResetLoss, ResetElapsed, ResetTiming, ResetLatency, TypeOK
<1>6. CASE Tick
  BY <1>6 DEF Tick, TypeOK
<1>7. CASE UNCHANGED vars
  BY <1>7 DEF vars, TypeOK
<1> QED
  BY <1>1, <1>2, <1>3, <1>4, <1>5, <1>6, <1>7 DEF Next

-----------------------------------------------------------------------------
(* Elapsed time *)

\* Every call keeps the elapsed time of a snapshot equal to the time not paused.
LEMMA ElapsedStep == TypeOK /\ ElapsedInv /\ [Next]_vars => ElapsedInv'
<1> SUFFICES ASSUME TypeOK, ElapsedInv, [Next]_vars PROVE ElapsedInv'
  OBVIOUS
<1> USE DEF ElapsedInv, ElapsedIsActiveTime, ElapsedSeconds, TypeOK, elapsedVars, lossVars
<1>1. ASSUME NEW i \in SequenceIds, NEW t \in Timestamps, OnPacketReceived(i, t)
      PROVE  ElapsedInv'
  BY <1>1 DEF OnPacketReceived, FirstPacket, NewerPacket, OlderPacket
<1>2. ASSUME NEW rate \in DataRates, SetExpectedDataRate(rate) PROVE ElapsedInv'
  BY <1>2 DEF SetExpectedDataRate
<1>3. CASE OnPlay
  BY <1>3 DEF OnPlay
<1>4. CASE OnPause
  BY <1>4 DEF OnPause
<1>5. CASE Reset
  BY <1>5 DEF Reset, ResetLoss, ResetElapsed
<1>6. CASE Tick
  BY <1>6 DEF Tick
<1>7. CASE UNCHANGED vars
  BY <1>7 DEF vars
<1> QED
  BY <1>1, <1>2, <1>3, <1>4, <1>5, <1>6, <1>7 DEF Next

-----------------------------------------------------------------------------
(* Timing and latency samples *)

\* Every call keeps the timing sample at the highest id.
LEMMA TimingStep == TypeOK /\ TimingFollowsHighest /\ [Next]_vars => TimingFollowsHighest'
<1> SUFFICES ASSUME TypeOK, TimingFollowsHighest, [Next]_vars PROVE TimingFollowsHighest'
  OBVIOUS
<1> USE DEF TimingFollowsHighest, TypeOK, timingVars, lossVars
<1>1. ASSUME NEW i \in SequenceIds, NEW t \in Timestamps, OnPacketReceived(i, t)
      PROVE  TimingFollowsHighest'
  <2>1. now' = now
    BY <1>1 DEF OnPacketReceived
  <2>2. CASE FirstPacket(i)
    BY <2>1, <2>2 DEF FirstPacket, TakeTimingSample
  <2>3. CASE NewerPacket(i)
    <3>1. i \in Nat
      BY BoundsAssumption DEF SequenceIds
    <3>2. TakeTimingSample(i)
      BY <2>3, <3>1 DEF NewerPacket, RecordReceiveInterval
    <3> QED
      BY <2>1, <2>3, <3>2 DEF NewerPacket, TakeTimingSample
  <2>4. CASE OlderPacket(i)
    BY <2>1, <2>4 DEF OlderPacket
  <2> QED
    BY <1>1, <2>2, <2>3, <2>4 DEF OnPacketReceived
<1>2. ASSUME NEW rate \in DataRates, SetExpectedDataRate(rate) PROVE TimingFollowsHighest'
  BY <1>2 DEF SetExpectedDataRate
<1>3. CASE OnPlay
  BY <1>3 DEF OnPlay
<1>4. CASE OnPause
  BY <1>4 DEF OnPause
<1>5. CASE Reset
  BY <1>5 DEF Reset, ResetTiming
<1>6. CASE Tick
  BY <1>6 DEF Tick
<1>7. CASE UNCHANGED vars
  BY <1>7 DEF vars
<1> QED
  BY <1>1, <1>2, <1>3, <1>4, <1>5, <1>6, <1>7 DEF Next

\* A product with a natural number grows with its other factor.
LEMMA ProductMonotone ==
  ASSUME NEW a \in Nat, NEW b \in Nat, NEW n \in Nat, a <= b
  PROVE  a * n <= b * n
  OBVIOUS

\* Wider bounds on an average hold as well, and any bounds hold when there is no sample.
LEMMA WiderBounds ==
  ASSUME NEW low \in Nat, NEW high \in Nat, NEW low2 \in Nat, NEW high2 \in Nat,
         NEW n \in Nat, NEW sum \in Nat,
         \/ n = 0 /\ sum = 0
         \/ low2 <= low /\ high <= high2 /\ low * n <= sum /\ sum <= high * n
  PROVE  low2 * n <= sum /\ sum <= high2 * n
<1>1. CASE n = 0 /\ sum = 0
  BY <1>1
<1>2. CASE low2 <= low /\ high <= high2 /\ low * n <= sum /\ sum <= high * n
  <2>1. low2 * n <= low * n /\ high * n <= high2 * n
    BY <1>2, ProductMonotone
  <2>2. low2 * n \in Nat /\ low * n \in Nat /\ high * n \in Nat /\ high2 * n \in Nat
    OBVIOUS
  <2> QED
    BY <1>2, <2>1, <2>2
<1> QED
  BY <1>1, <1>2

\* A sample between two bounds extends a sum whose average lies between them.
LEMMA AverageStep ==
  ASSUME NEW low \in Nat, NEW high \in Nat, NEW n \in Nat, NEW sum \in Nat, NEW x \in Nat,
         low * n <= sum, sum <= high * n, low <= x, x <= high
  PROVE  low * (n + 1) <= sum + x /\ sum + x <= high * (n + 1)
<1>1. low * (n + 1) = low * n + low /\ high * (n + 1) = high * n + high
  OBVIOUS
<1>2. low * n \in Nat /\ high * n \in Nat
  OBVIOUS
<1> QED
  BY <1>1, <1>2

\* Every call keeps the average latency between its extremes.
LEMMA LatencyStep == TypeOK /\ LatencyInv /\ [Next]_vars => LatencyInv'
<1> SUFFICES ASSUME TypeOK, LatencyInv, [Next]_vars PROVE LatencyInv'
  OBVIOUS
<1>1. ASSUME NEW i \in SequenceIds, NEW t \in Timestamps, OnPacketReceived(i, t)
      PROVE  LatencyInv'
  <2>1. CASE UNCHANGED latencyVars
    BY <2>1 DEF LatencyInv, AverageLatencyInRange, latencyVars
  <2>2. CASE ~(now < t)
    <3> DEFINE latency == now - t
               n       == latencySampleCount
    <3>1. t \in Nat /\ latency \in Nat
      BY <2>2, TimestampsAssumption DEF TypeOK
    <3>2. /\ hasLatencySample' = TRUE
          /\ latencySampleCount' = n + 1
          /\ totalLatency' = totalLatency + latency
          /\ minLatency' = IF ~hasLatencySample \/ latency < minLatency THEN latency ELSE minLatency
          /\ maxLatency' = IF ~hasLatencySample \/ latency > maxLatency THEN latency ELSE maxLatency
      BY <1>1, <2>2 DEF OnPacketReceived, RecordLatency
    <3>3. /\ minLatency' \in Nat /\ maxLatency' \in Nat /\ n \in Nat /\ totalLatency \in Nat
          /\ minLatency' <= latency /\ latency <= maxLatency'
      BY <3>1, <3>2 DEF TypeOK
    <3>4. minLatency' * n <= totalLatency /\ totalLatency <= maxLatency' * n
      <4>1. \/ n = 0 /\ totalLatency = 0
            \/ /\ minLatency' <= minLatency /\ maxLatency <= maxLatency'
               /\ minLatency * n <= totalLatency /\ totalLatency <= maxLatency * n
        BY <3>1, <3>2 DEF LatencyInv, AverageLatencyInRange, TypeOK
      <4>2. minLatency \in Nat /\ maxLatency \in Nat
        BY DEF TypeOK
      <4> HIDE DEF n
      <4> QED
        BY <3>3, <4>1, <4>2, WiderBounds
    <3>5. /\ minLatency' * (n + 1) <= totalLatency + latency
          /\ totalLatency + latency <= maxLatency' * (n + 1)
      BY <3>1, <3>3, <3>4, AverageStep
    <3>6. AverageLatencyInRange'
      BY <3>2, <3>5 DEF AverageLatencyInRange
    <3> QED
      BY <3>2, <3>6 DEF LatencyInv
  <2> QED
    BY <1>1, <2>1, <2>2 DEF OnPacketReceived, RecordLatency
<1>2. CASE Reset
  BY <1>2 DEF Reset, ResetLatency, LatencyInv, AverageLatencyInRange
<1>3. CASE UNCHANGED latencyVars
  BY <1>3 DEF LatencyInv, AverageLatencyInRange, latencyVars
<1> QED
  BY <1>1, <1>2, <1>3 DEF Next, SetExpectedDataRate, OnPlay, OnPause, Tick, vars

-----------------------------------------------------------------------------
(* Loss *)

\* The elements of two sets without a common one add up.
LEMMA DisjointSum ==
  ASSUME NEW S, NEW T, IsFiniteSet(S), IsFiniteSet(T), S \intersect T = {}
  PROVE  Cardinality(S \union T) = Cardinality(S) + Cardinality(T)
<1>1. Cardinality(S \union T) = Cardinality(S) + Cardinality(T) - Cardinality(S \intersect T)
  BY FS_Union
<1>2. Cardinality(S \intersect T) = 0
  BY FS_EmptySet
<1>3. Cardinality(S) \in Nat /\ Cardinality(T) \in Nat
  BY FS_CardinalityType
<1> QED
  BY <1>1, <1>2, <1>3

\* The first packet starts the account with nothing missing and nothing given up.
LEMMA LossFirst ==
  ASSUME TypeOK, LossInv, NEW i \in SequenceIds, FirstPacket(i), Observe(i)
  PROVE  LossInv'
<1>0. i \in Nat /\ ~(i + MissingSequenceWindow <= i)
  BY BoundsAssumption, WindowAssumption DEF SequenceIds
<1>1. /\ hasReceivedPacket' = TRUE /\ highestSequenceId' = i /\ firstSequenceId' = i
      /\ received' = {i} /\ late' = {}
      /\ missingSequenceIds' = {} /\ confirmedLostCount' = 0
  <2>1. received = {} /\ late = {} /\ confirmedLostCount = 0 /\ missingSequenceIds = {}
    BY DEF LossInv, FirstPacket, MissingIsRecent
  <2> QED
    BY <2>1 DEF FirstPacket, Observe
<1>2. GivenUp' = {}
  BY <1>0, <1>1 DEF GivenUp
<1>3. MissingIsRecent'
  BY <1>0, <1>1 DEF MissingIsRecent
<1> QED
  BY <1>0, <1>1, <1>2, <1>3, FS_EmptySet DEF LossInv

\* A packet that passes others moves what falls out of the window from the missing
\* ids to those given up.
LEMMA LossNewer ==
  ASSUME TypeOK, LossInv, NEW i \in SequenceIds, NewerPacket(i), Observe(i)
  PROVE  LossInv'
<1> DEFINE h       == highestSequenceId
           W       == MissingSequenceWindow
           missing == missingSequenceIds \union (h + 1 .. i - 1)
           stale   == Stale(missing, i)
<1>0. /\ i \in Nat /\ W \in Nat /\ W > 0 /\ h \in Nat /\ firstSequenceId \in Nat
      /\ SequenceIds \subseteq Nat
  BY BoundsAssumption, WindowAssumption DEF SequenceIds, TypeOK
<1>1. /\ hasReceivedPacket /\ i > h
      /\ hasReceivedPacket' = TRUE /\ highestSequenceId' = i
      /\ missingSequenceIds' = missing \ stale
      /\ confirmedLostCount' = confirmedLostCount + Cardinality(stale)
      /\ firstSequenceId' = firstSequenceId /\ received' = received \union {i}
  BY DEF NewerPacket, Observe
<1>2. i \notin received /\ late' = late
  BY <1>0, <1>1 DEF LossInv, Observe
<1>3. missingSequenceIds = {k \in firstSequenceId .. h : k \notin received /\ h < k + W}
  BY <1>1 DEF LossInv, MissingIsRecent
<1>4. MissingIsRecent'
  <2>1. \A k \in Nat : k \in missing /\ k \notin stale
          <=> k \in firstSequenceId .. i /\ k \notin received' /\ i < k + W
    BY <1>0, <1>1, <1>2, <1>3 DEF Stale, LossInv
  <2> QED
    BY <1>0, <1>1, <1>3, <2>1 DEF MissingIsRecent
<1>5. GivenUp' = GivenUp \union stale
  <2>1. \A k \in Nat : k \in GivenUp' <=> k \in GivenUp \/ k \in stale
    BY <1>0, <1>1, <1>2, <1>3 DEF GivenUp, Stale, LossInv
  <2>2. GivenUp \subseteq Nat /\ GivenUp' \subseteq Nat /\ stale \subseteq Nat
    BY <1>0, <1>1, <1>3 DEF GivenUp, Stale
  <2> QED
    BY <2>1, <2>2
<1>6. GivenUp \intersect stale = {}
  BY <1>0, <1>1, <1>3 DEF GivenUp, Stale, LossInv
<1>7. /\ IsFiniteSet(GivenUp) /\ IsFiniteSet(stale)
      /\ Cardinality(GivenUp) \in Nat /\ Cardinality(stale) \in Nat
  <2>1. GivenUp \subseteq SequenceIds
    BY <1>0, <1>1, BoundsAssumption DEF GivenUp, LossInv, SequenceIds
  <2>2. stale \subseteq SequenceIds
    <3>1. i <= MaxSequenceId
      BY BoundsAssumption DEF SequenceIds
    <3>2. \A k \in h + 1 .. i - 1 : k \in SequenceIds
      BY <1>0, <3>1, BoundsAssumption DEF SequenceIds
    <3>3. missingSequenceIds \subseteq SequenceIds
      BY DEF TypeOK
    <3> QED
      BY <3>2, <3>3 DEF Stale
  <2> QED
    BY <2>1, <2>2, FiniteIds
<1>8. Cardinality(GivenUp') = Cardinality(GivenUp) + Cardinality(stale)
  <2> HIDE DEF stale
  <2> QED
    BY <1>5, <1>6, <1>7, DisjointSum
<1>9. confirmedLostCount' = Cardinality(GivenUp')
  BY <1>1, <1>8 DEF LossInv
<1>10. /\ firstSequenceId' <= highestSequenceId' /\ firstSequenceId' \in SequenceIds
       /\ \A k \in received' : k <= i
       /\ \A k \in late' : firstSequenceId' <= k /\ k + W <= i
  <2>1. /\ firstSequenceId <= h /\ firstSequenceId \in SequenceIds
        /\ \A k \in received : k <= h
        /\ \A k \in late : firstSequenceId <= k /\ k + W <= h
        /\ late \subseteq Nat /\ received \subseteq Nat
    BY <1>0, <1>1 DEF LossInv, TypeOK
  <2> QED
    BY <1>0, <1>1, <1>2, <2>1
<1>11. late' \subseteq received'
  BY <1>1, <1>2 DEF LossInv
<1> QED
  BY <1>1, <1>4, <1>9, <1>10, <1>11 DEF LossInv

\* A packet that was passed either fills its gap, or was given up, or is not counted.
LEMMA LossOlder ==
  ASSUME TypeOK, LossInv, NEW i \in SequenceIds, OlderPacket(i), Observe(i)
  PROVE  LossInv'
<1> DEFINE h == highestSequenceId
           W == MissingSequenceWindow
<1>0. /\ i \in Nat /\ W \in Nat /\ h \in Nat /\ firstSequenceId \in Nat
      /\ SequenceIds \subseteq Nat
  BY BoundsAssumption, WindowAssumption DEF SequenceIds, TypeOK
<1>1. /\ hasReceivedPacket /\ i <= h
      /\ hasReceivedPacket' = TRUE /\ highestSequenceId' = h
      /\ missingSequenceIds' = missingSequenceIds \ {i}
      /\ confirmedLostCount' = confirmedLostCount
      /\ firstSequenceId' = firstSequenceId /\ received' = received \union {i}
      /\ late' = IF i \notin received /\ firstSequenceId <= i /\ i + W <= h
                 THEN late \union {i} ELSE late
  BY DEF OlderPacket, Observe, TypeOK, lossVars
<1>2. missingSequenceIds = {k \in firstSequenceId .. h : k \notin received /\ h < k + W}
  BY <1>1 DEF LossInv, MissingIsRecent
<1>3. MissingIsRecent'
  BY <1>0, <1>1, <1>2 DEF MissingIsRecent
<1>4. GivenUp' = GivenUp
  <2>1. \A k \in firstSequenceId .. h : k + W <= h =>
          (k \notin received' \/ k \in late' <=> k \notin received \/ k \in late)
    BY <1>0, <1>1 DEF LossInv
  <2> QED
    BY <1>1, <2>1 DEF GivenUp
<1> QED
  BY <1>0, <1>1, <1>3, <1>4 DEF LossInv

\* Every call keeps the account of lost and late ids.
LEMMA LossStep == TypeOK /\ LossInv /\ [Next]_vars => LossInv'
<1> SUFFICES ASSUME TypeOK, LossInv, [Next]_vars PROVE LossInv'
  OBVIOUS
<1>1. ASSUME NEW i \in SequenceIds, NEW t \in Timestamps, OnPacketReceived(i, t)
      PROVE  LossInv'
  BY <1>1, LossFirst, LossNewer, LossOlder DEF OnPacketReceived
<1>2. CASE Reset
  BY <1>2 DEF Reset, ResetLoss, LossInv, MissingIsRecent
<1>3. CASE UNCHANGED <<lossVars, historyVars>>
  BY <1>3 DEF LossInv, MissingIsRecent, GivenUp, lossVars, historyVars
<1> QED
  BY <1>1, <1>2, <1>3 DEF Next, SetExpectedDataRate, OnPlay, OnPause, Tick, vars

\* The account makes the reported loss exact.
LEMMA LossFollows == TypeOK /\ LossInv => LossIsExact
<1> SUFFICES ASSUME TypeOK, LossInv, hasReceivedPacket PROVE LossIsExact
  BY DEF LossIsExact
<1> DEFINE absent == (firstSequenceId .. highestSequenceId) \ received
<1>1. /\ SequenceIds \subseteq Nat /\ MissingSequenceWindow \in Nat
      /\ firstSequenceId \in Nat /\ highestSequenceId \in Nat
      /\ firstSequenceId .. highestSequenceId \subseteq SequenceIds
  BY BoundsAssumption, WindowAssumption DEF SequenceIds, TypeOK, LossInv
<1>2. missingSequenceIds \union GivenUp = absent \union late
  <2>1. missingSequenceIds =
          { k \in firstSequenceId .. highestSequenceId :
              k \notin received /\ highestSequenceId < k + MissingSequenceWindow }
    BY DEF LossInv, MissingIsRecent
  <2>2. \A k \in late : /\ k \in firstSequenceId .. highestSequenceId
                        /\ k + MissingSequenceWindow <= highestSequenceId
    BY <1>1 DEF LossInv, TypeOK
  <2>3. \A k \in firstSequenceId .. highestSequenceId :
          k \in missingSequenceIds \union GivenUp <=> k \in absent \union late
    BY <1>1, <2>1, <2>2 DEF GivenUp
  <2>4. /\ missingSequenceIds \union GivenUp \subseteq firstSequenceId .. highestSequenceId
        /\ absent \union late \subseteq firstSequenceId .. highestSequenceId
    BY <2>1, <2>2 DEF GivenUp
  <2> QED
    BY <2>3, <2>4
<1>3. missingSequenceIds \intersect GivenUp = {} /\ absent \intersect late = {}
  BY <1>1 DEF LossInv, MissingIsRecent, GivenUp, TypeOK
<1>4. /\ missingSequenceIds \subseteq SequenceIds /\ GivenUp \subseteq SequenceIds
      /\ absent \subseteq SequenceIds /\ late \subseteq SequenceIds
  BY <1>1 DEF TypeOK, GivenUp
<1>5. Cardinality(missingSequenceIds) + Cardinality(GivenUp) = Cardinality(absent) + Cardinality(late)
  <2>1. /\ IsFiniteSet(missingSequenceIds) /\ IsFiniteSet(GivenUp)
        /\ IsFiniteSet(absent) /\ IsFiniteSet(late)
        /\ Cardinality(missingSequenceIds) \in Nat /\ Cardinality(GivenUp) \in Nat
        /\ Cardinality(absent) \in Nat /\ Cardinality(late) \in Nat
    BY <1>4, FiniteIds
  <2>2. Cardinality(missingSequenceIds \union GivenUp)
          = Cardinality(missingSequenceIds) + Cardinality(GivenUp)
    BY <1>3, <2>1, DisjointSum
  <2>3. Cardinality(absent \union late) = Cardinality(absent) + Cardinality(late)
    BY <1>3, <2>1, DisjointSum
  <2> QED
    BY <1>2, <2>2, <2>3
<1>6. confirmedLostCount = Cardinality(GivenUp)
  BY DEF LossInv
<1>7. /\ Cardinality(missingSequenceIds) \in Nat /\ Cardinality(GivenUp) \in Nat
      /\ Cardinality(absent) \in Nat /\ Cardinality(late) \in Nat
  BY <1>4, FiniteIds
<1> QED
  BY <1>5, <1>6, <1>7 DEF LossIsExact, LossCount

-----------------------------------------------------------------------------
(* Theorems *)

\* All of it, as one inductive invariant.
CollectorInv ==
  TypeOK /\ LossInv /\ ElapsedInv /\ TimingFollowsHighest /\ LatencyInv

\* The invariant of the collector holds after every sequence of calls.
THEOREM CollectorInvariant == Spec => []CollectorInv
<1>1. Init => CollectorInv
  <2> SUFFICES ASSUME Init PROVE CollectorInv
    OBVIOUS
  <2>1. TypeOK
    BY TypeInit
  <2>2. LossInv
    BY DEF Init, LossInv, MissingIsRecent
  <2>3. ElapsedInv
    BY DEF Init, ElapsedInv, ElapsedIsActiveTime, ElapsedSeconds
  <2>4. TimingFollowsHighest /\ LatencyInv
    BY DEF Init, TimingFollowsHighest, LatencyInv, AverageLatencyInRange
  <2> QED
    BY <2>1, <2>2, <2>3, <2>4 DEF CollectorInv
<1>2. CollectorInv /\ [Next]_vars => CollectorInv'
  BY TypeStep, LossStep, ElapsedStep, TimingStep, LatencyStep DEF CollectorInv
<1> QED
  BY <1>1, <1>2, PTL DEF Spec

\* MetricsCollector keeps its types: no counter and no sum becomes negative.
THEOREM CollectorTypeCorrect == Spec => []TypeOK
<1>1. CollectorInv => TypeOK
  BY DEF CollectorInv
<1> QED
  BY <1>1, CollectorInvariant, PTL

\* The loss GetSnapshot reports counts every absent id once and nothing else but
\* the ids that came after the window had given them up.
THEOREM ReportedLossIsExact == Spec => []LossIsExact
<1>1. CollectorInv => LossIsExact
  BY LossFollows DEF CollectorInv
<1> QED
  BY <1>1, CollectorInvariant, PTL

\* The missing ids are the gaps of the last window, so their number is bounded by it.
THEOREM WindowBoundsMissing == Spec => []MissingIsRecent
<1>1. CollectorInv => MissingIsRecent
  BY DEF CollectorInv, LossInv
<1> QED
  BY <1>1, CollectorInvariant, PTL

\* The elapsed time of a snapshot leaves out exactly the pauses.
THEOREM ElapsedExcludesPauses == Spec => []ElapsedIsActiveTime
<1>1. CollectorInv => ElapsedIsActiveTime
  BY DEF CollectorInv, ElapsedInv
<1> QED
  BY <1>1, CollectorInvariant, PTL

\* The unsigned difference of sequence ids in RecordReceiveInterval cannot underflow.
THEOREM IntervalNeverUnderflows == Spec => []TimingFollowsHighest
<1>1. CollectorInv => TimingFollowsHighest
  BY DEF CollectorInv
<1> QED
  BY <1>1, CollectorInvariant, PTL

\* The average latency lies between the least and the greatest latency.
THEOREM LatencyIsBounded == Spec => []AverageLatencyInRange
<1>1. CollectorInv => AverageLatencyInRange
  BY DEF CollectorInv, LatencyInv
<1> QED
  BY <1>1, CollectorInvariant, PTL

=============================================================================
