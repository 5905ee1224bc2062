-------------------------------- MODULE Wire --------------------------------
(***************************************************************************)
(* Common::Protocol on BinaryWriter and BinaryReader: how the messages of  *)
(* both channels are laid out in bytes, and how they are read back.        *)
(*                                                                         *)
(* A value is the w bytes that the little-endian host holds of it, least   *)
(* significant first; nothing here depends on whether they are those of an *)
(* integer, a float or a double, which the code copies to an integer byte  *)
(* by byte.  A chain of reads, of which each needs its bytes to be there   *)
(* and the first to fail ends the chain, succeeds exactly if the bytes of  *)
(* all of them are there; what a failed chain has read is thrown away by   *)
(* every caller.                                                           *)
(***************************************************************************)
EXTENDS Integers, Sequences

Byte == 0 .. 255

Word(w) == [1 .. w -> Byte]

\* HostToNetwork and NetworkToHost
ByteSwap(v, w) == [i \in 1 .. w |-> v[w + 1 - i]]

\* What writing the words vs, each of w bytes, one after the other appends to the buffer
\* (below, of a writer: its bytes so far).
Words(vs, w) == [i \in 1 .. w * Len(vs) |-> ByteSwap(vs[(i - 1) \div w + 1], w)[((i - 1) % w) + 1]]

HasRemaining(data, offset, count) == offset + count <= Len(data)

\* The k words of w bytes that stand behind the first offset bytes of data.
ReadWords(data, offset, k, w) ==
  [j \in 1 .. k |-> ByteSwap([i \in 1 .. w |-> data[offset + w * (j - 1) + i]], w)]

\* static_cast<uint16_t>, and back
UInt16(n) == <<n % 256, (n \div 256) % 256>>

UInt16Value(v) == v[1] + 256 * v[2]

-----------------------------------------------------------------------------
(* The header: one byte                                                         *)

MessageTypes == <<"RegisterUdpPort", "Play", "Pause", "Stop", "Reset", "SetRate",
                  "EntityControlInput", "EntityState", "EntitySpawn", "EntityDespawn">>

HeaderByte ==
  [RegisterUdpPort |-> 0, Play |-> 1, Pause |-> 2, Stop |-> 3, Reset |-> 4, SetRate |-> 5,
   EntityControlInput |-> 6, EntityState |-> 7, EntitySpawn |-> 8, EntityDespawn |-> 9]

SerializeHeader(writer, type) == Append(writer, HeaderByte[type])

\* The cast of a byte that is no type gives a value that no receiver compares equal.
TypeOfByte(b) == IF b < Len(MessageTypes) THEN MessageTypes[b + 1] ELSE "Unknown"

TryDeserializeHeader(data) == IF data = <<>> THEN "Unknown" ELSE TypeOfByte(data[1])

-----------------------------------------------------------------------------
(* The data channel: EntityControlInput                                         *)

EntityControlInputPayloadSize == 4 * 2 + 4 * 2

ControlInputs ==
  [entityId : Word(4), sequenceId : Word(4), throttle : Word(4), yaw : Word(4)]

SerializeEntityControlInput(writer, p) ==
  writer \o Words(<<p.entityId, p.sequenceId, p.throttle, p.yaw>>, 4)

ControlInputPacket(p) == SerializeEntityControlInput(SerializeHeader(<<>>, "EntityControlInput"), p)

\* Both of TryDeserialize's results: whether, and what.
IsControlInput(packet) ==
  /\ TryDeserializeHeader(packet) = "EntityControlInput"
  /\ HasRemaining(packet, 1, EntityControlInputPayloadSize)

ControlInputOf(packet) ==
  LET v == ReadWords(packet, 1, 4, 4) IN
  [entityId |-> v[1], sequenceId |-> v[2], throttle |-> v[3], yaw |-> v[4]]

-----------------------------------------------------------------------------
(* The data channel: EntityState                                                *)

EntityStateEntrySize == 4 + 4 * 5

Entries ==
  [entityId : Word(4), positionX : Word(4), positionY : Word(4), heading : Word(4),
   velocityX : Word(4), velocityY : Word(4)]

Batches == [sequenceId : Word(8), timestamp : Word(8), entities : Seq(Entries)]

EntryWords(e) ==
  <<e.entityId, e.positionX, e.positionY, e.heading, e.velocityX, e.velocityY>>

\* The loop over the entries: six words of each.
BatchWords(entities) ==
  [k \in 1 .. 6 * Len(entities) |-> EntryWords(entities[(k - 1) \div 6 + 1])[((k - 1) % 6) + 1]]

SerializeEntityStateBatch(writer, b) ==
  writer
    \o Words(<<b.sequenceId, b.timestamp>>, 8)
    \o Words(<<UInt16(Len(b.entities))>>, 2)
    \o Words(BatchWords(b.entities), 4)

BatchPacket(b) == SerializeEntityStateBatch(SerializeHeader(<<>>, "EntityState"), b)

\* The header, the sequence id, the time and the number of entries.
BatchHeadSize == 1 + 8 + 8 + 2

BatchPacketSize(n) == BatchHeadSize + EntityStateEntrySize * n

EntityCountOf(packet) == UInt16Value(ReadWords(packet, 17, 1, 2)[1])

IsBatch(packet) ==
  /\ TryDeserializeHeader(packet) = "EntityState"
  /\ HasRemaining(packet, 1, 8 + 8 + 2)
  /\ HasRemaining(packet, BatchHeadSize, EntityStateEntrySize * EntityCountOf(packet))

EntryOf(v, k) ==
  [entityId |-> v[6 * k - 5], positionX |-> v[6 * k - 4], positionY |-> v[6 * k - 3],
   heading |-> v[6 * k - 2], velocityX |-> v[6 * k - 1], velocityY |-> v[6 * k]]

BatchOf(packet) ==
  LET head == ReadWords(packet, 1, 2, 8)
      n    == EntityCountOf(packet)
      v    == ReadWords(packet, BatchHeadSize, 6 * n, 4)
  IN  [sequenceId |-> head[1], timestamp |-> head[2], entities |-> [k \in 1 .. n |-> EntryOf(v, k)]]

\* In place: eight bytes behind the header byte.
PatchEntityStateSequenceId(packet, sequenceId) ==
  IF Len(packet) < 1 + 8 THEN packet
  ELSE [i \in 1 .. Len(packet) |-> IF i \in 2 .. 9 THEN ByteSwap(sequenceId, 8)[i - 1] ELSE packet[i]]

\* The buffer of UdpReceiver::ReceiveWorker, and of UdpControlInputReceiver::ReceiveWorker.
ClientBufferSize == 2048

ServerBufferSize == 64

-----------------------------------------------------------------------------
(* The control channel: a stream of frames                                      *)

SpawnPayloads ==
  [entityId : Word(4), type : Word(1), positionX : Word(4), positionY : Word(4), heading : Word(4)]

SerializeEntitySpawn(writer, p) ==
  writer
    \o Words(<<p.entityId>>, 4)
    \o Words(<<p.type>>, 1)
    \o Words(<<p.positionX, p.positionY, p.heading>>, 4)

EntitySpawnOf(payload) ==
  LET v == ReadWords(payload, 5, 3, 4) IN
  [entityId |-> ReadWords(payload, 0, 1, 4)[1], type |-> ReadWords(payload, 4, 1, 1)[1],
   positionX |-> v[1], positionY |-> v[2], heading |-> v[3]]

StopPayloads ==
  [elapsedSeconds : Word(8),
   totalReceivedCount : Word(8), lossCount : Word(8), outOfOrderCount : Word(8), lossRate : Word(8),
   intervalSampleCount : Word(8), averageInterval : Word(8), maxInterval : Word(8),
   averageDeviation : Word(8), delayedPacketCount : Word(8), delayedPacketRate : Word(8),
   latencySampleCount : Word(8), averageLatency : Word(8), minLatency : Word(8), maxLatency : Word(8)]

SerializeStop(writer, p) ==
  writer \o
    Words(<<p.elapsedSeconds,
            p.totalReceivedCount, p.lossCount, p.outOfOrderCount, p.lossRate,
            p.intervalSampleCount, p.averageInterval, p.maxInterval, p.averageDeviation,
            p.delayedPacketCount, p.delayedPacketRate,
            p.latencySampleCount, p.averageLatency, p.minLatency, p.maxLatency>>, 8)

StopOf(payload) ==
  LET v == ReadWords(payload, 0, 15, 8) IN
  [elapsedSeconds |-> v[1],
   totalReceivedCount |-> v[2], lossCount |-> v[3], outOfOrderCount |-> v[4], lossRate |-> v[5],
   intervalSampleCount |-> v[6], averageInterval |-> v[7], maxInterval |-> v[8],
   averageDeviation |-> v[9], delayedPacketCount |-> v[10], delayedPacketRate |-> v[11],
   latencySampleCount |-> v[12], averageLatency |-> v[13], minLatency |-> v[14], maxLatency |-> v[15]]

\* The payload sizes of Protocol.h; Play, Pause and Reset have none.
PayloadSize ==
  [RegisterUdpPort |-> 2, Play |-> 0, Pause |-> 0, Stop |-> 8 * 15, Reset |-> 0, SetRate |-> 4,
   EntitySpawn |-> 4 + 1 + 4 * 3, EntityDespawn |-> 4]

ControlTypes == DOMAIN PayloadSize

\* The payloads of each type: a port, a rate, an entity id; a single word.
Payloads(type) ==
  CASE type \in {"Play", "Pause", "Reset"}   -> {<<>>}
    [] type = "RegisterUdpPort"              -> Word(2)
    [] type \in {"SetRate", "EntityDespawn"} -> Word(4)
    [] type = "EntitySpawn"                  -> SpawnPayloads
    [] type = "Stop"                         -> StopPayloads

SerializePayload(writer, type, p) ==
  CASE type \in {"Play", "Pause", "Reset"}   -> writer
    [] type = "RegisterUdpPort"              -> writer \o Words(<<p>>, 2)
    [] type \in {"SetRate", "EntityDespawn"} -> writer \o Words(<<p>>, 4)
    [] type = "EntitySpawn"                  -> SerializeEntitySpawn(writer, p)
    [] type = "Stop"                         -> SerializeStop(writer, p)

PayloadOf(type, payload) ==
  CASE type \in {"Play", "Pause", "Reset"}   -> <<>>
    [] type = "RegisterUdpPort"              -> ReadWords(payload, 0, 1, 2)[1]
    [] type \in {"SetRate", "EntityDespawn"} -> ReadWords(payload, 0, 1, 4)[1]
    [] type = "EntitySpawn"                  -> EntitySpawnOf(payload)
    [] type = "Stop"                         -> StopOf(payload)

Frame(type, p) == SerializePayload(SerializeHeader(<<>>, type), type, p)

\* ReceiveAll of the header byte, then of as many bytes as its type has; it waits for them.
CanReceive(stream) ==
  /\ Len(stream) >= 1
  /\ TypeOfByte(stream[1]) \in ControlTypes
  /\ Len(stream) >= 1 + PayloadSize[TypeOfByte(stream[1])]

Received(stream) ==
  LET type == TypeOfByte(stream[1])
      size == PayloadSize[type]
  IN  [ type    |-> type,
        payload |-> PayloadOf(type, SubSeq(stream, 2, 1 + size)),
        rest    |-> SubSeq(stream, 2 + size, Len(stream)) ]
=============================================================================
