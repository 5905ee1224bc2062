----------------------------- MODULE WireProofs -----------------------------
(***************************************************************************)
(* What the bytes of Wire say, for every payload and every length.         *)
(***************************************************************************)
EXTENDS Wire, TLAPS

Widths == {1, 2, 4, 8}

-----------------------------------------------------------------------------
(* Words *)

\* The bytes of n words of w bytes: where byte i of word j stands.
LEMMA WordPlace ==
  ASSUME NEW w \in Widths, NEW n \in Nat, NEW j \in 1 .. n, NEW i \in 1 .. w,
         NEW p, p = w * (j - 1) + i
  PROVE  /\ p \in 1 .. w * n
         /\ (p - 1) \div w + 1 = j
         /\ ((p - 1) % w) + 1 = i
<1>1. CASE w = 1  BY <1>1, SMT
<1>2. CASE w = 2  BY <1>2, SMT
<1>3. CASE w = 4  BY <1>3, SMT
<1>4. CASE w = 8  BY <1>4, SMT
<1> QED  BY <1>1, <1>2, <1>3, <1>4 DEF Widths

\* The other way round: byte p of n words is a byte of one of them.
LEMMA BytePlace ==
  ASSUME NEW w \in Widths, NEW n \in Nat, NEW p \in 1 .. w * n
  PROVE  /\ (p - 1) \div w + 1 \in 1 .. n
         /\ ((p - 1) % w) + 1 \in 1 .. w
         /\ p = w * ((p - 1) \div w) + ((p - 1) % w) + 1
<1>1. CASE w = 1  BY <1>1, SMT
<1>2. CASE w = 2  BY <1>2, SMT
<1>3. CASE w = 4  BY <1>3, SMT
<1>4. CASE w = 8  BY <1>4, SMT
<1> QED  BY <1>1, <1>2, <1>3, <1>4 DEF Widths

LEMMA SwapByte ==
  ASSUME NEW w \in Widths, NEW v \in Word(w)
  PROVE  ByteSwap(v, w) \in Word(w) /\ ByteSwap(ByteSwap(v, w), w) = v
BY DEF ByteSwap, Word, Widths

LEMMA WordsBytes ==
  ASSUME NEW w \in Widths, NEW vs \in Seq(Word(w))
  PROVE  /\ Words(vs, w) \in Seq(Byte)
         /\ Len(Words(vs, w)) = w * Len(vs)
         /\ \A j \in 1 .. Len(vs), i \in 1 .. w :
              Words(vs, w)[w * (j - 1) + i] = ByteSwap(vs[j], w)[i]
<1> DEFINE n == Len(vs)
<1>1. n \in Nat /\ w * n \in Nat
  BY DEF Widths
<1>2. Words(vs, w) \in [1 .. w * n -> Byte]
  <2>1. ASSUME NEW p \in 1 .. w * n
        PROVE  ByteSwap(vs[(p - 1) \div w + 1], w)[((p - 1) % w) + 1] \in Byte
    <3>1. (p - 1) \div w + 1 \in 1 .. n /\ ((p - 1) % w) + 1 \in 1 .. w
      BY <1>1, BytePlace
    <3>2. vs[(p - 1) \div w + 1] \in Word(w)
      BY <3>1
    <3>3. ByteSwap(vs[(p - 1) \div w + 1], w) \in Word(w)
      BY <3>2, SwapByte
    <3> QED  BY <3>1, <3>3 DEF Word
  <2> QED  BY <2>1 DEF Words
<1>3. Words(vs, w) \in Seq(Byte) /\ Len(Words(vs, w)) = w * n
  BY <1>1, <1>2
<1>4. ASSUME NEW j \in 1 .. n, NEW i \in 1 .. w
      PROVE  Words(vs, w)[w * (j - 1) + i] = ByteSwap(vs[j], w)[i]
  <2> DEFINE p == w * (j - 1) + i
  <2>1. p \in 1 .. w * n /\ (p - 1) \div w + 1 = j /\ ((p - 1) % w) + 1 = i
    BY <1>1, WordPlace
  <2> HIDE DEF p
  <2>2. Words(vs, w)[p] = ByteSwap(vs[(p - 1) \div w + 1], w)[((p - 1) % w) + 1]
    BY <2>1 DEF Words
  <2>3. Words(vs, w)[p] = ByteSwap(vs[j], w)[i]
    BY <2>1, <2>2, Zenon
  <2> QED  BY <2>3 DEF p
<1> QED  BY <1>3, <1>4

\* Words that stand somewhere in data are read back as they were.
LEMMA ReadBack ==
  ASSUME NEW w \in Widths, NEW vs \in Seq(Word(w)), NEW data, NEW offset \in Nat,
         \A p \in 1 .. w * Len(vs) : data[offset + p] = Words(vs, w)[p]
  PROVE  ReadWords(data, offset, Len(vs), w) = vs
<1>1. ASSUME NEW j \in 1 .. Len(vs)
      PROVE  ByteSwap([i \in 1 .. w |-> data[offset + w * (j - 1) + i]], w) = vs[j]
  <2>1. ASSUME NEW i \in 1 .. w
        PROVE  data[offset + w * (j - 1) + i] = ByteSwap(vs[j], w)[i]
    <3>1. w * (j - 1) + i \in 1 .. w * Len(vs)
      BY WordPlace
    <3>2. data[offset + (w * (j - 1) + i)] = Words(vs, w)[w * (j - 1) + i]
      BY <3>1
    <3>3. offset + (w * (j - 1) + i) = offset + w * (j - 1) + i
      BY <3>1 DEF Widths
    <3> QED  BY <3>2, <3>3, WordsBytes
  <2>2. vs[j] \in Word(w)
    OBVIOUS
  <2>3. [i \in 1 .. w |-> data[offset + w * (j - 1) + i]] = ByteSwap(vs[j], w)
    BY <2>1 DEF ByteSwap
  <2> QED  BY <2>2, <2>3, SwapByte
<1> QED  BY <1>1 DEF ReadWords

-----------------------------------------------------------------------------
(* Pieces of a packet *)

LEMMA Concat ==
  ASSUME NEW s \in Seq(Byte), NEW t \in Seq(Byte)
  PROVE  /\ s \o t \in Seq(Byte)
         /\ Len(s \o t) = Len(s) + Len(t)
         /\ \A i \in 1 .. Len(s) : (s \o t)[i] = s[i]
         /\ \A i \in 1 .. Len(t) : (s \o t)[Len(s) + i] = t[i]
OBVIOUS

LEMMA ConcatAssoc ==
  ASSUME NEW s \in Seq(Byte), NEW t \in Seq(Byte), NEW u \in Seq(Byte)
  PROVE  (s \o t) \o u = s \o (t \o u)
OBVIOUS

LEMMA SliceIs ==
  ASSUME NEW s \in Seq(Byte), NEW a \in Int, NEW z \in Int
  PROVE  SubSeq(s, a, z) = [i \in 1 .. (z - a) + 1 |-> s[(a + i) - 1]]
OBVIOUS

\* data begins with the bytes of writer.
Begins(data, writer) == \A i \in 1 .. Len(writer) : data[i] = writer[i]

LEMMA BeginsTrans ==
  ASSUME NEW s \in Seq(Byte), NEW t \in Seq(Byte), NEW data, Begins(data, s \o t)
  PROVE  Begins(data, s)
BY Concat DEF Begins

\* What writing words appends: its length, and that it is read back, whatever follows.
LEMMA Block ==
  ASSUME NEW w \in Widths, NEW vs \in Seq(Word(w)), NEW writer \in Seq(Byte)
  PROVE  /\ writer \o Words(vs, w) \in Seq(Byte)
         /\ Len(writer \o Words(vs, w)) = Len(writer) + w * Len(vs)
         /\ \A data : Begins(data, writer \o Words(vs, w)) =>
              Begins(data, writer) /\ ReadWords(data, Len(writer), Len(vs), w) = vs
<1> DEFINE s == writer \o Words(vs, w)
<1>1. Words(vs, w) \in Seq(Byte) /\ Len(Words(vs, w)) = w * Len(vs)
  BY WordsBytes
<1>2. /\ s \in Seq(Byte)
      /\ Len(s) = Len(writer) + w * Len(vs)
      /\ \A i \in 1 .. w * Len(vs) : s[Len(writer) + i] = Words(vs, w)[i]
  <2>1. /\ s \in Seq(Byte)
        /\ Len(s) = Len(writer) + Len(Words(vs, w))
        /\ \A i \in 1 .. Len(Words(vs, w)) : s[Len(writer) + i] = Words(vs, w)[i]
    BY <1>1, Concat, Zenon
  <2> QED  BY <1>1, <2>1, Zenon
<1>3. ASSUME NEW data, Begins(data, s)
      PROVE  Begins(data, writer) /\ ReadWords(data, Len(writer), Len(vs), w) = vs
  <2>1. Begins(data, writer)
    BY <1>1, <1>3, BeginsTrans
  <2>2. ASSUME NEW i \in 1 .. w * Len(vs)
        PROVE  data[Len(writer) + i] = Words(vs, w)[i]
    <3>1. w * Len(vs) \in Nat
      BY <1>1
    <3>2. Len(writer) + i \in 1 .. Len(s)
      BY <1>2, <3>1
    <3> QED  BY <3>2, <1>2, <1>3 DEF Begins
  <2>3. Len(writer) \in Nat
    OBVIOUS
  <2> QED  BY <2>1, <2>2, <2>3, ReadBack
<1> QED  BY <1>2, <1>3

LEMMA OneByte ==
  ASSUME NEW b \in Byte
  PROVE  Append(<<>>, b) \in Seq(Byte) /\ Len(Append(<<>>, b)) = 1 /\ Append(<<>>, b)[1] = b
OBVIOUS

LEMMA Header ==
  ASSUME NEW type \in DOMAIN HeaderByte
  PROVE  LET h == SerializeHeader(<<>>, type) IN
         /\ h \in Seq(Byte) /\ Len(h) = 1
         /\ TypeOfByte(h[1]) = type
         /\ \A data : Begins(data, h) => TypeOfByte(data[1]) = type
         /\ \A data \in Seq(Byte) : Len(data) >= 1 /\ Begins(data, h) =>
              TryDeserializeHeader(data) = type
<1> DEFINE h == SerializeHeader(<<>>, type)
<1>1. HeaderByte[type] \in Byte /\ TypeOfByte(HeaderByte[type]) = type
  BY DEF HeaderByte, TypeOfByte, MessageTypes, Byte
<1>2. h = Append(<<>>, HeaderByte[type])
  BY DEF SerializeHeader
<1>3. h \in Seq(Byte) /\ Len(h) = 1 /\ h[1] = HeaderByte[type]
  BY <1>1, <1>2, OneByte, Zenon
<1>4. \A data : Begins(data, h) => TypeOfByte(data[1]) = type
  BY <1>1, <1>3 DEF Begins
<1>5. \A data \in Seq(Byte) : Len(data) >= 1 => data # <<>>
  OBVIOUS
<1> QED  BY <1>1, <1>3, <1>4, <1>5 DEF TryDeserializeHeader

-----------------------------------------------------------------------------
(* The data channel *)

\* A control input arrives as it was sent (SerializeEntityControlInput against
\* TryDeserializeEntityControlInput), and UdpControlInputReceiver's buffer holds it.
THEOREM ControlInputIsRead ==
  ASSUME NEW p \in ControlInputs
  PROVE  /\ IsControlInput(ControlInputPacket(p))
         /\ ControlInputOf(ControlInputPacket(p)) = p
         /\ Len(ControlInputPacket(p)) <= ServerBufferSize
<1> DEFINE vs == <<p.entityId, p.sequenceId, p.throttle, p.yaw>>
           packet == ControlInputPacket(p)
           h == SerializeHeader(<<>>, "EntityControlInput")
<1>1. vs \in Seq(Word(4)) /\ Len(vs) = 4
  BY DEF ControlInputs
<1>2. 4 \in Widths
  BY DEF Widths
<1>3. packet = h \o Words(vs, 4)
  BY DEF ControlInputPacket, SerializeEntityControlInput
<1>4. /\ h \in Seq(Byte) /\ Len(h) = 1
      /\ \A data \in Seq(Byte) : Len(data) >= 1 /\ Begins(data, h) =>
           TryDeserializeHeader(data) = "EntityControlInput"
  BY Header DEF HeaderByte
<1> HIDE DEF vs, packet, h
<1>5. /\ packet \in Seq(Byte) /\ Len(packet) = Len(h) + 4 * Len(vs)
      /\ Begins(packet, packet) =>
           Begins(packet, h) /\ ReadWords(packet, Len(h), Len(vs), 4) = vs
  <2>1. h \in Seq(Byte)
    BY <1>4
  <2> QED  BY <1>1, <1>2, <1>3, <2>1, Block, Zenon
<1>6. Len(packet) = 17 /\ Len(packet) >= 1 /\ Begins(packet, packet)
  BY <1>1, <1>4, <1>5 DEF Begins
<1>7. IsControlInput(packet)
  <2>1. TryDeserializeHeader(packet) = "EntityControlInput"
    BY <1>4, <1>5, <1>6, Zenon
  <2>2. HasRemaining(packet, 1, EntityControlInputPayloadSize)
    BY <1>6 DEF HasRemaining, EntityControlInputPayloadSize
  <2> QED  BY <2>1, <2>2 DEF IsControlInput
<1>8. ReadWords(packet, 1, 4, 4) = vs
  BY <1>1, <1>4, <1>5, <1>6, Zenon
<1>9. ControlInputOf(packet) = p
  BY <1>8 DEF ControlInputOf, ControlInputs, vs
<1> QED  BY <1>6, <1>7, <1>9 DEF ServerBufferSize, packet

LEMMA CountIsKept ==
  ASSUME NEW n \in Nat
  PROVE  /\ UInt16(n) \in Word(2)
         /\ n < 65536 => UInt16Value(UInt16(n)) = n
<1>1. n % 256 \in Byte /\ (n \div 256) % 256 \in Byte
  BY DEF Byte
<1>2. n < 65536 => (n % 256) + 256 * ((n \div 256) % 256) = n
  OBVIOUS
<1>3. UInt16(n) \in Word(2)
  BY <1>1 DEF UInt16, Word
<1> QED  BY <1>2, <1>3 DEF UInt16, UInt16Value

\* Six words of each entry, in the order in which they are read.
LEMMA EntriesAreWords ==
  ASSUME NEW entities \in Seq(Entries)
  PROVE  /\ BatchWords(entities) \in Seq(Word(4))
         /\ Len(BatchWords(entities)) = 6 * Len(entities)
         /\ [k \in 1 .. Len(entities) |-> EntryOf(BatchWords(entities), k)] = entities
<1> DEFINE n == Len(entities)
           v == BatchWords(entities)
<1>1. n \in Nat
  OBVIOUS
<1>2. \A e \in Entries : EntryWords(e) \in [1 .. 6 -> Word(4)]
  BY DEF Entries, EntryWords
<1>3. v \in [1 .. 6 * n -> Word(4)]
  <2>1. ASSUME NEW k \in 1 .. 6 * n
        PROVE  EntryWords(entities[(k - 1) \div 6 + 1])[((k - 1) % 6) + 1] \in Word(4)
    <3>1. (k - 1) \div 6 + 1 \in 1 .. n /\ ((k - 1) % 6) + 1 \in 1 .. 6
      BY <1>1
    <3>2. entities[(k - 1) \div 6 + 1] \in Entries
      BY <3>1
    <3> QED  BY <3>1, <3>2, <1>2
  <2> QED  BY <2>1 DEF BatchWords
<1>4. v \in Seq(Word(4)) /\ Len(v) = 6 * n
  BY <1>1, <1>3
<1>5. ASSUME NEW k \in 1 .. n, NEW f \in 1 .. 6
      PROVE  v[6 * k - 6 + f] = EntryWords(entities[k])[f]
  <2> DEFINE p == 6 * k - 6 + f
  <2>1. p \in 1 .. 6 * n /\ (p - 1) \div 6 + 1 = k /\ ((p - 1) % 6) + 1 = f
    BY <1>1
  <2> HIDE DEF p
  <2>2. v[p] = EntryWords(entities[(p - 1) \div 6 + 1])[((p - 1) % 6) + 1]
    BY <2>1 DEF BatchWords
  <2>3. v[p] = EntryWords(entities[k])[f]
    BY <2>1, <2>2, Zenon
  <2> QED  BY <2>3 DEF p
<1>6. ASSUME NEW k \in 1 .. n
      PROVE  EntryOf(v, k) = entities[k]
  <2> HIDE DEF v
  <2>1. entities[k] \in Entries
    OBVIOUS
  <2>2. /\ v[6 * k - 5] = EntryWords(entities[k])[1] /\ v[6 * k - 4] = EntryWords(entities[k])[2]
        /\ v[6 * k - 3] = EntryWords(entities[k])[3] /\ v[6 * k - 2] = EntryWords(entities[k])[4]
        /\ v[6 * k - 1] = EntryWords(entities[k])[5] /\ v[6 * k] = EntryWords(entities[k])[6]
    <3>1. /\ v[6 * k - 6 + 1] = EntryWords(entities[k])[1]
          /\ v[6 * k - 6 + 2] = EntryWords(entities[k])[2]
          /\ v[6 * k - 6 + 3] = EntryWords(entities[k])[3]
          /\ v[6 * k - 6 + 4] = EntryWords(entities[k])[4]
          /\ v[6 * k - 6 + 5] = EntryWords(entities[k])[5]
          /\ v[6 * k - 6 + 6] = EntryWords(entities[k])[6]
      BY <1>5
    <3>2. /\ 6 * k - 6 + 1 = 6 * k - 5 /\ 6 * k - 6 + 2 = 6 * k - 4 /\ 6 * k - 6 + 3 = 6 * k - 3
          /\ 6 * k - 6 + 4 = 6 * k - 2 /\ 6 * k - 6 + 5 = 6 * k - 1 /\ 6 * k - 6 + 6 = 6 * k
      OBVIOUS
    <3> QED  BY <3>1, <3>2, Zenon
  <2> QED  BY <2>1, <2>2 DEF EntryOf, EntryWords, Entries
<1>7. [k \in 1 .. n |-> EntryOf(v, k)] = entities
  <2> HIDE DEF v
  <2>1. entities \in [1 .. n -> Entries]
    OBVIOUS
  <2> QED  BY <1>6, <2>1
<1> QED  BY <1>4, <1>7

\* Where the parts of a batch stand, in any bytes that begin with its packet.
LEMMA BatchLayout ==
  ASSUME NEW b \in Batches
  PROVE  /\ BatchPacket(b) \in Seq(Byte)
         /\ Len(BatchPacket(b)) = BatchPacketSize(Len(b.entities))
         /\ \A data \in Seq(Byte) : Len(data) >= 1 /\ Begins(data, BatchPacket(b)) =>
              /\ TryDeserializeHeader(data) = "EntityState"
              /\ ReadWords(data, 1, 2, 8) = <<b.sequenceId, b.timestamp>>
              /\ ReadWords(data, 17, 1, 2) = <<UInt16(Len(b.entities))>>
              /\ ReadWords(data, BatchHeadSize, 6 * Len(b.entities), 4) = BatchWords(b.entities)
<1> DEFINE n  == Len(b.entities)
           v1 == <<b.sequenceId, b.timestamp>>
           v2 == <<UInt16(n)>>
           v3 == BatchWords(b.entities)
           p0 == SerializeHeader(<<>>, "EntityState")
           p1 == p0 \o Words(v1, 8)
           p2 == p1 \o Words(v2, 2)
           p3 == p2 \o Words(v3, 4)
<1>1. n \in Nat /\ b.entities \in Seq(Entries)
  BY DEF Batches
<1>2. v1 \in Seq(Word(8)) /\ Len(v1) = 2
  BY DEF Batches
<1>3. v2 \in Seq(Word(2)) /\ Len(v2) = 1
  BY <1>1, CountIsKept
<1>4. v3 \in Seq(Word(4)) /\ Len(v3) = 6 * n
  BY <1>1, EntriesAreWords
<1>5. /\ p0 \in Seq(Byte) /\ Len(p0) = 1
      /\ \A data \in Seq(Byte) : Len(data) >= 1 /\ Begins(data, p0) =>
           TryDeserializeHeader(data) = "EntityState"
  BY Header DEF HeaderByte
<1>6. BatchPacket(b) = p3
  BY DEF BatchPacket, SerializeEntityStateBatch
<1>7. 2 \in Widths /\ 4 \in Widths /\ 8 \in Widths
  BY DEF Widths
<1> HIDE DEF n, v1, v2, v3, p0, p1, p2, p3
<1>8. /\ p1 \in Seq(Byte) /\ Len(p1) = Len(p0) + 8 * Len(v1)
      /\ \A data : Begins(data, p1) => Begins(data, p0) /\ ReadWords(data, Len(p0), Len(v1), 8) = v1
  BY <1>2, <1>5, <1>7, Block, Zenon DEF p1
<1>9. /\ p2 \in Seq(Byte) /\ Len(p2) = Len(p1) + 2 * Len(v2)
      /\ \A data : Begins(data, p2) => Begins(data, p1) /\ ReadWords(data, Len(p1), Len(v2), 2) = v2
  BY <1>3, <1>8, <1>7, Block, Zenon DEF p2
<1>10. /\ p3 \in Seq(Byte) /\ Len(p3) = Len(p2) + 4 * Len(v3)
       /\ \A data : Begins(data, p3) => Begins(data, p2) /\ ReadWords(data, Len(p2), Len(v3), 4) = v3
  BY <1>4, <1>9, <1>7, Block, Zenon DEF p3
<1>13. Len(p1) = 17 /\ Len(p2) = BatchHeadSize /\ Len(p3) = BatchPacketSize(n)
  BY <1>1, <1>2, <1>3, <1>4, <1>5, <1>8, <1>9, <1>10
     DEF BatchHeadSize, BatchPacketSize, EntityStateEntrySize
<1>12. ASSUME NEW data \in Seq(Byte), Len(data) >= 1, Begins(data, p3)
       PROVE  /\ TryDeserializeHeader(data) = "EntityState"
              /\ ReadWords(data, 1, 2, 8) = v1
              /\ ReadWords(data, 17, 1, 2) = v2
              /\ ReadWords(data, BatchHeadSize, 6 * n, 4) = v3
  <2>1. Begins(data, p2) /\ Begins(data, p1) /\ Begins(data, p0)
    BY <1>8, <1>9, <1>10, <1>12, Zenon
  <2>2. TryDeserializeHeader(data) = "EntityState"
    BY <1>5, <1>12, <2>1, Zenon
  <2>3. ReadWords(data, 1, 2, 8) = v1
    BY <1>2, <1>5, <1>8, <2>1, Zenon
  <2>4. ReadWords(data, 17, 1, 2) = v2
    BY <1>3, <1>9, <1>13, <2>1, Zenon
  <2>5. ReadWords(data, BatchHeadSize, 6 * n, 4) = v3
    BY <1>4, <1>10, <1>13, <1>12, Zenon
  <2> QED  BY <2>2, <2>3, <2>4, <2>5
<1> QED  BY <1>6, <1>10, <1>13, <1>12 DEF n, v1, v2, v3

\* A batch arrives as it was sent (SerializeEntityStateBatch against
\* TryDeserializeEntityStateBatch), as long as its count fits the two bytes it has.
THEOREM BatchIsRead ==
  ASSUME NEW b \in Batches, Len(b.entities) < 65536
  PROVE  IsBatch(BatchPacket(b)) /\ BatchOf(BatchPacket(b)) = b
<1> DEFINE packet == BatchPacket(b)
           n == Len(b.entities)
<1>1. /\ packet \in Seq(Byte) /\ Len(packet) = BatchPacketSize(n)
      /\ n \in Nat /\ b.entities \in Seq(Entries)
  BY BatchLayout DEF Batches
<1>2. Len(packet) >= 1 /\ Begins(packet, packet)
  BY <1>1 DEF BatchPacketSize, BatchHeadSize, EntityStateEntrySize, Begins
<1>3. /\ TryDeserializeHeader(packet) = "EntityState"
      /\ ReadWords(packet, 1, 2, 8) = <<b.sequenceId, b.timestamp>>
      /\ ReadWords(packet, 17, 1, 2) = <<UInt16(n)>>
      /\ ReadWords(packet, BatchHeadSize, 6 * n, 4) = BatchWords(b.entities)
  <2>1. \A data \in Seq(Byte) : Len(data) >= 1 /\ Begins(data, packet) =>
          /\ TryDeserializeHeader(data) = "EntityState"
          /\ ReadWords(data, 1, 2, 8) = <<b.sequenceId, b.timestamp>>
          /\ ReadWords(data, 17, 1, 2) = <<UInt16(n)>>
          /\ ReadWords(data, BatchHeadSize, 6 * n, 4) = BatchWords(b.entities)
    BY BatchLayout
  <2> HIDE DEF packet, n
  <2> QED  BY <1>1, <1>2, <2>1
<1>4. EntityCountOf(packet) = n
  BY <1>1, <1>3, CountIsKept DEF EntityCountOf
<1> HIDE DEF packet
<1>5. IsBatch(packet)
  BY <1>1, <1>3, <1>4
     DEF IsBatch, HasRemaining, BatchPacketSize, BatchHeadSize, EntityStateEntrySize
<1>6. BatchOf(packet)
        = [sequenceId |-> b.sequenceId, timestamp |-> b.timestamp,
           entities |-> [k \in 1 .. n |-> EntryOf(BatchWords(b.entities), k)]]
  BY <1>3, <1>4 DEF BatchOf
<1>7. BatchOf(packet) = b
  BY <1>1, <1>6, EntriesAreWords DEF Batches
<1> QED  BY <1>5, <1>7 DEF packet

\* A packet cut short anywhere is refused as a whole: no entry of it is taken.
THEOREM CutBatchIsRefused ==
  ASSUME NEW b \in Batches, Len(b.entities) < 65536,
         NEW packet \in Seq(Byte), Len(packet) < Len(BatchPacket(b)),
         \A i \in 1 .. Len(packet) : packet[i] = BatchPacket(b)[i]
  PROVE  ~IsBatch(packet)
<1> DEFINE n == Len(b.entities)
<1>1. /\ BatchPacket(b) \in Seq(Byte) /\ Len(BatchPacket(b)) = BatchPacketSize(n)
      /\ n \in Nat
  BY BatchLayout DEF Batches
<1>2. CASE Len(packet) < BatchHeadSize
  BY <1>2 DEF IsBatch, HasRemaining, BatchHeadSize
<1>3. CASE Len(packet) >= BatchHeadSize
  <2>1. \A i \in 1 .. BatchHeadSize : packet[i] = BatchPacket(b)[i]
    BY <1>3 DEF BatchHeadSize
  <2>2. ReadWords(packet, 17, 1, 2) = ReadWords(BatchPacket(b), 17, 1, 2)
    BY <2>1 DEF ReadWords, ByteSwap, BatchHeadSize
  <2>3. EntityCountOf(BatchPacket(b)) = n
    <3>1. Len(BatchPacket(b)) >= 1 /\ Begins(BatchPacket(b), BatchPacket(b))
      BY <1>1 DEF BatchPacketSize, BatchHeadSize, EntityStateEntrySize, Begins
    <3>2. ReadWords(BatchPacket(b), 17, 1, 2) = <<UInt16(n)>>
      BY <1>1, <3>1, BatchLayout
    <3> QED  BY <1>1, <3>2, CountIsKept DEF EntityCountOf
  <2>4. EntityCountOf(packet) = n
    BY <2>2, <2>3 DEF EntityCountOf
  <2>5. Len(packet) < BatchHeadSize + EntityStateEntrySize * n
    BY <1>1 DEF BatchPacketSize
  <2> QED  BY <1>1, <2>4, <2>5 DEF IsBatch, HasRemaining, BatchHeadSize, EntityStateEntrySize
<1> QED  BY <1>2, <1>3 DEF BatchHeadSize

\* The client's buffer holds 84 entities (the comment of UdpReceiver.cpp:58 counts on 60),
\* and the next one makes every batch of the tick one that recvfrom refuses.
THEOREM BufferHolds84 ==
  ASSUME NEW b \in Batches
  PROVE  Len(BatchPacket(b)) <= ClientBufferSize <=> Len(b.entities) <= 84
BY BatchLayout DEF Batches, BatchPacketSize, BatchHeadSize, EntityStateEntrySize, ClientBufferSize

LEMMA TwoWords ==
  ASSUME NEW x \in Word(8), NEW y \in Word(8)
  PROVE  /\ Words(<<x, y>>, 8) \in Seq(Byte)
         /\ Len(Words(<<x, y>>, 8)) = 16
         /\ \A i \in 1 .. 8 : Words(<<x, y>>, 8)[i] = ByteSwap(x, 8)[i]
         /\ \A i \in 9 .. 16 : Words(<<x, y>>, 8)[i] = ByteSwap(y, 8)[i - 8]
<1> DEFINE v == <<x, y>>
<1>1. v \in Seq(Word(8)) /\ Len(v) = 2 /\ v[1] = x /\ v[2] = y /\ 8 \in Widths
  BY DEF Widths
<1> HIDE DEF v
<1>2. Words(v, 8) \in Seq(Byte) /\ Len(Words(v, 8)) = 8 * Len(v)
  BY <1>1, WordsBytes, Zenon
<1>3. \A i \in 1 .. 16 : Words(v, 8)[i] = ByteSwap(v[(i - 1) \div 8 + 1], 8)[((i - 1) % 8) + 1]
  BY <1>1 DEF Words
<1>4. ASSUME NEW i \in 1 .. 8 PROVE Words(v, 8)[i] = ByteSwap(x, 8)[i]
  <2>1. i \in 1 .. 16 /\ (i - 1) \div 8 + 1 = 1 /\ ((i - 1) % 8) + 1 = i
    OBVIOUS
  <2> QED  BY <1>1, <1>3, <2>1, Zenon
<1>5. ASSUME NEW i \in 9 .. 16 PROVE Words(v, 8)[i] = ByteSwap(y, 8)[i - 8]
  <2>1. i \in 1 .. 16 /\ (i - 1) \div 8 + 1 = 2 /\ ((i - 1) % 8) + 1 = i - 8
    OBVIOUS
  <2> QED  BY <1>1, <1>3, <2>1, Zenon
<1> QED  BY <1>1, <1>2, <1>4, <1>5 DEF v

\* p is h, s and t, one after the other.
Parts(p, h, s, t) ==
  /\ p \in Seq(Byte) /\ Len(p) = 17 + Len(t)
  /\ p[1] = h[1]
  /\ \A i \in 2 .. 17 : p[i] = s[i - 1]
  /\ \A i \in 18 .. 17 + Len(t) : p[i] = t[i - 17]

LEMMA ThreeParts ==
  ASSUME NEW h \in Seq(Byte), Len(h) = 1, NEW s \in Seq(Byte), Len(s) = 16, NEW t \in Seq(Byte)
  PROVE  Parts((h \o s) \o t, h, s, t)
<1> DEFINE q == h \o s
<1>1. q \in Seq(Byte) /\ Len(q) = 17 /\ q[1] = h[1] /\ \A i \in 1 .. 16 : q[1 + i] = s[i]
  <2>1. /\ q \in Seq(Byte) /\ Len(q) = Len(h) + Len(s)
        /\ \A i \in 1 .. Len(h) : q[i] = h[i]
        /\ \A i \in 1 .. Len(s) : q[Len(h) + i] = s[i]
    BY Concat, Zenon
  <2> HIDE DEF q
  <2>2. \A i \in 1 .. 16 : q[1 + i] = s[i]
    BY <2>1, Zenon
  <2>3. \A i \in 1 .. 1 : q[i] = h[i]
    BY <2>1, Zenon
  <2> QED  BY <2>1, <2>2, <2>3
<1>2. ASSUME NEW i \in 2 .. 17 PROVE q[i] = s[i - 1]
  <2>1. i - 1 \in 1 .. 16 /\ 1 + (i - 1) = i
    OBVIOUS
  <2> QED  BY <1>1, <2>1, Zenon
<1> HIDE DEF q
<1> DEFINE p == q \o t
<1>3. Len(q) = 17 /\ q \in Seq(Byte)
  BY <1>1
<1>4. /\ p \in Seq(Byte) /\ Len(p) = 17 + Len(t)
      /\ \A i \in 1 .. 17 : p[i] = q[i]
      /\ \A i \in 1 .. Len(t) : p[17 + i] = t[i]
  <2>1. /\ p \in Seq(Byte) /\ Len(p) = Len(q) + Len(t)
        /\ \A i \in 1 .. Len(q) : p[i] = q[i]
        /\ \A i \in 1 .. Len(t) : p[Len(q) + i] = t[i]
    BY <1>3, Concat, Zenon
  <2> HIDE DEF p
  <2> QED  BY <1>3, <2>1, Zenon
<1> HIDE DEF p
<1>5. ASSUME NEW i \in 18 .. 17 + Len(t) PROVE p[i] = t[i - 17]
  <2>1. i - 17 \in 1 .. Len(t) /\ 17 + (i - 17) = i
    OBVIOUS
  <2> QED  BY <1>4, <2>1, Zenon
<1>6. p[1] = h[1]
  BY <1>1, <1>4
<1>7. \A i \in 2 .. 17 : p[i] = s[i - 1]
  <2>1. \A i \in 2 .. 17 : i \in 1 .. 17
    OBVIOUS
  <2> QED  BY <1>2, <1>4, <2>1, Zenon
<1>8. Parts(p, h, s, t)
  BY <1>4, <1>5, <1>6, <1>7, Zenon DEF Parts
<1> QED  BY <1>8 DEF p, q

\* The same batch under another sequence id.
WithSequenceId(b, id) ==
  [sequenceId |-> id, timestamp |-> b.timestamp, entities |-> b.entities]

\* Patching the bytes in place is writing the batch again with the other sequence id: the
\* offset of PatchEntityStateSequenceId is where SerializeEntityStateBatch puts the field.
THEOREM PatchIsAnotherBatch ==
  ASSUME NEW b \in Batches, NEW id \in Word(8)
  PROVE  PatchEntityStateSequenceId(BatchPacket(b), id) = BatchPacket(WithSequenceId(b, id))
<1> DEFINE c    == WithSequenceId(b, id)
           h    == SerializeHeader(<<>>, "EntityState")
           old  == Words(<<b.sequenceId, b.timestamp>>, 8)
           new  == Words(<<id, b.timestamp>>, 8)
           tail == Words(<<UInt16(Len(b.entities))>>, 2) \o Words(BatchWords(b.entities), 4)
<1>1. /\ 2 \in Widths /\ 4 \in Widths /\ 8 \in Widths
      /\ b.sequenceId \in Word(8) /\ b.timestamp \in Word(8)
      /\ Len(b.entities) \in Nat /\ b.entities \in Seq(Entries)
  BY DEF Widths, Batches
<1>2. tail \in Seq(Byte) /\ \A s \in Seq(Byte) :
        (s \o Words(<<UInt16(Len(b.entities))>>, 2)) \o Words(BatchWords(b.entities), 4) = s \o tail
  <2>1. <<UInt16(Len(b.entities))>> \in Seq(Word(2)) /\ BatchWords(b.entities) \in Seq(Word(4))
    BY <1>1, CountIsKept, EntriesAreWords
  <2>2. /\ Words(<<UInt16(Len(b.entities))>>, 2) \in Seq(Byte)
        /\ Words(BatchWords(b.entities), 4) \in Seq(Byte)
    BY <1>1, <2>1, WordsBytes, Zenon
  <2> QED  BY <2>2, Concat, ConcatAssoc, ZenonT(60)
<1>3. h \in Seq(Byte) /\ Len(h) = 1
  BY Header DEF HeaderByte
<1>4. BatchPacket(b) = (h \o old) \o tail
  <2> HIDE DEF tail
  <2>1. h \o old \in Seq(Byte)
    <3>1. <<b.sequenceId, b.timestamp>> \in Seq(Word(8))
      BY <1>1
    <3>2. old \in Seq(Byte)
      BY <1>1, <3>1, WordsBytes, Zenon
    <3> QED  BY <1>3, <3>2, Concat, Zenon
  <2> QED  BY <1>2, <2>1 DEF BatchPacket, SerializeEntityStateBatch
<1>5. BatchPacket(c) = (h \o new) \o tail
  <2> HIDE DEF tail
  <2>1. h \o new \in Seq(Byte)
    <3>1. <<id, b.timestamp>> \in Seq(Word(8))
      BY <1>1
    <3>2. new \in Seq(Byte)
      BY <1>1, <3>1, WordsBytes, Zenon
    <3> QED  BY <1>3, <3>2, Concat, Zenon
  <2>2. c.sequenceId = id /\ c.timestamp = b.timestamp /\ c.entities = b.entities
    BY DEF WithSequenceId
  <2> QED  BY <1>2, <2>1, <2>2 DEF BatchPacket, SerializeEntityStateBatch
<1>6. /\ old \in Seq(Byte) /\ Len(old) = 16 /\ new \in Seq(Byte) /\ Len(new) = 16
      /\ \A i \in 1 .. 8 : new[i] = ByteSwap(id, 8)[i]
      /\ \A i \in 9 .. 16 : new[i] = old[i]
  <2>1. /\ old \in Seq(Byte) /\ Len(old) = 16
        /\ \A i \in 9 .. 16 : old[i] = ByteSwap(b.timestamp, 8)[i - 8]
    BY <1>1, TwoWords, Zenon
  <2>2. /\ new \in Seq(Byte) /\ Len(new) = 16
        /\ \A i \in 1 .. 8 : new[i] = ByteSwap(id, 8)[i]
        /\ \A i \in 9 .. 16 : new[i] = ByteSwap(b.timestamp, 8)[i - 8]
    BY <1>1, TwoWords, Zenon
  <2> HIDE DEF old, new
  <2> QED  BY <2>1, <2>2, Zenon
<1> HIDE DEF c, h, old, new, tail
<1>7. Parts(BatchPacket(b), h, old, tail)
  <2>1. tail \in Seq(Byte)
    BY <1>2
  <2>2. Parts((h \o old) \o tail, h, old, tail)
    BY <1>3, <1>6, <2>1, ThreeParts, Zenon
  <2> QED  BY <1>4, <2>2, Zenon
<1>8. Parts(BatchPacket(c), h, new, tail)
  <2>1. tail \in Seq(Byte)
    BY <1>2
  <2>2. Parts((h \o new) \o tail, h, new, tail)
    BY <1>3, <1>6, <2>1, ThreeParts, Zenon
  <2> QED  BY <1>5, <2>2, Zenon
<1>9. Len(tail) \in Nat
  BY <1>2
<1>10. ASSUME NEW i \in 1 .. 17 + Len(tail)
      PROVE  BatchPacket(c)[i]
               = IF i \in 2 .. 9 THEN ByteSwap(id, 8)[i - 1] ELSE BatchPacket(b)[i]
  <2>1. CASE i = 1
    BY <2>1, <1>7, <1>8 DEF Parts
  <2>2. CASE i \in 2 .. 9
    <3>1. i - 1 \in 1 .. 8 /\ i \in 2 .. 17
      BY <2>2
    <3> QED  BY <2>2, <3>1, <1>6, <1>8, Zenon DEF Parts
  <2>3. CASE i \in 10 .. 17
    <3>1. i - 1 \in 9 .. 16 /\ i \in 2 .. 17 /\ i \notin 2 .. 9
      BY <2>3
    <3> QED  BY <3>1, <1>6, <1>7, <1>8, ZenonT(60) DEF Parts
  <2>4. CASE i \in 18 .. 17 + Len(tail)
    BY <2>4, <1>7, <1>8, SMTT(60) DEF Parts
  <2> QED  BY <2>1, <2>2, <2>3, <2>4, <1>9
<1>11. PatchEntityStateSequenceId(BatchPacket(b), id)
        = [i \in 1 .. 17 + Len(tail) |->
             IF i \in 2 .. 9 THEN ByteSwap(id, 8)[i - 1] ELSE BatchPacket(b)[i]]
  BY <1>9, <1>7 DEF PatchEntityStateSequenceId, Parts
<1>12. BatchPacket(c) = [i \in 1 .. 17 + Len(tail) |-> BatchPacket(c)[i]]
  BY <1>8 DEF Parts
<1>13. PatchEntityStateSequenceId(BatchPacket(b), id) = BatchPacket(c)
  BY <1>10, <1>11, <1>12
<1> QED  BY <1>13 DEF c

\* What each recipient of a tick reads, from the one buffer that is patched for recipient
\* after recipient (UdpStreamingService::Worker): its own id, and the same entities.
THEOREM RecipientsReadTheirOwn ==
  ASSUME NEW b \in Batches, Len(b.entities) < 65536, NEW earlier \in Word(8), NEW id \in Word(8)
  PROVE  LET packet == PatchEntityStateSequenceId(
                         PatchEntityStateSequenceId(BatchPacket(b), earlier), id)
         IN  /\ IsBatch(packet)
             /\ BatchOf(packet) = WithSequenceId(b, id)
<1> DEFINE c == WithSequenceId(b, earlier)
           d == WithSequenceId(b, id)
<1>1. c \in Batches /\ d \in Batches /\ d.entities = b.entities
  BY DEF Batches, WithSequenceId
<1>2. WithSequenceId(c, id) = d
  BY DEF WithSequenceId
<1> HIDE DEF c, d
<1>3. PatchEntityStateSequenceId(BatchPacket(b), earlier) = BatchPacket(c)
  BY PatchIsAnotherBatch DEF c
<1>4. PatchEntityStateSequenceId(BatchPacket(c), id) = BatchPacket(d)
  BY <1>1, <1>2, PatchIsAnotherBatch
<1>5. IsBatch(BatchPacket(d)) /\ BatchOf(BatchPacket(d)) = d
  BY <1>1, BatchIsRead
<1> QED  BY <1>3, <1>4, <1>5 DEF d

-----------------------------------------------------------------------------
(* The control channel *)

LEMMA Empty ==
  /\ <<>> \in Seq(Byte) /\ Len(<<>>) = 0
  /\ \A s \in Seq(Byte) : <<>> \o s = s /\ s \o <<>> = s
OBVIOUS

LEMMA BeginsSelf == \A s : Begins(s, s)
BY DEF Begins

\* A payload's bytes on their own, as ReceiveAll gets them: their number is the constant of
\* Protocol.h, they are read back, and writing them behind a header only appends them.
PayloadIsRead(type, p) ==
  LET payload == SerializePayload(<<>>, type, p) IN
  /\ payload \in Seq(Byte) /\ Len(payload) = PayloadSize[type]
  /\ PayloadOf(type, payload) = p
  /\ \A s \in Seq(Byte) : SerializePayload(s, type, p) = s \o payload

\* A payload of k words of w bytes.
LEMMA WordsPayload ==
  ASSUME NEW w \in Widths, NEW vs \in Seq(Word(w))
  PROVE  LET payload == <<>> \o Words(vs, w) IN
         /\ payload \in Seq(Byte) /\ Len(payload) = w * Len(vs)
         /\ ReadWords(payload, 0, Len(vs), w) = vs
         /\ \A s \in Seq(Byte) : s \o Words(vs, w) = s \o payload
<1> DEFINE payload == <<>> \o Words(vs, w)
<1>1. Words(vs, w) \in Seq(Byte) /\ Len(Words(vs, w)) = w * Len(vs)
  BY WordsBytes
<1>2. payload = Words(vs, w)
  BY <1>1, Empty, Zenon
<1>3. ReadWords(payload, Len(<<>>), Len(vs), w) = vs
  <2>1. <<>> \in Seq(Byte)
    BY Empty
  <2>2. \A data : Begins(data, payload) =>
          Begins(data, <<>>) /\ ReadWords(data, Len(<<>>), Len(vs), w) = vs
    BY <2>1, Block, Zenon
  <2> HIDE DEF payload
  <2> QED  BY <2>2, BeginsSelf, Zenon
<1>4. ReadWords(payload, 0, Len(vs), w) = vs
  BY <1>3, Empty, Zenon
<1> HIDE DEF payload
<1> QED  BY <1>1, <1>2, <1>4, Zenon DEF payload

LEMMA OneWordPayload ==
  ASSUME NEW w \in Widths, NEW p \in Word(w)
  PROVE  LET payload == <<>> \o Words(<<p>>, w) IN
         /\ payload \in Seq(Byte) /\ Len(payload) = w
         /\ ReadWords(payload, 0, 1, w)[1] = p
         /\ \A s \in Seq(Byte) : s \o Words(<<p>>, w) = s \o payload
<1> DEFINE vs == <<p>>
           payload == <<>> \o Words(vs, w)
<1>1. vs \in Seq(Word(w)) /\ Len(vs) = 1 /\ vs[1] = p
  OBVIOUS
<1> HIDE DEF vs
<1>2. /\ payload \in Seq(Byte) /\ Len(payload) = w * Len(vs)
      /\ ReadWords(payload, 0, Len(vs), w) = vs
      /\ \A s \in Seq(Byte) : s \o Words(vs, w) = s \o payload
  BY <1>1, WordsPayload, Zenon
<1>3. w * 1 = w
  BY DEF Widths
<1>4. Len(payload) = w /\ ReadWords(payload, 0, 1, w)[1] = p
  BY <1>1, <1>2, <1>3, Zenon
<1> QED  BY <1>2, <1>4, Zenon DEF vs

LEMMA StopIsRead ==
  ASSUME NEW p \in StopPayloads
  PROVE  PayloadIsRead("Stop", p)
<1> DEFINE vs == <<p.elapsedSeconds,
                   p.totalReceivedCount, p.lossCount, p.outOfOrderCount, p.lossRate,
                   p.intervalSampleCount, p.averageInterval, p.maxInterval, p.averageDeviation,
                   p.delayedPacketCount, p.delayedPacketRate,
                   p.latencySampleCount, p.averageLatency, p.minLatency, p.maxLatency>>
           payload == <<>> \o Words(vs, 8)
<1>1. vs \in Seq(Word(8)) /\ Len(vs) = 15 /\ 8 \in Widths
  BY DEF StopPayloads, Widths
<1>2. \A s : SerializePayload(s, "Stop", p) = s \o Words(vs, 8)
  BY DEF SerializePayload, SerializeStop
<1> HIDE DEF vs
<1>3. /\ payload \in Seq(Byte) /\ Len(payload) = 8 * Len(vs)
      /\ ReadWords(payload, 0, Len(vs), 8) = vs
      /\ \A s \in Seq(Byte) : s \o Words(vs, 8) = s \o payload
  BY <1>1, WordsPayload, Zenon
<1> HIDE DEF payload
<1>4. Len(payload) = PayloadSize["Stop"]
  BY <1>1, <1>3 DEF PayloadSize
<1>5. ReadWords(payload, 0, 15, 8) = vs
  BY <1>1, <1>3, Zenon
<1>6. StopOf(payload) = p
  BY <1>5 DEF StopOf, vs, StopPayloads
<1>7. PayloadOf("Stop", payload) = p
  BY <1>6 DEF PayloadOf
<1>8. SerializePayload(<<>>, "Stop", p) = payload
  BY <1>2 DEF payload
<1> QED  BY <1>2, <1>3, <1>4, <1>7, <1>8, Zenon DEF PayloadIsRead

LEMMA SpawnIsRead ==
  ASSUME NEW p \in SpawnPayloads
  PROVE  PayloadIsRead("EntitySpawn", p)
<1> DEFINE v1 == <<p.entityId>>
           v2 == <<p.type>>
           v3 == <<p.positionX, p.positionY, p.heading>>
           e == <<>>
           p1 == e \o Words(v1, 4)
           p2 == p1 \o Words(v2, 1)
           p3 == p2 \o Words(v3, 4)
<1>1. /\ v1 \in Seq(Word(4)) /\ Len(v1) = 1
      /\ v2 \in Seq(Word(1)) /\ Len(v2) = 1
      /\ v3 \in Seq(Word(4)) /\ Len(v3) = 3
      /\ 1 \in Widths /\ 4 \in Widths
  BY DEF SpawnPayloads, Widths
<1>2. \A s : SerializePayload(s, "EntitySpawn", p)
          = ((s \o Words(v1, 4)) \o Words(v2, 1)) \o Words(v3, 4)
  BY DEF SerializePayload, SerializeEntitySpawn
<1> HIDE DEF v1, v2, v3
<1>3. SerializePayload(<<>>, "EntitySpawn", p) = p3
  BY <1>2
<1>4. e \in Seq(Byte) /\ Len(e) = 0
  BY Empty
<1> HIDE DEF e, p2, p3
<1>5. /\ p1 \in Seq(Byte) /\ Len(p1) = Len(e) + 4 * Len(v1)
      /\ \A data : Begins(data, p1) => Begins(data, e) /\ ReadWords(data, Len(e), Len(v1), 4) = v1
  <2>1. 4 \in Widths /\ v1 \in Seq(Word(4)) /\ e \in Seq(Byte)
    BY <1>1, <1>4
  <2> QED  BY <2>1, Block, ZenonT(30)
<1> HIDE DEF p1
<1> USE DEF p2
<1>6. /\ p2 \in Seq(Byte) /\ Len(p2) = Len(p1) + 1 * Len(v2)
      /\ \A data : Begins(data, p2) => Begins(data, p1) /\ ReadWords(data, Len(p1), Len(v2), 1) = v2
  BY <1>1, <1>5, Block, ZenonT(60)
<1> HIDE DEF p2
<1> USE DEF p3
<1>7. /\ p3 \in Seq(Byte) /\ Len(p3) = Len(p2) + 4 * Len(v3)
      /\ \A data : Begins(data, p3) => Begins(data, p2) /\ ReadWords(data, Len(p2), Len(v3), 4) = v3
  BY <1>1, <1>6, Block, ZenonT(60)
<1> HIDE DEF p3
<1>8. Len(p1) = 4 /\ Len(p2) = 5 /\ Len(p3) = 17
  BY <1>1, <1>4, <1>5, <1>6, <1>7
<1>9. /\ ReadWords(p3, 0, 1, 4) = v1 /\ ReadWords(p3, 4, 1, 1) = v2
      /\ ReadWords(p3, 5, 3, 4) = v3
  <2>1. Begins(p3, p2) /\ Begins(p3, p1)
    BY <1>6, <1>7, BeginsSelf, Zenon
  <2> QED  BY <1>1, <1>4, <1>5, <1>6, <1>7, <1>8, <2>1, BeginsSelf, Zenon
<1>10. EntitySpawnOf(p3) = p
  BY <1>9 DEF EntitySpawnOf, SpawnPayloads, v1, v2, v3
<1>11. PayloadOf("EntitySpawn", p3) = p
  BY <1>10 DEF PayloadOf
<1>12. Len(p3) = PayloadSize["EntitySpawn"]
  BY <1>8 DEF PayloadSize
<1>13. ASSUME NEW s \in Seq(Byte)
       PROVE  SerializePayload(s, "EntitySpawn", p) = s \o p3
  <2> DEFINE w1 == Words(v1, 4)
             w2 == Words(v2, 1)
             w3 == Words(v3, 4)
  <2>1. w1 \in Seq(Byte) /\ w2 \in Seq(Byte) /\ w3 \in Seq(Byte)
    BY <1>1, WordsBytes, Zenon
  <2>2. p3 = (w1 \o w2) \o w3
    BY <2>1, Empty DEF p1, p2, p3, e
  <2>3. SerializePayload(s, "EntitySpawn", p) = ((s \o w1) \o w2) \o w3
    BY <1>2
  <2> HIDE DEF w1, w2, w3
  <2>4. w1 \o w2 \in Seq(Byte)
    BY <2>1, Concat
  <2>5. ((s \o w1) \o w2) \o w3 = (s \o (w1 \o w2)) \o w3
    BY <2>1, ConcatAssoc
  <2>6. (s \o (w1 \o w2)) \o w3 = s \o ((w1 \o w2) \o w3)
    BY <2>1, <2>4, ConcatAssoc
  <2> QED  BY <2>2, <2>3, <2>5, <2>6
<1> QED  BY <1>3, <1>7, <1>11, <1>12, <1>13, Zenon DEF PayloadIsRead

LEMMA OneWordIsRead ==
  ASSUME NEW type, NEW w \in Widths, NEW p \in Word(w), PayloadSize[type] = w,
         \A s : SerializePayload(s, type, p) = s \o Words(<<p>>, w),
         \A payload : PayloadOf(type, payload) = ReadWords(payload, 0, 1, w)[1]
  PROVE  PayloadIsRead(type, p)
<1> DEFINE payload == <<>> \o Words(<<p>>, w)
<1>1. /\ payload \in Seq(Byte) /\ Len(payload) = w
      /\ ReadWords(payload, 0, 1, w)[1] = p
      /\ \A s \in Seq(Byte) : s \o Words(<<p>>, w) = s \o payload
  BY OneWordPayload, Zenon
<1>2. SerializePayload(<<>>, type, p) = payload
  OBVIOUS
<1> HIDE DEF payload
<1>3. PayloadOf(type, payload) = p
  BY <1>1, Zenon
<1>4. \A s \in Seq(Byte) : SerializePayload(s, type, p) = s \o payload
  BY <1>1, Zenon
<1> QED  BY <1>1, <1>2, <1>3, <1>4, Zenon DEF PayloadIsRead

LEMMA EachPayloadIsRead ==
  ASSUME NEW type \in ControlTypes, NEW p \in Payloads(type)
  PROVE  PayloadIsRead(type, p)
<1>1. CASE type \in {"Play", "Pause", "Reset"}
  <2>1. p = <<>>
    BY <1>1 DEF Payloads
  <2>2. /\ SerializePayload(<<>>, type, p) = <<>>
        /\ \A s : SerializePayload(s, type, p) = s
        /\ \A payload : PayloadOf(type, payload) = <<>>
    BY <1>1, Zenon DEF SerializePayload, PayloadOf
  <2>3. PayloadSize[type] = 0
    BY <1>1 DEF PayloadSize
  <2>4. \A s \in Seq(Byte) : s = s \o <<>>
    BY Empty
  <2> QED  BY <2>1, <2>2, <2>3, <2>4, Empty, Zenon DEF PayloadIsRead
<1>2. CASE type = "RegisterUdpPort"
  <2>1. p \in Word(2) /\ 2 \in Widths
    BY <1>2 DEF Payloads, Widths
  <2>2. /\ \A s : SerializePayload(s, type, p) = s \o Words(<<p>>, 2)
        /\ \A payload : PayloadOf(type, payload) = ReadWords(payload, 0, 1, 2)[1]
    BY <1>2 DEF SerializePayload, PayloadOf
  <2>3. PayloadSize[type] = 2
    BY <1>2 DEF PayloadSize
  <2> QED  BY <2>1, <2>2, <2>3, OneWordIsRead, Zenon
<1>3. CASE type \in {"SetRate", "EntityDespawn"}
  <2>1. p \in Word(4) /\ 4 \in Widths
    BY <1>3 DEF Payloads, Widths
  <2>2. /\ \A s : SerializePayload(s, type, p) = s \o Words(<<p>>, 4)
        /\ \A payload : PayloadOf(type, payload) = ReadWords(payload, 0, 1, 4)[1]
    BY <1>3 DEF SerializePayload, PayloadOf
  <2>3. PayloadSize[type] = 4
    BY <1>3 DEF PayloadSize
  <2> QED  BY <2>1, <2>2, <2>3, OneWordIsRead, Zenon
<1>4. CASE type = "EntitySpawn"
  BY <1>4, SpawnIsRead DEF Payloads
<1>5. CASE type = "Stop"
  BY <1>5, StopIsRead DEF Payloads
<1> QED  BY <1>1, <1>2, <1>3, <1>4, <1>5 DEF ControlTypes, PayloadSize

\* The control channel never gets out of step: whatever follows a frame, the receiver
\* takes this frame, with this payload, and leaves what follows (SendAll of one message
\* against ReceiveAll of a header byte and of the payload size of its type).
THEOREM FramesStayInStep ==
  ASSUME NEW type \in ControlTypes, NEW p \in Payloads(type), NEW rest \in Seq(Byte)
  PROVE  /\ CanReceive(Frame(type, p) \o rest)
         /\ Received(Frame(type, p) \o rest) = [type |-> type, payload |-> p, rest |-> rest]
<1> DEFINE payload == SerializePayload(<<>>, type, p)
           h == SerializeHeader(<<>>, type)
           stream == Frame(type, p) \o rest
           n == PayloadSize[type]
<1>1. /\ payload \in Seq(Byte) /\ Len(payload) = n /\ PayloadOf(type, payload) = p
      /\ \A s \in Seq(Byte) : SerializePayload(s, type, p) = s \o payload
  BY EachPayloadIsRead, Zenon DEF PayloadIsRead
<1>2. type \in DOMAIN HeaderByte /\ n \in Nat
  BY DEF ControlTypes, PayloadSize, HeaderByte
<1>3. /\ h \in Seq(Byte) /\ Len(h) = 1
      /\ \A data : Begins(data, h) => TypeOfByte(data[1]) = type
  BY <1>2, Header
<1>4. stream = (h \o payload) \o rest
  BY <1>1, <1>3 DEF Frame
<1> HIDE DEF payload, h, stream, n
<1>5. /\ stream \in Seq(Byte) /\ Len(stream) = 1 + n + Len(rest)
      /\ Begins(stream, h)
      /\ SubSeq(stream, 2, 1 + n) = payload
      /\ SubSeq(stream, 2 + n, Len(stream)) = rest
  <2> DEFINE q == h \o payload
  <2>1. q \in Seq(Byte) /\ Len(q) = 1 + n /\ Begins(q, h)
        /\ \A i \in 1 .. n : q[1 + i] = payload[i]
    <3>1. /\ q \in Seq(Byte) /\ Len(q) = Len(h) + Len(payload)
          /\ \A i \in 1 .. Len(h) : q[i] = h[i]
          /\ \A i \in 1 .. Len(payload) : q[Len(h) + i] = payload[i]
      BY <1>1, <1>3, Concat, Zenon
    <3>2. Len(q) = 1 + n /\ \A i \in 1 .. n : q[1 + i] = payload[i]
      BY <3>1, <1>1, <1>3, Zenon
    <3> QED  BY <3>1, <3>2, Zenon DEF Begins
  <2> HIDE DEF q
  <2>2. /\ stream \in Seq(Byte) /\ Len(stream) = 1 + n + Len(rest)
        /\ \A i \in 1 .. 1 + n : stream[i] = q[i]
        /\ \A i \in 1 .. Len(rest) : stream[1 + n + i] = rest[i]
    <3>1. stream = q \o rest
      BY <1>4 DEF q
    <3>2. /\ q \o rest \in Seq(Byte) /\ Len(q \o rest) = Len(q) + Len(rest)
          /\ \A i \in 1 .. Len(q) : (q \o rest)[i] = q[i]
          /\ \A i \in 1 .. Len(rest) : (q \o rest)[Len(q) + i] = rest[i]
      BY <2>1, Concat, Zenon
    <3> QED  BY <3>1, <3>2, <2>1, Zenon
  <2>3. Begins(stream, h)
    BY <1>2, <1>3, <2>1, <2>2 DEF Begins
  <2>4. SubSeq(stream, 2, 1 + n) = payload
    BY <1>1, <1>2, <2>1, <2>2, SMTT(60)
  <2>5. SubSeq(stream, 2 + n, Len(stream)) = rest
    <3>1. Len(rest) \in Nat /\ rest = [i \in 1 .. Len(rest) |-> rest[i]]
      OBVIOUS
    <3>2. Len(stream) - (2 + n) + 1 = Len(rest)
      BY <1>2, <2>2, <3>1
    <3>3. \A i \in 1 .. Len(rest) : (2 + n) + i - 1 = 1 + n + i
      BY <1>2, <3>1
    <3>4. SubSeq(stream, 2 + n, Len(stream))
            = [i \in 1 .. Len(stream) - (2 + n) + 1 |-> stream[(2 + n) + i - 1]]
      <4>1. stream \in Seq(Byte) /\ 2 + n \in Int /\ Len(stream) \in Int
        BY <1>2, <2>2
      <4> QED  BY <4>1, SliceIs
    <3>5. SubSeq(stream, 2 + n, Len(stream)) = [i \in 1 .. Len(rest) |-> stream[(2 + n) + i - 1]]
      BY <3>2, <3>4, Zenon
    <3> QED  BY <2>2, <3>1, <3>3, <3>5, Zenon
  <2> QED  BY <2>2, <2>3, <2>4, <2>5
<1>6. TypeOfByte(stream[1]) = type
  BY <1>3, <1>5
<1>7. CanReceive(stream)
  <2>1. Len(rest) \in Nat
    OBVIOUS
  <2>2. Len(stream) >= 1 /\ Len(stream) >= 1 + n
    BY <1>2, <1>5, <2>1
  <2> QED  BY <1>6, <2>2, Zenon DEF CanReceive, n
<1>8. Received(stream) = [type |-> type, payload |-> p, rest |-> rest]
  BY <1>1, <1>5, <1>6 DEF Received, n
<1> QED  BY <1>7, <1>8 DEF stream
=============================================================================
