--------------------------- MODULE POWire_proofs ---------------------------
(***************************************************************************)
(* What is true of the bytes of any Pocket Operator frame: the lengths and *)
(* types of what po_wire_write_* writes, that a packet and a tail read     *)
(* back as what was written with the same running state afterwards, that   *)
(* whatever reads as a packet is what would have been written for it, and  *)
(* that bytes which come later change nothing.  The runs of states through *)
(* the bytes are recursive functions; RunTheorems shows that they exist.   *)
(***************************************************************************)
EXTENDS POWire, RunTheorems, SequenceTheorems, TLAPS

-----------------------------------------------------------------------------
(* What membership in the two number types means. *)
LEMMA ByteIs ==
  \A b : b \in Byte <=> b \in Int /\ 0 <= b /\ b <= 255
<1>1. MaxByte = 255
  BY DEF MaxByte
<1> QED  BY <1>1 DEF Byte

LEMMA WordIs ==
  \A w : w \in Word <=> w \in Int /\ 0 <= w /\ w <= 65535
<1>1. MaxWord \in Int
  BY DEF MaxWord
<1>2. \A w : w \in Word <=> w \in Int /\ 0 <= w /\ w <= MaxWord
  BY <1>1 DEF Word
<1> QED  BY <1>2 DEF MaxWord

(* The running state is a 16-bit word. *)
LEMMA XorByteType ==
  ASSUME NEW a \in Byte, NEW b \in Byte
  PROVE  XorByte(a, b) \in Byte
<1>1. \A x, y \in 0..15 : XorNibble[x][y] \in 0..15
  BY DEF XorNibble
<1>2. a \div 16 \in 0..15 /\ a % 16 \in 0..15 /\ b \div 16 \in 0..15 /\ b % 16 \in 0..15
  BY ByteIs
<1> HIDE DEF XorNibble
<1>3. XorNibble[a \div 16][b \div 16] \in 0..15 /\ XorNibble[a % 16][b % 16] \in 0..15
  BY <1>1, <1>2
<1> QED  BY <1>3, ByteIs DEF XorByte

LEMMA HalvesType ==
  ASSUME NEW w \in Word
  PROVE  Lo(w) \in Byte /\ Hi(w) \in Byte
<1>1. w \in Int /\ 0 <= w /\ w <= 65535
  BY WordIs
<1>2. /\ w % 256 \in Int /\ 0 <= w % 256 /\ w % 256 <= 255
      /\ w \div 256 \in Int /\ 0 <= w \div 256 /\ w \div 256 <= 255
  BY <1>1
<1> QED  BY <1>2, ByteIs DEF Lo, Hi

LEMMA FromHalvesType ==
  ASSUME NEW hi \in Byte, NEW lo \in Byte
  PROVE  256 * hi + lo \in Word
<1>1. hi \in Int /\ 0 <= hi /\ hi <= 255 /\ lo \in Int /\ 0 <= lo /\ lo <= 255
  BY ByteIs
<1>2. 256 * hi + lo \in Int /\ 0 <= 256 * hi + lo /\ 256 * hi + lo <= 65535
  BY <1>1
<1> QED  BY <1>2, WordIs

LEMMA XorWordType ==
  ASSUME NEW a \in Word, NEW b \in Word
  PROVE  XorWord(a, b) \in Word
  BY HalvesType, XorByteType, FromHalvesType DEF XorWord

LEMMA CrcMixType ==
  ASSUME NEW state \in Word, NEW x \in Byte
  PROVE  CrcMix(state, x) \in Word
<1>1. 256 * Lo(state) + x \in Word
  BY HalvesType, FromHalvesType
<1>2. x \in Int /\ 0 <= x /\ x <= 255
  BY ByteIs
<1>3. x % 16 \in Int /\ 0 <= x % 16 /\ x % 16 <= 15
  BY <1>2
<1>4. 4096 * (x % 16) \in Int /\ 0 <= 4096 * (x % 16) /\ 4096 * (x % 16) <= 65535
  BY <1>3
<1>5. 32 * x \in Int /\ 0 <= 32 * x /\ 32 * x <= 65535
  BY <1>2
<1>6. 4096 * (x % 16) \in Word /\ 32 * x \in Word
  BY <1>4, <1>5, WordIs
<1> QED  BY <1>1, <1>6, XorWordType DEF CrcMix

LEMMA CrcUpdateType ==
  ASSUME NEW state \in Word, NEW raw \in Byte
  PROVE  CrcUpdate(state, raw) \in Word
<1> DEFINE x == XorByte(raw, Hi(state))
<1>1. x \in Byte
  BY HalvesType, XorByteType
<1>2. x \div 16 \in Byte
  BY <1>1, ByteIs
<1>3. XorByte(x, x \div 16) \in Byte
  BY <1>1, <1>2, XorByteType
<1> QED  BY <1>3, CrcMixType DEF CrcUpdate

LEMMA WhitenType ==
  ASSUME NEW state \in Word, NEW b \in Byte
  PROVE  Whiten(state, b) \in Byte /\ Unwhiten(state, b) \in Byte
<1>1. Lo(state) \in Int /\ b \in Int
  BY HalvesType, ByteIs
<1>2. /\ (b + Lo(state)) % 256 \in Int
      /\ 0 <= (b + Lo(state)) % 256 /\ (b + Lo(state)) % 256 <= 255
      /\ (b - Lo(state)) % 256 \in Int
      /\ 0 <= (b - Lo(state)) % 256 /\ (b - Lo(state)) % 256 <= 255
  BY <1>1
<1> QED  BY <1>2, ByteIs DEF Whiten, Unwhiten

-----------------------------------------------------------------------------
(* The states a run of bytes passes through. *)
LEMMA WordRunExists ==
  ASSUME NEW state \in Word, NEW n \in Nat, NEW G \in [1..n -> [Word -> Word]]
  PROVE  \E f \in [0..n -> Word] : f[0] = state /\ \A i \in 1..n : f[i] = G[i][f[i-1]]
  BY RunExists, SMT

LEMMA StatesWritingType ==
  ASSUME NEW state \in Word, NEW raw \in Seq(Byte)
  PROVE  LET run == StatesWriting(state, raw)
         IN  /\ run \in [0..Len(raw) -> Word]
             /\ run[0] = state
             /\ \A i \in 1..Len(raw) : run[i] = CrcUpdate(run[i-1], raw[i])
<1> DEFINE n == Len(raw)
           Def(f) == f = [i \in 0..n |-> IF i = 0 THEN state ELSE CrcUpdate(f[i-1], raw[i])]
           F == StatesWriting(state, raw)
           G == [i \in 1..n |-> [x \in Word |-> CrcUpdate(x, raw[i])]]
<1>1. F = CHOOSE f : Def(f)
  BY DEF StatesWriting
<1>2. n \in Nat /\ \A i \in 1..n : raw[i] \in Byte
  OBVIOUS
<1>3. G \in [1..n -> [Word -> Word]]
  BY <1>2, CrcUpdateType
<1>4. PICK f \in [0..n -> Word] : f[0] = state /\ \A i \in 1..n : f[i] = G[i][f[i-1]]
  <2> HIDE DEF G, n
  <2> QED  BY <1>2, <1>3, WordRunExists
<1>5. ASSUME NEW i \in 0..n
      PROVE  f[i] = IF i = 0 THEN state ELSE CrcUpdate(f[i-1], raw[i])
  <2>1. CASE i = 0
    BY <1>4, <2>1
  <2>2. CASE i \in 1..n
    <3>1. i - 1 \in 0..n
      BY <1>2, <2>2
    <3>2. f[i-1] \in Word
      BY <3>1
    <3>3. G[i][f[i-1]] = CrcUpdate(f[i-1], raw[i])
      BY <2>2, <3>2
    <3> QED  BY <1>4, <2>2, <3>3
  <2> QED  BY <1>2, <2>1, <2>2
<1>6. Def(f)
  BY <1>4, <1>5
<1>7. Def(F)
  <2> HIDE DEF Def, F
  <2> QED  BY <1>1, <1>6
<1>8. F[0] = state /\ \A i \in 1..n : F[i] = CrcUpdate(F[i-1], raw[i])
  BY <1>7, <1>2
<1>9. \A i \in 0..n : F[i] \in Word
  <2>1. \A i \in 1..n : F[i-1] \in Word => F[i] \in Word
    BY <1>2, <1>8, CrcUpdateType
  <2> HIDE DEF F, n
  <2> QED  BY <1>2, <1>8, <2>1, RunStaysIn
<1> QED  BY <1>7, <1>8, <1>9

LEMMA StatesReadingType ==
  ASSUME NEW state \in Word, NEW coded \in Seq(Byte)
  PROVE  LET run == StatesReading(state, coded)
         IN  /\ run \in [0..Len(coded) -> Word]
             /\ run[0] = state
             /\ \A i \in 1..Len(coded) :
                  run[i] = CrcUpdate(run[i-1], Unwhiten(run[i-1], coded[i]))
<1> DEFINE n == Len(coded)
           Turn(x, b) == CrcUpdate(x, Unwhiten(x, b))
           Def(f) == f = [i \in 0..n |-> IF i = 0 THEN state ELSE Turn(f[i-1], coded[i])]
           F == StatesReading(state, coded)
           G == [i \in 1..n |-> [x \in Word |-> Turn(x, coded[i])]]
<1>1. F = CHOOSE f : Def(f)
  BY DEF StatesReading
<1>2. n \in Nat /\ \A i \in 1..n : coded[i] \in Byte
  OBVIOUS
<1>3. G \in [1..n -> [Word -> Word]]
  BY <1>2, CrcUpdateType, WhitenType
<1>4. PICK f \in [0..n -> Word] : f[0] = state /\ \A i \in 1..n : f[i] = G[i][f[i-1]]
  <2> HIDE DEF G, n
  <2> QED  BY <1>2, <1>3, WordRunExists
<1>5. ASSUME NEW i \in 0..n
      PROVE  f[i] = IF i = 0 THEN state ELSE Turn(f[i-1], coded[i])
  <2>1. CASE i = 0
    BY <1>4, <2>1
  <2>2. CASE i \in 1..n
    <3>1. i - 1 \in 0..n
      BY <1>2, <2>2
    <3>2. f[i-1] \in Word
      BY <3>1
    <3>3. G[i][f[i-1]] = Turn(f[i-1], coded[i])
      BY <2>2, <3>2
    <3> QED  BY <1>4, <2>2, <3>3
  <2> QED  BY <1>2, <2>1, <2>2
<1>6. Def(f)
  BY <1>4, <1>5
<1>7. Def(F)
  <2> HIDE DEF Def, F
  <2> QED  BY <1>1, <1>6
<1>8. F[0] = state /\ \A i \in 1..n : F[i] = Turn(F[i-1], coded[i])
  BY <1>7, <1>2
<1>9. \A i \in 0..n : F[i] \in Word
  <2>1. \A i \in 1..n : F[i-1] \in Word => F[i] \in Word
    BY <1>2, <1>8, CrcUpdateType, WhitenType
  <2> HIDE DEF F, n
  <2> QED  BY <1>2, <1>8, <2>1, RunStaysIn
<1> QED  BY <1>7, <1>8, <1>9

-----------------------------------------------------------------------------
(* Runs of bytes, packets and tails: lengths and types. *)
LEMMA WriteBytesType ==
  ASSUME NEW state \in Word, NEW raw \in Seq(Byte)
  PROVE  /\ WriteBytes(state, raw).bytes \in Seq(Byte)
         /\ Len(WriteBytes(state, raw).bytes) = Len(raw)
         /\ WriteBytes(state, raw).state \in Word
<1> DEFINE run   == StatesWriting(state, raw)
           bytes == [i \in 1..Len(raw) |-> Whiten(run[i-1], raw[i])]
<1>1. run \in [0..Len(raw) -> Word]
  BY StatesWritingType
<1>2. Len(raw) \in Nat /\ \A i \in 1..Len(raw) : raw[i] \in Byte
  OBVIOUS
<1> HIDE DEF run
<1>3. \A i \in 1..Len(raw) : Whiten(run[i-1], raw[i]) \in Byte
  BY <1>1, <1>2, WhitenType
<1>4. bytes \in Seq(Byte) /\ Len(bytes) = Len(raw)
  BY <1>2, <1>3
<1>5. run[Len(raw)] \in Word
  BY <1>1, <1>2
<1> HIDE DEF bytes
<1>6. WriteBytes(state, raw) = [bytes |-> bytes, state |-> run[Len(raw)]]
  BY DEF WriteBytes, run, bytes
<1> QED  BY <1>4, <1>5, <1>6

LEMMA ReadBytesType ==
  ASSUME NEW state \in Word, NEW coded \in Seq(Byte)
  PROVE  /\ ReadBytes(state, coded).bytes \in Seq(Byte)
         /\ Len(ReadBytes(state, coded).bytes) = Len(coded)
         /\ ReadBytes(state, coded).state \in Word
<1> DEFINE run   == StatesReading(state, coded)
           bytes == [i \in 1..Len(coded) |-> Unwhiten(run[i-1], coded[i])]
<1>1. run \in [0..Len(coded) -> Word]
  BY StatesReadingType
<1>2. Len(coded) \in Nat /\ \A i \in 1..Len(coded) : coded[i] \in Byte
  OBVIOUS
<1> HIDE DEF run
<1>3. \A i \in 1..Len(coded) : Unwhiten(run[i-1], coded[i]) \in Byte
  BY <1>1, <1>2, WhitenType
<1>4. bytes \in Seq(Byte) /\ Len(bytes) = Len(coded)
  BY <1>2, <1>3
<1>5. run[Len(coded)] \in Word
  BY <1>1, <1>2
<1> HIDE DEF bytes
<1>6. ReadBytes(state, coded) = [bytes |-> bytes, state |-> run[Len(coded)]]
  BY DEF ReadBytes, run, bytes
<1> QED  BY <1>4, <1>5, <1>6

LEMMA ByteConcat ==
  ASSUME NEW s \in Seq(Byte), NEW t \in Seq(Byte)
  PROVE  s \o t \in Seq(Byte) /\ Len(s \o t) = Len(s) + Len(t)
  OBVIOUS

LEMMA ByteAppend ==
  ASSUME NEW s \in Seq(Byte), NEW b \in Byte
  PROVE  Append(s, b) \in Seq(Byte) /\ Len(Append(s, b)) = Len(s) + 1
  OBVIOUS

LEMMA AppendAt ==
  ASSUME NEW s \in Seq(Byte), NEW b \in Byte, NEW n \in Nat, Len(s) = n
  PROVE  /\ Append(s, b) \in Seq(Byte) /\ Len(Append(s, b)) = n + 1
         /\ Append(s, b)[n + 1] = b /\ \A i \in 1..n : Append(s, b)[i] = s[i]
  OBVIOUS

LEMMA ByteSlice ==
  ASSUME NEW s \in Seq(Byte), NEW m \in Int, NEW n \in Int, 1 <= m, m <= n + 1, n <= Len(s)
  PROVE  SubSeq(s, m, n) \in Seq(Byte) /\ Len(SubSeq(s, m, n)) = n - m + 1
  OBVIOUS

LEMMA ThreeBytes ==
  ASSUME NEW s \in Seq(Byte), Len(s) = 3
  PROVE  s[1] \in Byte /\ s[2] \in Byte /\ s[3] \in Byte
  OBVIOUS

LEMMA ClosedType ==
  ASSUME NEW written, written.bytes \in Seq(Byte), written.state \in Word
  PROVE  /\ Closed(written).bytes \in Seq(Byte)
         /\ Len(Closed(written).bytes) = Len(written.bytes) + TrailerBytes
         /\ Closed(written).state \in Word
<1> DEFINE trail == <<Lo(written.state), Hi(written.state)>>
           close == WriteBytes(written.state, trail)
           front == written.bytes
           back  == close.bytes
<1>1. trail \in Seq(Byte) /\ Len(trail) = 2
  BY HalvesType
<1>2. close.bytes \in Seq(Byte) /\ Len(close.bytes) = 2 /\ close.state \in Word
  <2> HIDE DEF trail
  <2> QED  BY <1>1, WriteBytesType
<1>3. Closed(written) = [bytes |-> front \o back, state |-> close.state]
  BY DEF Closed
<1> HIDE DEF close
<1>4. front \in Seq(Byte) /\ back \in Seq(Byte) /\ Len(back) = TrailerBytes
  BY <1>2 DEF TrailerBytes
<1> HIDE DEF front, back
<1>5. front \o back \in Seq(Byte) /\ Len(front \o back) = Len(front) + Len(back)
  BY <1>4, ByteConcat, Zenon
<1> QED  BY <1>2, <1>3, <1>4, <1>5 DEF front

LEMMA WritePacketType ==
  ASSUME NEW state \in Word, NEW tag \in Word,
         NEW payload \in Seq(Byte), Len(payload) <= 255
  PROVE  LET w == WritePacket(state, tag, payload)
         IN  /\ w.bytes \in Seq(Byte)
             /\ Len(w.bytes) = OverheadBytes + Len(payload)
             /\ w.state \in Word
<1> DEFINE head == <<Lo(tag), Hi(tag), Len(payload)>>
           body == WriteBytes(state, head \o payload)
           all  == Closed(body)
<1>1. head \in Seq(Byte) /\ Len(head) = 3
  BY HalvesType, ByteIs
<1>2. head \o payload \in Seq(Byte) /\ Len(head \o payload) = 3 + Len(payload)
  <2> HIDE DEF head
  <2> QED  BY <1>1, ByteConcat
<1>3. /\ body.bytes \in Seq(Byte) /\ Len(body.bytes) = 3 + Len(payload)
      /\ body.state \in Word
  <2> HIDE DEF head
  <2> QED  BY <1>2, WriteBytesType
<1>4. WritePacket(state, tag, payload) = all
  BY DEF WritePacket
<1> HIDE DEF body
<1>5. /\ all.bytes \in Seq(Byte) /\ Len(all.bytes) = Len(body.bytes) + TrailerBytes
      /\ all.state \in Word
  BY <1>3, ClosedType
<1> HIDE DEF all
<1>6. Len(payload) \in Nat
  OBVIOUS
<1> QED  BY <1>3, <1>4, <1>5, <1>6 DEF OverheadBytes, HeaderBytes, TrailerBytes

LEMMA MixSpecialType ==
  ASSUME NEW state \in Word
  PROVE  MixSpecial(state) \in Word
<1>1. state \in Int /\ 0 <= state /\ state <= 65535
  BY WordIs
<1>2. /\ (state \div 4096) % 256 \in Int
      /\ 0 <= (state \div 4096) % 256 /\ (state \div 4096) % 256 <= 255
      /\ (state \div 256) % 256 \in Int
      /\ 0 <= (state \div 256) % 256 /\ (state \div 256) % 256 <= 255
  BY <1>1
<1>3. (state \div 4096) % 256 \in Byte /\ (state \div 256) % 256 \in Byte
  BY <1>2, ByteIs
<1> QED  BY <1>3, XorByteType, CrcMixType DEF MixSpecial

LEMMA WriteTailType ==
  ASSUME NEW state \in Word
  PROVE  /\ WriteTail(state).bytes \in Seq(Byte)
         /\ Len(WriteTail(state).bytes) = TailBytes
         /\ WriteTail(state).state \in Word
<1> DEFINE marks   == WriteBytes(state, <<TailMarker1, TailMarker2>>)
           begun   == Append(marks.bytes, Lo(marks.state))
           special == [bytes |-> begun, state |-> MixSpecial(marks.state)]
<1>1. <<TailMarker1, TailMarker2>> \in Seq(Byte) /\ Len(<<TailMarker1, TailMarker2>>) = 2
  BY ByteIs DEF TailMarker1, TailMarker2
<1>2. marks.bytes \in Seq(Byte) /\ Len(marks.bytes) = 2 /\ marks.state \in Word
  BY <1>1, WriteBytesType
<1>3. WriteTail(state) = Closed(special)
  BY DEF WriteTail
<1> HIDE DEF marks
<1>4. Lo(marks.state) \in Byte /\ MixSpecial(marks.state) \in Word
  BY <1>2, HalvesType, MixSpecialType
<1>5. begun \in Seq(Byte) /\ Len(begun) = 3
  <2> DEFINE front == marks.bytes
             last  == Lo(marks.state)
  <2>1. front \in Seq(Byte) /\ Len(front) = 2 /\ last \in Byte
    BY <1>2, <1>4
  <2> HIDE DEF front, last
  <2>2. Append(front, last) \in Seq(Byte) /\ Len(Append(front, last)) = Len(front) + 1
    BY <2>1, ByteAppend
  <2>3. Len(front) + 1 = 3
    BY <2>1
  <2> QED  BY <2>2, <2>3 DEF front, last
<1> HIDE DEF begun
<1>6. special.bytes = begun /\ special.state \in Word
  BY <1>4
<1> HIDE DEF special, begun
<1>7. special.bytes \in Seq(Byte) /\ Len(special.bytes) = 3
  BY <1>5, <1>6
<1> DEFINE all == Closed(special)
<1>8. /\ all.bytes \in Seq(Byte) /\ Len(all.bytes) = Len(special.bytes) + TrailerBytes
      /\ all.state \in Word
  BY <1>6, <1>7, ClosedType
<1> HIDE DEF all
<1>9. Len(special.bytes) + TrailerBytes = TailBytes
  BY <1>7 DEF TailBytes, TrailerBytes
<1> QED  BY <1>3, <1>8, <1>9 DEF all

LEMMA PacketHeaderType ==
  ASSUME NEW state \in Word, NEW coded \in Seq(Byte), Len(coded) >= HeaderBytes
  PROVE  LET head == PacketHeader(state, coded)
         IN  head.tag \in Word /\ head.len \in OverheadBytes..(OverheadBytes + MaxByte)
<1> DEFINE first == SubSeq(coded, 1, HeaderBytes)
           raw   == ReadBytes(state, first).bytes
<1>1. first \in Seq(Byte) /\ Len(first) = 3
  BY ByteSlice DEF HeaderBytes
<1> HIDE DEF first
<1>2. raw \in Seq(Byte) /\ Len(raw) = 3
  BY <1>1, ReadBytesType
<1> HIDE DEF raw
<1>3. raw[1] \in Byte /\ raw[2] \in Byte /\ raw[3] \in Byte
  BY <1>2, ThreeBytes
<1>4. 256 * raw[2] + raw[1] \in Word
  BY <1>3, FromHalvesType
<1>5. PacketHeader(state, coded) =
        [tag |-> raw[1] + 256 * raw[2], len |-> OverheadBytes + raw[3]]
  BY DEF PacketHeader, raw, first
<1>6. raw[1] + 256 * raw[2] = 256 * raw[2] + raw[1]
  BY <1>3, ByteIs
<1>7. OverheadBytes + raw[3] \in OverheadBytes..(OverheadBytes + MaxByte)
  <2> DEFINE len == raw[3]
  <2>1. len \in Int /\ 0 <= len /\ len <= 255
    BY <1>3, ByteIs
  <2> HIDE DEF len
  <2>2. OverheadBytes + len \in OverheadBytes..(OverheadBytes + MaxByte)
    BY <2>1 DEF OverheadBytes, HeaderBytes, TrailerBytes, MaxByte
  <2> QED  BY <2>2 DEF len
<1> QED  BY <1>4, <1>5, <1>6, <1>7

LEMMA ReadPacketType ==
  ASSUME NEW state \in Word, NEW coded \in Seq(Byte), ReadPacket(state, coded).ok
  PROVE  LET pkt == ReadPacket(state, coded)
         IN  /\ pkt.len = PacketHeader(state, coded).len
             /\ pkt.len \in Nat /\ pkt.len <= Len(coded)
             /\ pkt.tag \in Word
             /\ pkt.payload \in Seq(Byte) /\ OverheadBytes + Len(pkt.payload) = pkt.len
             /\ pkt.state \in Word
<1> DEFINE head    == PacketHeader(state, coded)
           size    == head.len
           front   == SubSeq(coded, 1, size - TrailerBytes)
           body    == ReadBytes(state, front)
           back    == SubSeq(coded, size - TrailerBytes + 1, size)
           trailer == ReadBytes(body.state, back)
           payload == SubSeq(body.bytes, HeaderBytes + 1, Len(body.bytes))
           Ok      == /\ Len(coded) >= OverheadBytes
                      /\ size <= Len(coded)
                      /\ trailer.bytes = <<Lo(body.state), Hi(body.state)>>
<1>1. ReadPacket(state, coded) =
        IF Ok
        THEN [ok |-> TRUE, tag |-> head.tag, payload |-> payload,
              len |-> size, state |-> trailer.state]
        ELSE [ok |-> FALSE]
  BY DEF ReadPacket
<1>2. Ok
  <2> HIDE DEF Ok
  <2> QED  BY <1>1
<1>3. /\ head.tag \in Word /\ size \in Int /\ 5 <= size /\ size <= Len(coded)
  <2>1. Len(coded) >= HeaderBytes /\ size <= Len(coded)
    BY <1>2 DEF OverheadBytes, HeaderBytes, TrailerBytes
  <2>2. head.tag \in Word /\ size \in OverheadBytes..(OverheadBytes + MaxByte)
    BY <2>1, PacketHeaderType
  <2> HIDE DEF size
  <2> QED  BY <2>1, <2>2 DEF OverheadBytes, HeaderBytes, TrailerBytes, MaxByte
<1> HIDE DEF size
<1>4. front \in Seq(Byte) /\ Len(front) = size - 2 /\ back \in Seq(Byte)
  BY <1>3, ByteSlice DEF TrailerBytes
<1> HIDE DEF front, back
<1>5. body.bytes \in Seq(Byte) /\ Len(body.bytes) = size - 2 /\ body.state \in Word
  BY <1>4, ReadBytesType
<1>6. trailer.state \in Word
  BY <1>4, <1>5, ReadBytesType
<1>7. payload \in Seq(Byte) /\ Len(payload) = size - 5
  <2> DEFINE raw == body.bytes
  <2>1. raw \in Seq(Byte) /\ Len(raw) = size - 2
    BY <1>5
  <2> HIDE DEF raw
  <2>2. SubSeq(raw, 4, Len(raw)) \in Seq(Byte) /\ Len(SubSeq(raw, 4, Len(raw))) = size - 5
    BY <1>3, <2>1, ByteSlice
  <2> QED  BY <2>2 DEF raw, HeaderBytes
<1> HIDE DEF trailer, payload, Ok
<1>8. /\ ReadPacket(state, coded).len = size /\ ReadPacket(state, coded).tag = head.tag
      /\ ReadPacket(state, coded).payload = payload
      /\ ReadPacket(state, coded).state = trailer.state
  BY <1>1, <1>2 DEF size
<1>9. 5 + Len(payload) = size /\ OverheadBytes = 5
  BY <1>3, <1>7 DEF OverheadBytes, HeaderBytes, TrailerBytes
<1>10. size = PacketHeader(state, coded).len /\ size \in Nat
  BY <1>3 DEF size
<1> HIDE DEF head
<1> QED  BY <1>3, <1>6, <1>7, <1>8, <1>9, <1>10

LEMMA ReadTailType ==
  ASSUME NEW state \in Word, NEW coded \in Seq(Byte), Len(coded) = TailBytes,
         ReadTail(state, coded).ok
  PROVE  ReadTail(state, coded).tail \in [before : Word, after : Word, final : Word]
<1> DEFINE marks   == ReadBytes(state, SubSeq(coded, 1, 2))
           special == MixSpecial(marks.state)
           close   == ReadBytes(special, SubSeq(coded, 4, TailBytes))
           Ok      == /\ Len(coded) >= TailBytes
                      /\ marks.bytes = <<TailMarker1, TailMarker2>>
                      /\ coded[3] = Lo(marks.state)
                      /\ close.bytes = <<Lo(special), Hi(special)>>
           Found   == [before |-> marks.state, after |-> special, final |-> close.state]
<1>1. ReadTail(state, coded) = IF Ok THEN [ok |-> TRUE, tail |-> Found] ELSE [ok |-> FALSE]
  BY DEF ReadTail
<1>2. SubSeq(coded, 1, 2) \in Seq(Byte) /\ SubSeq(coded, 4, TailBytes) \in Seq(Byte)
  <2>1. TailBytes = 5
    BY DEF TailBytes
  <2>2. /\ 1 \in Int /\ 2 \in Int /\ 1 <= 1 /\ 1 <= 2 + 1 /\ 2 <= Len(coded)
        /\ 4 \in Int /\ TailBytes \in Int /\ 1 <= 4 /\ 4 <= TailBytes + 1
        /\ TailBytes <= Len(coded)
    BY <2>1
  <2> QED  BY <2>2, ByteSlice, Zenon
<1> HIDE DEF Ok
<1>3. marks.state \in Word
  BY <1>2, ReadBytesType
<1> HIDE DEF marks
<1>4. special \in Word
  BY <1>3, MixSpecialType
<1> HIDE DEF special
<1>5. close.state \in Word
  BY <1>2, <1>4, ReadBytesType
<1> HIDE DEF close
<1> QED  BY <1>1, <1>3, <1>4, <1>5

-----------------------------------------------------------------------------
(* Reading back.  A byte whitened and unwhitened with one state is itself, *)
(* so reading follows the states of writing, byte by byte.                 *)
LEMMA UnwhitenWhiten ==
  ASSUME NEW state \in Word, NEW b \in Byte
  PROVE  Unwhiten(state, Whiten(state, b)) = b
<1>1. Lo(state) \in 0..255 /\ b \in 0..255
  BY HalvesType, ByteIs
<1> DEFINE lo == Lo(state)
<1> HIDE DEF lo
<1>2. (((b + lo) % 256) - lo) % 256 = b
  <2>1. lo \in 0..255 /\ b \in 0..255
    BY <1>1 DEF lo
  <2>2. CASE b + lo < 256
    <3>1. (b + lo) % 256 = b + lo
      BY <2>1, <2>2
    <3> QED  BY <2>1, <3>1
  <2>3. CASE b + lo >= 256
    <3>1. (b + lo) % 256 = b + lo - 256
      BY <2>1, <2>3
    <3>2. (b - 256) % 256 = b
      BY <2>1
    <3> QED  BY <2>1, <3>1, <3>2
  <2> QED  BY <2>1, <2>2, <2>3
<1> QED  BY <1>2 DEF lo, Whiten, Unwhiten

(* Two runs that begin alike and go on alike are alike.                    *)
StepAlike(f, g, n) ==
  f[0] = g[0] /\ \A i \in 1..n : f[i-1] = g[i-1] => f[i] = g[i]

RunAlike(f, g, n) == \A i \in 0..n : f[i] = g[i]

LEMMA RunsAgree ==
  ASSUME NEW n \in Nat, NEW f, NEW g, StepAlike(f, g, n)
  PROVE  RunAlike(f, g, n)
<1> USE DEF StepAlike, RunAlike
<1> DEFINE T == { k \in Nat : k <= n => f[k] = g[k] }
<1>1. 0 \in T
  OBVIOUS
<1>2. ASSUME NEW k \in Nat, k \in T PROVE k + 1 \in T
  <2> SUFFICES ASSUME k + 1 <= n PROVE f[k+1] = g[k+1]
    OBVIOUS
  <2>1. k + 1 \in 1..n /\ (k + 1) - 1 = k /\ f[k] = g[k]
    BY <1>2
  <2> QED  BY <2>1
<1>3. Nat \subseteq T
  <2> HIDE DEF T
  <2> QED  BY <1>1, <1>2, NatSetInduction
<1> QED  BY <1>3

LEMMA ReadsBytesBack ==
  ASSUME NEW state \in Word, NEW raw \in Seq(Byte)
  PROVE  LET written == WriteBytes(state, raw)
         IN  ReadBytes(state, written.bytes) = [bytes |-> raw, state |-> written.state]
<1> DEFINE n     == Len(raw)
           out   == StatesWriting(state, raw)
           coded == [i \in 1..n |-> Whiten(out[i-1], raw[i])]
           back  == StatesReading(state, coded)
<1>1. n \in Nat /\ \A i \in 1..n : raw[i] \in Byte
  OBVIOUS
<1>2. /\ out \in [0..n -> Word] /\ out[0] = state
      /\ \A i \in 1..n : out[i] = CrcUpdate(out[i-1], raw[i])
  BY StatesWritingType
<1> HIDE DEF out
<1>3. WriteBytes(state, raw) = [bytes |-> coded, state |-> out[n]]
  BY DEF WriteBytes, out
<1>4. coded \in Seq(Byte) /\ Len(coded) = n /\ \A i \in 1..n : coded[i] = Whiten(out[i-1], raw[i])
  <2>1. \A i \in 1..n : Whiten(out[i-1], raw[i]) \in Byte
    BY <1>1, <1>2, WhitenType
  <2> QED  BY <1>1, <2>1
<1> HIDE DEF coded
<1>5. /\ back \in [0..n -> Word] /\ back[0] = state
      /\ \A i \in 1..n : back[i] = CrcUpdate(back[i-1], Unwhiten(back[i-1], coded[i]))
  BY <1>4, StatesReadingType
<1> HIDE DEF back
<1>6. \A i \in 1..n : Unwhiten(out[i-1], coded[i]) = raw[i]
  BY <1>1, <1>2, <1>4, UnwhitenWhiten
<1>7. \A i \in 0..n : back[i] = out[i]
  <2>1. back[0] = out[0]
    BY <1>2, <1>5
  <2>2. \A i \in 1..n : back[i-1] = out[i-1] => back[i] = out[i]
    BY <1>2, <1>5, <1>6
  <2> HIDE DEF n
  <2>3. StepAlike(back, out, n)
    BY <2>1, <2>2 DEF StepAlike
  <2>4. RunAlike(back, out, n)
    BY <1>1, <2>3, RunsAgree
  <2> QED  BY <2>4 DEF RunAlike
<1>8. ReadBytes(state, coded) =
        [bytes |-> [i \in 1..n |-> Unwhiten(back[i-1], coded[i])], state |-> back[n]]
  BY <1>4 DEF ReadBytes, back
<1>9. [i \in 1..n |-> Unwhiten(back[i-1], coded[i])] = raw
  <2>1. \A i \in 1..n : Unwhiten(back[i-1], coded[i]) = raw[i]
    BY <1>1, <1>6, <1>7
  <2>2. raw = [i \in 1..n |-> raw[i]]
    OBVIOUS
  <2> QED  BY <2>1, <2>2
<1>10. back[n] = out[n]
  BY <1>1, <1>7
<1> QED  BY <1>3, <1>8, <1>9, <1>10

(* The other way about: what was read writes back.                         *)
LEMMA WhitenUnwhiten ==
  ASSUME NEW state \in Word, NEW b \in Byte
  PROVE  Whiten(state, Unwhiten(state, b)) = b
<1>1. Lo(state) \in 0..255 /\ b \in 0..255
  BY HalvesType, ByteIs
<1> DEFINE lo == Lo(state)
<1> HIDE DEF lo
<1>2. (((b - lo) % 256) + lo) % 256 = b
  <2>1. lo \in 0..255 /\ b \in 0..255
    BY <1>1 DEF lo
  <2>2. CASE b >= lo
    <3>1. (b - lo) % 256 = b - lo
      BY <2>1, <2>2
    <3> QED  BY <2>1, <3>1
  <2>3. CASE b < lo
    <3>1. (b - lo) % 256 = b - lo + 256
      BY <2>1, <2>3
    <3>2. (b + 256) % 256 = b
      BY <2>1
    <3> QED  BY <2>1, <3>1, <3>2
  <2> QED  BY <2>1, <2>2, <2>3
<1> QED  BY <1>2 DEF lo, Whiten, Unwhiten

LEMMA WritesBytesBack ==
  ASSUME NEW state \in Word, NEW coded \in Seq(Byte)
  PROVE  LET read == ReadBytes(state, coded)
         IN  WriteBytes(state, read.bytes) = [bytes |-> coded, state |-> read.state]
<1> DEFINE n    == Len(coded)
           back == StatesReading(state, coded)
           raw  == [i \in 1..n |-> Unwhiten(back[i-1], coded[i])]
           out  == StatesWriting(state, raw)
<1>1. n \in Nat /\ \A i \in 1..n : coded[i] \in Byte
  OBVIOUS
<1>2. /\ back \in [0..n -> Word] /\ back[0] = state
      /\ \A i \in 1..n : back[i] = CrcUpdate(back[i-1], Unwhiten(back[i-1], coded[i]))
  BY StatesReadingType
<1> HIDE DEF back
<1>3. ReadBytes(state, coded) = [bytes |-> raw, state |-> back[n]]
  BY DEF ReadBytes, back
<1>4. raw \in Seq(Byte) /\ Len(raw) = n /\ \A i \in 1..n : raw[i] = Unwhiten(back[i-1], coded[i])
  <2>1. \A i \in 1..n : Unwhiten(back[i-1], coded[i]) \in Byte
    BY <1>1, <1>2, WhitenType
  <2> QED  BY <1>1, <2>1
<1> HIDE DEF raw
<1>5. /\ out \in [0..n -> Word] /\ out[0] = state
      /\ \A i \in 1..n : out[i] = CrcUpdate(out[i-1], raw[i])
  BY <1>4, StatesWritingType
<1> HIDE DEF out
<1>6. \A i \in 1..n : Whiten(back[i-1], raw[i]) = coded[i]
  BY <1>1, <1>2, <1>4, WhitenUnwhiten
<1>7. \A i \in 0..n : out[i] = back[i]
  <2>1. out[0] = back[0]
    BY <1>2, <1>5
  <2>2. \A i \in 1..n : out[i-1] = back[i-1] => out[i] = back[i]
    BY <1>2, <1>4, <1>5
  <2> HIDE DEF n
  <2>3. StepAlike(out, back, n)
    BY <2>1, <2>2 DEF StepAlike
  <2>4. RunAlike(out, back, n)
    BY <1>1, <2>3, RunsAgree
  <2> QED  BY <2>4 DEF RunAlike
<1>8. WriteBytes(state, raw) =
        [bytes |-> [i \in 1..n |-> Whiten(out[i-1], raw[i])], state |-> out[n]]
  BY <1>4 DEF WriteBytes, out
<1>9. [i \in 1..n |-> Whiten(out[i-1], raw[i])] = coded
  <2>1. \A i \in 1..n : Whiten(out[i-1], raw[i]) = coded[i]
    BY <1>1, <1>6, <1>7
  <2>2. coded = [i \in 1..n |-> coded[i]]
    OBVIOUS
  <2> QED  BY <2>1, <2>2
<1>10. out[n] = back[n]
  BY <1>1, <1>7
<1> QED  BY <1>3, <1>8, <1>9, <1>10

(* Reading less of a buffer reads the same bytes, as far as it goes.       *)
LEMMA SliceAt ==
  ASSUME NEW s \in Seq(Byte), NEW m \in Int, NEW n \in Int, 1 <= m, m <= n + 1, n <= Len(s)
  PROVE  \A i \in 1..(n - m + 1) : SubSeq(s, m, n)[i] = s[m + i - 1]
  OBVIOUS

LEMMA ReadsPrefixAlike ==
  ASSUME NEW state \in Word, NEW coded \in Seq(Byte), NEW m \in Nat, m <= Len(coded)
  PROVE  LET front == ReadBytes(state, SubSeq(coded, 1, m))
             whole == ReadBytes(state, coded)
         IN  /\ \A i \in 1..m : front.bytes[i] = whole.bytes[i]
             /\ front.state = StatesReading(state, coded)[m]
<1> DEFINE n     == Len(coded)
           cut   == SubSeq(coded, 1, m)
           whole == StatesReading(state, coded)
           part  == StatesReading(state, cut)
<1>1. n \in Nat /\ m \in Nat /\ m <= n
  OBVIOUS
<1>2. cut \in Seq(Byte) /\ Len(cut) = m /\ \A i \in 1..m : cut[i] = coded[i]
  OBVIOUS
<1> HIDE DEF cut
<1>3. /\ whole[0] = state
      /\ \A i \in 1..n : whole[i] = CrcUpdate(whole[i-1], Unwhiten(whole[i-1], coded[i]))
  BY StatesReadingType
<1>4. /\ part[0] = state
      /\ \A i \in 1..m : part[i] = CrcUpdate(part[i-1], Unwhiten(part[i-1], cut[i]))
  BY <1>2, StatesReadingType
<1> HIDE DEF whole, part
<1>5. \A i \in 0..m : part[i] = whole[i]
  <2> HIDE DEF n
  <2>1. ASSUME NEW i \in 1..m, part[i-1] = whole[i-1]
        PROVE  part[i] = whole[i]
    <3>1. i \in 1..n /\ cut[i] = coded[i]
      BY <1>1, <1>2
    <3>2. part[i] = CrcUpdate(part[i-1], Unwhiten(part[i-1], cut[i]))
      BY <1>4
    <3>3. whole[i] = CrcUpdate(whole[i-1], Unwhiten(whole[i-1], coded[i]))
      BY <1>3, <3>1
    <3> QED  BY <2>1, <3>1, <3>2, <3>3
  <2>2. \A i \in 1..m : part[i-1] = whole[i-1] => part[i] = whole[i]
    BY <2>1
  <2>3. part[0] = whole[0]
    BY <1>3, <1>4
  <2>4. StepAlike(part, whole, m)
    BY <2>2, <2>3 DEF StepAlike
  <2>5. RunAlike(part, whole, m)
    BY <1>1, <2>4, RunsAgree
  <2> QED  BY <2>5 DEF RunAlike
<1>6. ReadBytes(state, coded).bytes = [i \in 1..n |-> Unwhiten(whole[i-1], coded[i])]
  BY DEF ReadBytes, whole
<1>7. ReadBytes(state, cut).bytes = [i \in 1..m |-> Unwhiten(part[i-1], cut[i])]
  BY <1>2 DEF ReadBytes, part
<1>8. ASSUME NEW i \in 1..m
      PROVE  ReadBytes(state, cut).bytes[i] = ReadBytes(state, coded).bytes[i]
  <2>1. i \in 1..n /\ i - 1 \in 0..m
    BY <1>1
  <2>2. part[i-1] = whole[i-1] /\ cut[i] = coded[i]
    BY <1>2, <1>5, <2>1
  <2> QED  BY <1>6, <1>7, <2>1, <2>2
<1>9. ReadBytes(state, cut).state = part[m]
  BY <1>2 DEF ReadBytes, part
<1>10. part[m] = whole[m]
  BY <1>1, <1>5
<1> QED  BY <1>8, <1>9, <1>10 DEF cut, whole

(* What a reader sees of a buffer does not depend on what lies behind.     *)
LEMMA SliceOfFront ==
  ASSUME NEW s \in Seq(Byte), NEW m \in Nat, m <= Len(s),
         NEW a \in Nat, NEW b \in Nat, 1 <= a, a <= b + 1, b <= m
  PROVE  SubSeq(SubSeq(s, 1, m), a, b) = SubSeq(s, a, b)
<1> DEFINE front == SubSeq(s, 1, m)
           one   == SubSeq(front, a, b)
           two   == SubSeq(s, a, b)
<1>1. front \in Seq(Byte) /\ Len(front) = m /\ \A i \in 1..m : front[i] = s[i]
  OBVIOUS
<1> HIDE DEF front
<1>2. /\ one \in Seq(Byte) /\ Len(one) = b - a + 1
      /\ \A i \in 1..(b - a + 1) : one[i] = front[a + i - 1]
  BY <1>1
<1>3. /\ two \in Seq(Byte) /\ Len(two) = b - a + 1
      /\ \A i \in 1..(b - a + 1) : two[i] = s[a + i - 1]
  OBVIOUS
<1> HIDE DEF one, two
<1>4. ASSUME NEW i \in 1..(b - a + 1) PROVE one[i] = two[i]
  <2>1. a + i - 1 \in 1..m
    OBVIOUS
  <2> QED  BY <1>1, <1>2, <1>3, <2>1
<1>5. one = two
  BY <1>2, <1>3, <1>4, SeqEqual
<1> QED  BY <1>5 DEF one, two, front

LEMMA HeaderFromFront ==
  ASSUME NEW state \in Word, NEW coded \in Seq(Byte), NEW m \in Nat,
         HeaderBytes <= m, m <= Len(coded)
  PROVE  PacketHeader(state, SubSeq(coded, 1, m)) = PacketHeader(state, coded)
<1>1. SubSeq(SubSeq(coded, 1, m), 1, 3) = SubSeq(coded, 1, 3)
  <2>1. 1 \in Nat /\ 3 \in Nat /\ 1 <= 1 /\ 1 <= 3 + 1 /\ 3 <= m
    BY DEF HeaderBytes
  <2> QED  BY <2>1, SliceOfFront
<1> QED  BY <1>1 DEF PacketHeader, HeaderBytes

LEMMA PacketFromFront ==
  ASSUME NEW state \in Word, NEW coded \in Seq(Byte), NEW m \in Nat, m <= Len(coded),
         ReadPacket(state, SubSeq(coded, 1, m)).ok
  PROVE  ReadPacket(state, coded) = ReadPacket(state, SubSeq(coded, 1, m))
<1> DEFINE cut     == SubSeq(coded, 1, m)
           size    == PacketHeader(state, coded).len
           Body(c) == ReadBytes(state, SubSeq(c, 1, size - TrailerBytes))
           Last(c) == ReadBytes(Body(c).state, SubSeq(c, size - TrailerBytes + 1, size))
           Read(c) == IF /\ Len(c) >= OverheadBytes /\ size <= Len(c)
                         /\ Last(c).bytes = <<Lo(Body(c).state), Hi(Body(c).state)>>
                      THEN [ok |-> TRUE, tag |-> PacketHeader(state, coded).tag,
                            payload |-> SubSeq(Body(c).bytes, HeaderBytes + 1, Len(Body(c).bytes)),
                            len |-> size, state |-> Last(c).state]
                      ELSE [ok |-> FALSE]
<1>1. cut \in Seq(Byte) /\ Len(cut) = m
  BY ByteSlice
<1> HIDE DEF cut
<1>2. 5 <= m
  <2>1. Len(cut) >= OverheadBytes
    BY DEF ReadPacket, cut
  <2> QED  BY <1>1, <2>1 DEF OverheadBytes, HeaderBytes, TrailerBytes
<1>3. PacketHeader(state, cut) = PacketHeader(state, coded)
  BY <1>2, HeaderFromFront DEF HeaderBytes, cut
<1>4. ReadPacket(state, coded) = Read(coded)
  BY DEF ReadPacket
<1>5. ReadPacket(state, cut) = Read(cut)
  BY <1>3 DEF ReadPacket
<1>6. size <= m /\ size \in Nat /\ size >= 5
  <2>1. Len(coded) >= HeaderBytes
    BY <1>2 DEF HeaderBytes
  <2>2. size \in OverheadBytes..(OverheadBytes + MaxByte)
    BY <2>1, PacketHeaderType
  <2> HIDE DEF size, Body, Last
  <2>3. size <= Len(cut)
    BY <1>5 DEF cut
  <2> QED  BY <1>1, <2>2, <2>3 DEF OverheadBytes, HeaderBytes, TrailerBytes, MaxByte
<1> HIDE DEF size
<1>7. SubSeq(cut, 1, size - TrailerBytes) = SubSeq(coded, 1, size - TrailerBytes)
  <2> DEFINE last == size - TrailerBytes
  <2>1. 1 \in Nat /\ last \in Nat /\ 1 <= 1 /\ 1 <= last + 1 /\ last <= m
    BY <1>6 DEF TrailerBytes
  <2> HIDE DEF last
  <2>2. SubSeq(SubSeq(coded, 1, m), 1, last) = SubSeq(coded, 1, last)
    BY <2>1, SliceOfFront
  <2> QED  BY <2>2 DEF last, cut
<1>8. SubSeq(cut, size - TrailerBytes + 1, size) = SubSeq(coded, size - TrailerBytes + 1, size)
  <2> DEFINE first == size - TrailerBytes + 1
  <2>1. first \in Nat /\ 1 <= first /\ first <= size + 1
    BY <1>6 DEF TrailerBytes
  <2> HIDE DEF first
  <2>2. SubSeq(SubSeq(coded, 1, m), first, size) = SubSeq(coded, first, size)
    BY <1>6, <2>1, SliceOfFront
  <2> QED  BY <2>2 DEF first, cut
<1>9. Body(cut) = Body(coded)
  BY <1>7
<1>10. Last(cut) = Last(coded)
  BY <1>8, <1>9
<1> HIDE DEF Body, Last
<1>11. Len(coded) >= OverheadBytes /\ size <= Len(coded) /\ Len(cut) >= OverheadBytes /\ size <= Len(cut)
  BY <1>1, <1>2, <1>6 DEF OverheadBytes, HeaderBytes, TrailerBytes
<1>12. Read(cut) = Read(coded)
  BY <1>9, <1>10, <1>11
<1> HIDE DEF Read
<1> QED  BY <1>4, <1>5, <1>12 DEF cut

LEMMA TailFromFront ==
  ASSUME NEW state \in Word, NEW coded \in Seq(Byte), Len(coded) >= TailBytes
  PROVE  ReadTail(state, SubSeq(coded, 1, TailBytes)) = ReadTail(state, coded)
<1> DEFINE cut == SubSeq(coded, 1, TailBytes)
<1>1. TailBytes = 5
  BY DEF TailBytes
<1>2. cut \in Seq(Byte) /\ Len(cut) = 5 /\ cut[3] = coded[3]
  BY <1>1
<1>3. SubSeq(cut, 1, 2) = SubSeq(coded, 1, 2)
  <2>1. /\ TailBytes \in Nat /\ TailBytes <= Len(coded)
        /\ 1 \in Nat /\ 2 \in Nat /\ 1 <= 1 /\ 1 <= 2 + 1 /\ 2 <= TailBytes
    BY <1>1
  <2> QED  BY <2>1, SliceOfFront
<1>4. SubSeq(cut, 4, TailBytes) = SubSeq(coded, 4, TailBytes)
  <2>1. /\ TailBytes \in Nat /\ TailBytes <= Len(coded)
        /\ 4 \in Nat /\ 1 <= 4 /\ 4 <= TailBytes + 1 /\ TailBytes <= TailBytes
    BY <1>1
  <2> QED  BY <2>1, SliceOfFront
<1>5. Len(cut) >= TailBytes /\ Len(coded) >= TailBytes
  BY <1>1, <1>2
<1> HIDE DEF cut
<1> QED  BY <1>2, <1>3, <1>4, <1>5 DEF ReadTail, cut

-----------------------------------------------------------------------------
(* What is written reads back: a packet with its tag, payload and state,   *)
(* a tail as a tail.                                                       *)
LEMMA ConcatAt ==
  ASSUME NEW s \in Seq(Byte), NEW t \in Seq(Byte)
  PROVE  /\ \A i \in 1..Len(s) : (s \o t)[i] = s[i]
         /\ \A i \in 1..Len(t) : (s \o t)[Len(s) + i] = t[i]
  OBVIOUS

LEMMA ConcatParts ==
  ASSUME NEW s \in Seq(Byte), NEW t \in Seq(Byte)
  PROVE  /\ SubSeq(s \o t, 1, Len(s)) = s
         /\ SubSeq(s \o t, Len(s) + 1, Len(s) + Len(t)) = t
<1> DEFINE both == s \o t
           m == Len(s)
           n == Len(t)
           front == SubSeq(both, 1, m)
           back  == SubSeq(both, m + 1, m + n)
<1>1. /\ m \in Nat /\ n \in Nat /\ both \in Seq(Byte) /\ Len(both) = m + n
      /\ \A i \in 1..m : both[i] = s[i]
      /\ \A i \in 1..n : both[m + i] = t[i]
  OBVIOUS
<1> HIDE DEF both, m, n
<1>2. front \in Seq(Byte) /\ Len(front) = m /\ \A i \in 1..m : front[i] = both[i]
  BY <1>1
<1>3. back \in Seq(Byte) /\ Len(back) = n /\ \A i \in 1..n : back[i] = both[m + i]
  <2>1. /\ m + 1 \in Int /\ m + n \in Int /\ 1 <= m + 1 /\ m + 1 <= (m + n) + 1
        /\ m + n <= Len(both) /\ (m + n) - (m + 1) + 1 = n
    BY <1>1
  <2>2. /\ back \in Seq(Byte) /\ Len(back) = (m + n) - (m + 1) + 1
    BY <1>1, <2>1, ByteSlice
  <2>3. \A i \in 1..n : back[i] = both[(m + 1) + i - 1]
    <3> DEFINE p == m + 1
               q == m + n
    <3>1. p \in Int /\ q \in Int /\ 1 <= p /\ p <= q + 1 /\ q <= Len(both) /\ q - p + 1 = n
      BY <2>1
    <3>2. back = SubSeq(both, p, q)
      OBVIOUS
    <3> HIDE DEF p, q, back
    <3>3. \A i \in 1..(q - p + 1) : SubSeq(both, p, q)[i] = both[p + i - 1]
      BY <1>1, <3>1, SliceAt
    <3>4. \A i \in 1..n : back[i] = both[p + i - 1]
      BY <3>1, <3>2, <3>3
    <3> QED  BY <3>4 DEF p
  <2>4. \A i \in 1..n : (m + 1) + i - 1 = m + i
    BY <1>1
  <2> QED  BY <2>1, <2>2, <2>3, <2>4
<1> HIDE DEF front, back
<1>4. front = s
  <2>1. \A i \in 1..m : front[i] = s[i]
    BY <1>1, <1>2
  <2> QED  BY <1>2, <2>1, SeqEqual DEF m
<1>5. back = t
  <2>1. \A i \in 1..n : back[i] = t[i]
    BY <1>1, <1>3
  <2> QED  BY <1>3, <2>1, SeqEqual DEF n
<1> QED  BY <1>4, <1>5 DEF front, back, both, m, n

LEMMA ClosedReadsBack ==
  ASSUME NEW written, written.bytes \in Seq(Byte), written.state \in Word
  PROVE  LET all == Closed(written)
             n   == Len(written.bytes)
         IN  /\ SubSeq(all.bytes, 1, n) = written.bytes
             /\ ReadBytes(written.state, SubSeq(all.bytes, n + 1, n + 2)) =
                  [bytes |-> <<Lo(written.state), Hi(written.state)>>, state |-> all.state]
<1> DEFINE trail == <<Lo(written.state), Hi(written.state)>>
           close == WriteBytes(written.state, trail)
           front == written.bytes
           back  == close.bytes
<1>1. trail \in Seq(Byte) /\ Len(trail) = 2
  BY HalvesType
<1>2. Closed(written) = [bytes |-> front \o back, state |-> close.state]
  BY DEF Closed
<1> HIDE DEF trail
<1>3. back \in Seq(Byte) /\ Len(back) = 2
  BY <1>1, WriteBytesType
<1>4. ReadBytes(written.state, back) = [bytes |-> trail, state |-> close.state]
  BY <1>1, ReadsBytesBack
<1> DEFINE last == close.state
<1> HIDE DEF back, last, close
<1>5. SubSeq(front \o back, 1, Len(front)) = front
      /\ SubSeq(front \o back, Len(front) + 1, Len(front) + Len(back)) = back
  <2>1. front \in Seq(Byte)
    OBVIOUS
  <2> HIDE DEF front
  <2> QED  BY <1>3, <2>1, ConcatParts
<1>6. SubSeq(front \o back, Len(front) + 1, Len(front) + 2) = back
  BY <1>3, <1>5
<1>7. Closed(written).bytes = front \o back /\ Closed(written).state = last
  BY <1>2 DEF last
<1> QED  BY <1>4, <1>5, <1>6, <1>7 DEF trail, last

LEMMA HeaderBytesOf ==
  ASSUME NEW tag \in Word, NEW payload \in Seq(Byte), Len(payload) <= 255
  PROVE  LET raw == <<Lo(tag), Hi(tag), Len(payload)>> \o payload
         IN  /\ raw \in Seq(Byte) /\ Len(raw) = 3 + Len(payload)
             /\ raw[1] = Lo(tag) /\ raw[2] = Hi(tag) /\ raw[3] = Len(payload)
             /\ SubSeq(raw, 4, Len(raw)) = payload
<1> DEFINE head == <<Lo(tag), Hi(tag), Len(payload)>>
           raw  == head \o payload
<1>1. head \in Seq(Byte) /\ Len(head) = 3
  BY HalvesType, ByteIs
<1>2. head[1] = Lo(tag) /\ head[2] = Hi(tag) /\ head[3] = Len(payload)
  OBVIOUS
<1> HIDE DEF head
<1>3. /\ raw \in Seq(Byte) /\ Len(raw) = 3 + Len(payload)
      /\ raw[1] = head[1] /\ raw[2] = head[2] /\ raw[3] = head[3]
  <2>1. raw \in Seq(Byte) /\ Len(raw) = 3 + Len(payload)
    BY <1>1, ByteConcat
  <2>2. \A i \in 1..Len(head) : raw[i] = head[i]
    BY <1>1, ConcatAt, Zenon
  <2>3. 1 \in 1..3 /\ 2 \in 1..3 /\ 3 \in 1..3
    OBVIOUS
  <2> QED  BY <1>1, <2>1, <2>2, <2>3, Zenon
<1>4. SubSeq(raw, Len(head) + 1, Len(head) + Len(payload)) = payload
  BY <1>1, ConcatParts
<1> HIDE DEF raw
<1> QED  BY <1>1, <1>2, <1>3, <1>4 DEF raw, head

LEMMA TagFromHalves ==
  ASSUME NEW tag \in Word
  PROVE  Lo(tag) + 256 * Hi(tag) = tag
<1>1. tag \in Int /\ 0 <= tag
  BY WordIs
<1> QED  BY <1>1 DEF Lo, Hi

(* What po_wire_write_packet writes for a tag and a payload of at most 255 *)
(* bytes, from any running state, po_wire_packet_header and                *)
(* po_wire_read_packet take for that tag, that payload and that length,    *)
(* and the reader ends in the state the writer was left in.                *)
THEOREM PacketReadsBack ==
  ASSUME NEW state \in Word, NEW tag \in Word,
         NEW payload \in Seq(Byte), Len(payload) <= 255
  PROVE  LET w   == WritePacket(state, tag, payload)
             len == OverheadBytes + Len(payload)
         IN  /\ PacketHeader(state, w.bytes) = [tag |-> tag, len |-> len]
             /\ ReadPacket(state, w.bytes) =
                  [ok |-> TRUE, tag |-> tag, payload |-> payload, len |-> len, state |-> w.state]
<1> DEFINE raw   == <<Lo(tag), Hi(tag), Len(payload)>> \o payload
           body  == WriteBytes(state, raw)
           front == body.bytes
           all   == Closed(body)
           coded == all.bytes
           n     == Len(payload)
<1>1. /\ raw \in Seq(Byte) /\ Len(raw) = 3 + n
      /\ raw[1] = Lo(tag) /\ raw[2] = Hi(tag) /\ raw[3] = n
      /\ SubSeq(raw, 4, Len(raw)) = payload
  BY HeaderBytesOf
<1>2. WritePacket(state, tag, payload) = all
  BY DEF WritePacket
<1> HIDE DEF raw
<1>3. front \in Seq(Byte) /\ Len(front) = 3 + n /\ body.state \in Word
  BY <1>1, WriteBytesType
<1>4. ReadBytes(state, front) = [bytes |-> raw, state |-> body.state]
  BY <1>1, ReadsBytesBack
<1> DEFINE mid == body.state
<1>5. body.bytes = front /\ body.state = mid
  OBVIOUS
<1> HIDE DEF body, front, mid
<1>6. /\ coded \in Seq(Byte) /\ Len(coded) = 5 + n
      /\ SubSeq(coded, 1, 3 + n) = front
      /\ ReadBytes(mid, SubSeq(coded, 3 + n + 1, 3 + n + 2)) =
           [bytes |-> <<Lo(mid), Hi(mid)>>, state |-> all.state]
  <2>1. n \in Nat
    OBVIOUS
  <2>2. body.bytes \in Seq(Byte) /\ body.state \in Word /\ Len(body.bytes) = 3 + n
    BY <1>3, <1>5
  <2>3. coded \in Seq(Byte) /\ Len(coded) = Len(body.bytes) + TrailerBytes
    BY <2>2, ClosedType
  <2>4. Len(coded) = 5 + n
    <3> HIDE DEF coded, n
    <3> QED  BY <2>1, <2>2, <2>3 DEF TrailerBytes
  <2>5. /\ SubSeq(all.bytes, 1, Len(body.bytes)) = body.bytes
        /\ ReadBytes(body.state, SubSeq(all.bytes, Len(body.bytes) + 1, Len(body.bytes) + 2)) =
             [bytes |-> <<Lo(body.state), Hi(body.state)>>, state |-> all.state]
    BY <2>2, ClosedReadsBack
  <2> HIDE DEF all, n
  <2> QED  BY <1>5, <2>2, <2>3, <2>4, <2>5
<1> DEFINE final == all.state
<1>7. all.bytes = coded /\ all.state = final
  OBVIOUS
<1>8. n \in Nat
  OBVIOUS
<1> HIDE DEF all, coded, final, n
<1>9. PacketHeader(state, coded) = [tag |-> tag, len |-> 5 + n]
  <2> DEFINE cut == SubSeq(coded, 1, 3 + n)
  <2>1. PacketHeader(state, cut) = PacketHeader(state, coded)
    <3>1. 3 + n \in Nat /\ HeaderBytes <= 3 + n /\ 3 + n <= Len(coded)
      BY <1>6, <1>8 DEF HeaderBytes
    <3> QED  BY <1>6, <3>1, HeaderFromFront
  <2>2. cut = front
    BY <1>6
  <2> HIDE DEF cut
  <2> DEFINE three == ReadBytes(state, SubSeq(front, 1, 3)).bytes
  <2>3. three[1] = raw[1] /\ three[2] = raw[2] /\ three[3] = raw[3]
    <3>1. 3 \in Nat /\ 3 <= Len(front) /\ front \in Seq(Byte)
      BY <1>3, <1>8
    <3>2. \A i \in 1..3 : three[i] = ReadBytes(state, front).bytes[i]
      BY <3>1, ReadsPrefixAlike
    <3> QED  BY <1>4, <3>2
  <2>4. PacketHeader(state, front) = [tag |-> three[1] + 256 * three[2], len |-> OverheadBytes + three[3]]
    BY DEF PacketHeader, HeaderBytes
  <2> HIDE DEF three
  <2>5. three[1] + 256 * three[2] = tag
    BY <1>1, <2>3, TagFromHalves
  <2>6. OverheadBytes + three[3] = 5 + n
    BY <1>1, <2>3 DEF OverheadBytes, HeaderBytes, TrailerBytes
  <2> QED  BY <2>1, <2>2, <2>4, <2>5, <2>6
<1>10. ReadPacket(state, coded) =
         [ok |-> TRUE, tag |-> tag, payload |-> payload, len |-> 5 + n, state |-> final]
  <2> DEFINE size == 5 + n
             read == ReadBytes(state, SubSeq(coded, 1, size - TrailerBytes))
             last == ReadBytes(read.state, SubSeq(coded, size - TrailerBytes + 1, size))
  <2>1. ReadPacket(state, coded) =
          IF /\ Len(coded) >= OverheadBytes /\ size <= Len(coded)
             /\ last.bytes = <<Lo(read.state), Hi(read.state)>>
          THEN [ok |-> TRUE, tag |-> tag,
                payload |-> SubSeq(read.bytes, HeaderBytes + 1, Len(read.bytes)),
                len |-> size, state |-> last.state]
          ELSE [ok |-> FALSE]
    BY <1>9 DEF ReadPacket
  <2>2. size - TrailerBytes = 3 + n /\ size - TrailerBytes + 1 = 3 + n + 1 /\ size = 3 + n + 2
    BY <1>8 DEF TrailerBytes
  <2>3. read = [bytes |-> raw, state |-> mid]
    BY <1>4, <1>5, <1>6, <2>2
  <2>4. last = [bytes |-> <<Lo(mid), Hi(mid)>>, state |-> final]
    BY <1>6, <1>7, <2>2, <2>3
  <2>5. Len(coded) >= OverheadBytes /\ size <= Len(coded)
    BY <1>6, <1>8 DEF OverheadBytes, HeaderBytes, TrailerBytes
  <2>6. SubSeq(raw, HeaderBytes + 1, Len(raw)) = payload
    BY <1>1 DEF HeaderBytes
  <2> HIDE DEF read, last, size
  <2>7. read.bytes = raw /\ read.state = mid /\ last.state = final
        /\ last.bytes = <<Lo(mid), Hi(mid)>>
    BY <2>3, <2>4
  <2>8. ReadPacket(state, coded) = [ok |-> TRUE, tag |-> tag, payload |-> payload,
                                    len |-> size, state |-> final]
    BY <2>1, <2>5, <2>6, <2>7
  <2> QED  BY <2>8 DEF size
<1>11. OverheadBytes + n = 5 + n
  BY DEF OverheadBytes, HeaderBytes, TrailerBytes
<1>12. WritePacket(state, tag, payload).bytes = coded /\ WritePacket(state, tag, payload).state = final
  BY <1>2, <1>7
<1> QED  BY <1>9, <1>10, <1>11, <1>12 DEF n

(* A packet the parser takes, of a size it can announce, is the one the    *)
(* builder writes for what was read, and leaves the same state.            *)
LEMMA HalvesOfTag ==
  ASSUME NEW lo \in Byte, NEW hi \in Byte
  PROVE  lo + 256 * hi \in Word /\ Lo(lo + 256 * hi) = lo /\ Hi(lo + 256 * hi) = hi
<1>1. lo \in 0..255 /\ hi \in 0..255
  BY ByteIs
<1> QED  BY <1>1, WordIs DEF Lo, Hi

LEMMA FrontAndBack ==
  ASSUME NEW s \in Seq(Byte), NEW m \in Nat, m <= Len(s)
  PROVE  SubSeq(s, 1, m) \o SubSeq(s, m + 1, Len(s)) = s
<1> DEFINE n     == Len(s)
           front == SubSeq(s, 1, m)
           back  == SubSeq(s, m + 1, n)
<1>1. n \in Nat /\ m <= n
  OBVIOUS
<1>2. front \in Seq(Byte) /\ Len(front) = m /\ \A i \in 1..m : front[i] = s[i]
  OBVIOUS
<1>3. back \in Seq(Byte) /\ Len(back) = n - m /\ \A i \in 1..(n - m) : back[i] = s[m + i]
  <2>1. /\ m + 1 \in Int /\ n \in Int /\ 1 <= m + 1 /\ m + 1 <= n + 1 /\ n <= Len(s)
        /\ n - (m + 1) + 1 = n - m
    BY <1>1
  <2>2. back \in Seq(Byte) /\ Len(back) = n - (m + 1) + 1
    BY <2>1, ByteSlice
  <2>3. \A i \in 1..(n - (m + 1) + 1) : back[i] = s[(m + 1) + i - 1]
    BY <2>1, SliceAt
  <2> HIDE DEF back, n
  <2>4. \A i \in 1..(n - m) : (m + 1) + i - 1 = m + i
    BY <1>1
  <2> QED  BY <2>1, <2>2, <2>3, <2>4
<1> HIDE DEF front, back
<1> DEFINE both == front \o back
<1>4. both \in Seq(Byte) /\ Len(both) = Len(front) + Len(back)
  BY <1>2, <1>3, ByteConcat
<1>5. /\ \A i \in 1..Len(front) : both[i] = front[i]
      /\ \A i \in 1..Len(back) : both[Len(front) + i] = back[i]
  BY <1>2, <1>3, ConcatAt
<1> HIDE DEF both
<1>6. Len(both) = n /\ \A i \in 1..n : both[i] = s[i]
  <2>1. Len(both) = n
    <3> HIDE DEF n
    <3> QED  BY <1>1, <1>2, <1>3, <1>4
  <2>2. ASSUME NEW i \in 1..n PROVE both[i] = s[i]
    <3>1. CASE i <= m
      BY <1>1, <1>2, <1>5, <3>1
    <3>2. CASE i > m
      <4> DEFINE j == i - m
      <4>1. j \in 1..(n - m) /\ m + j = i
        BY <1>1, <3>2
      <4> HIDE DEF j, n
      <4> QED  BY <1>2, <1>3, <1>5, <4>1
    <3> QED  BY <1>1, <3>1, <3>2
  <2> QED  BY <2>1, <2>2
<1> QED  BY <1>4, <1>6, SeqEqual DEF n, both, front, back

(* The other way round: whatever bytes po_wire_read_packet accepts are the *)
(* bytes po_wire_write_packet writes for the tag and the payload read, and *)
(* the same state follows.  So from one state no two strings of bytes read *)
(* as the same packet.                                                     *)
THEOREM PacketWritesBack ==
  ASSUME NEW state \in Word, NEW coded \in Seq(Byte),
         ReadPacket(state, coded).ok, PacketHeader(state, coded).len = Len(coded)
  PROVE  LET pkt == ReadPacket(state, coded)
         IN  WritePacket(state, pkt.tag, pkt.payload) = [bytes |-> coded, state |-> pkt.state]
<1> DEFINE n    == Len(coded)
           head == PacketHeader(state, coded)
           cut  == n - TrailerBytes
           read == ReadBytes(state, SubSeq(coded, 1, cut))
           last == ReadBytes(read.state, SubSeq(coded, cut + 1, n))
           raw  == read.bytes
           pkt  == ReadPacket(state, coded)
           Ok   == /\ Len(coded) >= OverheadBytes /\ head.len <= Len(coded)
                   /\ last.bytes = <<Lo(read.state), Hi(read.state)>>
<1>1. pkt = IF Ok
            THEN [ok |-> TRUE, tag |-> head.tag,
                  payload |-> SubSeq(raw, HeaderBytes + 1, Len(raw)),
                  len |-> n, state |-> last.state]
            ELSE [ok |-> FALSE]
  BY DEF ReadPacket
<1>2. Ok
  <2> HIDE DEF Ok, pkt
  <2> QED  BY <1>1 DEF pkt
<1>3. /\ pkt.tag = head.tag /\ pkt.payload = SubSeq(raw, 4, Len(raw)) /\ pkt.state = last.state
  <2> HIDE DEF Ok, pkt, head, last, raw, n
  <2> QED  BY <1>1, <1>2 DEF HeaderBytes
<1>4. n \in Nat /\ n >= 5 /\ cut = n - 2 /\ cut + 1 = n - 1
  <2>1. n \in Nat
    OBVIOUS
  <2> HIDE DEF n
  <2> QED  BY <1>2, <2>1 DEF n, OverheadBytes, HeaderBytes, TrailerBytes
<1> DEFINE front == SubSeq(coded, 1, n - 2)
           back  == SubSeq(coded, n - 1, n)
<1>5. /\ front \in Seq(Byte) /\ Len(front) = n - 2 /\ back \in Seq(Byte) /\ Len(back) = 2
      /\ front \o back = coded
  <2>1. n - 2 \in Nat /\ n - 2 <= Len(coded) /\ (n - 2) + 1 = n - 1
    BY <1>4
  <2>2. SubSeq(coded, 1, n - 2) \o SubSeq(coded, (n - 2) + 1, Len(coded)) = coded
    BY <2>1, FrontAndBack
  <2>3. /\ 1 \in Int /\ n - 2 \in Int /\ n - 1 \in Int /\ n \in Int /\ 1 <= 1
        /\ 1 <= (n - 2) + 1 /\ n - 2 <= Len(coded) /\ 1 <= n - 1 /\ n - 1 <= n + 1
        /\ n <= Len(coded) /\ (n - 2) - 1 + 1 = n - 2 /\ n - (n - 1) + 1 = 2
    BY <1>4
  <2>4. front \in Seq(Byte) /\ Len(front) = (n - 2) - 1 + 1
    BY <2>3, ByteSlice
  <2>5. back \in Seq(Byte) /\ Len(back) = n - (n - 1) + 1
    BY <2>3, ByteSlice
  <2> HIDE DEF front, back
  <2> QED  BY <2>1, <2>2, <2>3, <2>4, <2>5 DEF front, back
<1> DEFINE mid   == read.state
           final == last.state
<1>6. /\ read = ReadBytes(state, front) /\ last = ReadBytes(mid, back)
  BY <1>4
<1>7. last.bytes = <<Lo(mid), Hi(mid)>>
  BY <1>2
<1> HIDE DEF read, last, front, back
<1>8. raw \in Seq(Byte) /\ Len(raw) = n - 2 /\ mid \in Word
  BY <1>5, <1>6, ReadBytesType
<1>9. WriteBytes(state, raw) = [bytes |-> front, state |-> mid]
  BY <1>5, <1>6, WritesBytesBack
<1>10. WriteBytes(mid, <<Lo(mid), Hi(mid)>>) = [bytes |-> back, state |-> final]
  BY <1>5, <1>6, <1>7, <1>8, WritesBytesBack
<1>11. raw = <<Lo(head.tag), Hi(head.tag), Len(pkt.payload)>> \o pkt.payload
  <2> DEFINE three == ReadBytes(state, SubSeq(coded, 1, 3)).bytes
  <2>1. three[1] = raw[1] /\ three[2] = raw[2] /\ three[3] = raw[3]
    <3>1. SubSeq(front, 1, 3) = SubSeq(coded, 1, 3)
      <4>1. 3 \in Nat /\ n - 2 \in Nat /\ 3 <= n - 2 /\ n - 2 <= Len(coded)
        BY <1>4
      <4> QED  BY <4>1, SliceOfFront DEF front
    <3>2. 3 \in Nat /\ 3 <= Len(front)
      BY <1>4, <1>5
    <3>3. \A i \in 1..3 : ReadBytes(state, SubSeq(front, 1, 3)).bytes[i] = ReadBytes(state, front).bytes[i]
      BY <1>5, <3>2, ReadsPrefixAlike
    <3>4. raw = ReadBytes(state, front).bytes /\ three = ReadBytes(state, SubSeq(front, 1, 3)).bytes
      BY <1>6, <3>1
    <3>5. 1 \in 1..3 /\ 2 \in 1..3 /\ 3 \in 1..3
      OBVIOUS
    <3> HIDE DEF raw, three
    <3>6. \A i \in 1..3 : three[i] = raw[i]
      BY <3>3, <3>4
    <3> QED  BY <3>5, <3>6
  <2>2. head = [tag |-> three[1] + 256 * three[2], len |-> OverheadBytes + three[3]]
    BY DEF PacketHeader, HeaderBytes
  <2> HIDE DEF three, head
  <2>3. head.tag = raw[1] + 256 * raw[2] /\ head.len = 5 + raw[3]
    BY <2>1, <2>2 DEF OverheadBytes, HeaderBytes, TrailerBytes
  <2> HIDE DEF n, raw, pkt
  <2>4. n - 2 \in Nat /\ 3 <= n - 2
    BY <1>4
  <2>5. raw[1] \in Byte /\ raw[2] \in Byte /\ raw[3] \in Byte
    BY <1>8, <2>4
  <2>6. Lo(head.tag) = raw[1] /\ Hi(head.tag) = raw[2]
    BY <2>3, <2>5, HalvesOfTag
  <2> DEFINE opening == SubSeq(raw, 1, 3)
             rest    == SubSeq(raw, 4, Len(raw))
  <2>7. opening \o rest = raw
    <3>1. 3 \in Nat /\ 3 <= Len(raw) /\ 3 + 1 = 4
      BY <1>8, <2>4
    <3> QED  BY <1>8, <3>1, FrontAndBack
  <2>8. Len(rest) = raw[3]
    <3>1. 4 \in Int /\ n - 2 \in Int /\ 1 <= 4 /\ 4 <= (n - 2) + 1 /\ n - 2 <= Len(raw)
      BY <1>4, <1>8
    <3>2. Len(SubSeq(raw, 4, n - 2)) = (n - 2) - 4 + 1
      BY <1>8, <3>1, ByteSlice
    <3>3. raw[3] \in Int /\ n = 5 + raw[3]
      BY <2>3, <2>5, ByteIs DEF n, head
    <3> QED  BY <1>8, <2>4, <3>2, <3>3, SMTT(30)
  <2>9. opening = <<raw[1], raw[2], raw[3]>>
    <3>1. opening \in Seq(Byte) /\ Len(opening) = 3
      <4>1. /\ 1 \in Int /\ 3 \in Int /\ 1 <= 1 /\ 1 <= 3 + 1 /\ 3 <= Len(raw)
            /\ 3 - 1 + 1 = 3
        BY <1>8, <2>4
      <4> QED  BY <1>8, <4>1, ByteSlice
    <3>2. opening[1] = raw[1] /\ opening[2] = raw[2] /\ opening[3] = raw[3]
      BY <1>8, <2>4
    <3> HIDE DEF opening
    <3>3. opening = <<opening[1], opening[2], opening[3]>>
      BY <3>1
    <3> QED  BY <3>2, <3>3
  <2> QED  BY <1>3, <2>6, <2>7, <2>8, <2>9
<1>12. WritePacket(state, head.tag, pkt.payload) = Closed([bytes |-> front, state |-> mid])
  BY <1>9, <1>11 DEF WritePacket
<1>13. Closed([bytes |-> front, state |-> mid]) = [bytes |-> front \o back, state |-> final]
  <2> DEFINE w == [bytes |-> front, state |-> mid]
  <2>1. w.bytes = front /\ w.state = mid
    OBVIOUS
  <2> HIDE DEF w, front, mid
  <2>2. WriteBytes(w.state, <<Lo(w.state), Hi(w.state)>>) = [bytes |-> back, state |-> final]
    BY <1>10, <2>1
  <2> HIDE DEF final
  <2> DEFINE close == WriteBytes(w.state, <<Lo(w.state), Hi(w.state)>>)
  <2>3. Closed(w) = [bytes |-> w.bytes \o close.bytes, state |-> close.state]
    BY DEF Closed
  <2>4. close.bytes = back /\ close.state = final
    BY <2>2
  <2> HIDE DEF close
  <2> QED  BY <2>1, <2>3, <2>4 DEF w
<1> QED  BY <1>3, <1>5, <1>12, <1>13

-----------------------------------------------------------------------------
(* The tail, and why it is told from a packet by its first two bytes: they *)
(* stand where a packet has its tag.                                       *)
LEMMA ReadsOneMore ==
  ASSUME NEW state \in Word, NEW coded \in Seq(Byte),
         NEW m \in Nat, NEW k \in Nat, k = m + 1, k <= Len(coded)
  PROVE  LET before == ReadBytes(state, SubSeq(coded, 1, m)).state
             one    == ReadBytes(state, coded).bytes[k]
         IN  /\ before \in Word /\ coded[k] \in Byte
             /\ one = Unwhiten(before, coded[k])
             /\ ReadBytes(state, SubSeq(coded, 1, k)).state = CrcUpdate(before, one)
<1> DEFINE n   == Len(coded)
           run == StatesReading(state, coded)
<1>1. n \in Nat /\ k \in 1..n /\ m <= n /\ k - 1 = m
  OBVIOUS
<1>2. /\ run \in [0..n -> Word]
      /\ \A i \in 1..n : run[i] = CrcUpdate(run[i-1], Unwhiten(run[i-1], coded[i]))
  BY StatesReadingType
<1>3. ReadBytes(state, coded).bytes = [i \in 1..n |-> Unwhiten(run[i-1], coded[i])]
  BY DEF ReadBytes
<1>4. /\ ReadBytes(state, SubSeq(coded, 1, m)).state = run[m]
      /\ ReadBytes(state, SubSeq(coded, 1, k)).state = run[k]
  BY <1>1, ReadsPrefixAlike
<1>5. coded[k] \in Byte
  BY <1>1
<1> HIDE DEF run, n
<1>6. run[k] = CrcUpdate(run[m], Unwhiten(run[m], coded[k]))
  BY <1>1, <1>2
<1>7. ReadBytes(state, coded).bytes[k] = Unwhiten(run[m], coded[k])
  BY <1>1, <1>3
<1>8. run[m] \in Word
  BY <1>1, <1>2
<1> QED  BY <1>4, <1>5, <1>6, <1>7, <1>8

(* The bytes a packet begins with, as a reader of any buffer finds them.   *)
LEMMA ThreeBytesRead ==
  ASSUME NEW state \in Word, NEW coded \in Seq(Byte), Len(coded) >= 3
  PROVE  LET raw  == ReadBytes(state, SubSeq(coded, 1, 3)).bytes
             two  == ReadBytes(state, SubSeq(coded, 1, 2))
         IN  /\ raw[1] \in Byte /\ raw[2] \in Byte /\ raw[3] \in Byte
             /\ raw[1] = Unwhiten(state, coded[1])
             /\ two.bytes = <<raw[1], raw[2]>> /\ two.state \in Word
             /\ coded[3] \in Byte /\ raw[3] = Unwhiten(two.state, coded[3])
             /\ ReadBytes(state, SubSeq(coded, 1, 3)).state = CrcUpdate(two.state, raw[3])
<1> DEFINE cut == SubSeq(coded, 1, 3)
           raw == ReadBytes(state, cut).bytes
           two == ReadBytes(state, SubSeq(coded, 1, 2))
<1>1. cut \in Seq(Byte) /\ Len(cut) = 3 /\ cut[1] = coded[1] /\ cut[3] = coded[3]
  OBVIOUS
<1>2. SubSeq(cut, 1, 2) = SubSeq(coded, 1, 2)
  <2>1. 3 \in Nat /\ 3 <= Len(coded) /\ 1 \in Nat /\ 2 \in Nat /\ 1 <= 1 /\ 1 <= 2 + 1 /\ 2 <= 3
    OBVIOUS
  <2> QED  BY <2>1, SliceOfFront
<1>3. SubSeq(cut, 1, 3) = cut
  <2>1. 3 \in Nat /\ 3 <= Len(coded) /\ 1 \in Nat /\ 1 <= 1 /\ 1 <= 3 + 1 /\ 3 <= 3
    OBVIOUS
  <2> QED  BY <2>1, SliceOfFront
<1> HIDE DEF cut
<1>4. raw \in Seq(Byte) /\ Len(raw) = 3 /\ raw[1] \in Byte /\ raw[2] \in Byte /\ raw[3] \in Byte
  BY <1>1, ReadBytesType, ThreeBytes
<1>5. /\ two.state \in Word /\ cut[3] \in Byte
      /\ raw[3] = Unwhiten(two.state, cut[3])
      /\ ReadBytes(state, cut).state = CrcUpdate(two.state, raw[3])
  <2> DEFINE shorter == ReadBytes(state, SubSeq(cut, 1, 2)).state
  <2>1. 2 \in Nat /\ 3 \in Nat /\ 3 = 2 + 1 /\ 3 <= Len(cut)
    BY <1>1
  <2>2. /\ shorter \in Word /\ cut[3] \in Byte
        /\ raw[3] = Unwhiten(shorter, cut[3])
        /\ ReadBytes(state, SubSeq(cut, 1, 3)).state = CrcUpdate(shorter, raw[3])
    BY <1>1, <2>1, ReadsOneMore
  <2>3. shorter = two.state
    BY <1>2
  <2> HIDE DEF shorter
  <2> QED  BY <1>3, <2>2, <2>3
<1>6. two.bytes = <<raw[1], raw[2]>>
  <2> DEFINE pair == two.bytes
  <2>1. SubSeq(coded, 1, 2) \in Seq(Byte) /\ Len(SubSeq(coded, 1, 2)) = 2
    OBVIOUS
  <2>2. pair \in Seq(Byte) /\ Len(pair) = 2
    BY <2>1, ReadBytesType
  <2>3. \A i \in 1..2 : pair[i] = raw[i]
    <3>1. 2 \in Nat /\ 2 <= Len(cut)
      BY <1>1
    <3>2. \A i \in 1..2 : ReadBytes(state, SubSeq(cut, 1, 2)).bytes[i] = raw[i]
      BY <1>1, <3>1, ReadsPrefixAlike
    <3> QED  BY <1>2, <3>2
  <2> HIDE DEF pair
  <2>4. pair = <<raw[1], raw[2]>>
    <3>1. pair = <<pair[1], pair[2]>>
      BY <2>2
    <3> QED  BY <2>3, <3>1
  <2> QED  BY <2>4 DEF pair
<1>7. raw[1] = Unwhiten(state, coded[1])
  <2>1. SubSeq(cut, 1, 0) \in Seq(Byte) /\ Len(SubSeq(cut, 1, 0)) = 0
    BY <1>1
  <2>2. ReadBytes(state, SubSeq(cut, 1, 0)).state = state
    BY <2>1, StatesReadingType DEF ReadBytes
  <2>3. 0 \in Nat /\ 1 \in Nat /\ 1 = 0 + 1 /\ 1 <= Len(cut)
    BY <1>1
  <2>4. raw[1] = Unwhiten(ReadBytes(state, SubSeq(cut, 1, 0)).state, cut[1])
    BY <1>1, <2>3, ReadsOneMore
  <2> QED  BY <1>1, <2>2, <2>4
<1> QED  BY <1>1, <1>4, <1>5, <1>6, <1>7 DEF cut

LEMMA TailMeansMarkers ==
  ASSUME NEW state \in Word, NEW coded \in Seq(Byte), ReadTail(state, coded).ok
  PROVE  /\ Len(coded) >= TailBytes
         /\ Unwhiten(state, coded[1]) = TailMarker1
         /\ PacketHeader(state, coded).tag = TailMarker1 + 256 * TailMarker2
<1> DEFINE raw == ReadBytes(state, SubSeq(coded, 1, 3)).bytes
           two == ReadBytes(state, SubSeq(coded, 1, 2))
<1>1. Len(coded) >= TailBytes /\ two.bytes = <<TailMarker1, TailMarker2>>
  BY DEF ReadTail
<1>2. Len(coded) >= 3
  BY <1>1 DEF TailBytes
<1>3. raw[1] = Unwhiten(state, coded[1]) /\ two.bytes = <<raw[1], raw[2]>>
  BY <1>2, ThreeBytesRead
<1> HIDE DEF two
<1>4. PacketHeader(state, coded).tag = raw[1] + 256 * raw[2]
  BY DEF PacketHeader, HeaderBytes
<1> HIDE DEF raw
<1>5. raw[1] = TailMarker1 /\ raw[2] = TailMarker2
  BY <1>1, <1>3
<1> QED  BY <1>1, <1>3, <1>4, <1>5

(* What po_wire_write_tail writes from any running state is a tail to      *)
(* po_wire_read_tail, which ends in the state the writer was left in.      *)
THEOREM TailReadsBack ==
  ASSUME NEW state \in Word
  PROVE  LET w == WriteTail(state)
         IN  /\ ReadTail(state, w.bytes).ok
             /\ ReadTail(state, w.bytes).tail.final = w.state
<1> DEFINE raw     == <<TailMarker1, TailMarker2>>
           marks   == WriteBytes(state, raw)
           front   == marks.bytes
           mid     == marks.state
           begun   == Append(front, Lo(mid))
           special == [bytes |-> begun, state |-> MixSpecial(mid)]
           coded   == Closed(special).bytes
           last    == Closed(special).state
<1>1. raw \in Seq(Byte) /\ Len(raw) = 2
  BY ByteIs DEF TailMarker1, TailMarker2
<1> HIDE DEF raw
<1>2. front \in Seq(Byte) /\ Len(front) = 2 /\ mid \in Word
  BY <1>1, WriteBytesType
<1>3. ReadBytes(state, front) = [bytes |-> raw, state |-> mid]
  BY <1>1, ReadsBytesBack
<1>4. WriteTail(state).bytes = coded /\ WriteTail(state).state = last
  BY DEF WriteTail, raw
<1> HIDE DEF front, mid, marks
<1>5. Lo(mid) \in Byte /\ MixSpecial(mid) \in Word
  BY <1>2, HalvesType, MixSpecialType
<1>6. begun \in Seq(Byte) /\ Len(begun) = 3 /\ begun[3] = Lo(mid) /\ SubSeq(begun, 1, 2) = front
  <2>1. begun \in Seq(Byte) /\ Len(begun) = 3 /\ begun[3] = Lo(mid)
        /\ \A i \in 1..2 : begun[i] = front[i]
    BY <1>2, <1>5, AppendAt, SMTT(30)
  <2> HIDE DEF begun
  <2> DEFINE cut == SubSeq(begun, 1, 2)
  <2>2. cut \in Seq(Byte) /\ Len(cut) = 2 /\ \A i \in 1..2 : cut[i] = begun[i]
    BY <2>1
  <2> HIDE DEF cut
  <2>3. cut = front
    BY <1>2, <2>1, <2>2, SeqEqual
  <2> QED  BY <2>1, <2>3 DEF cut
<1> HIDE DEF begun
<1> DEFINE after == special.state
<1>7. special.bytes = begun /\ after = MixSpecial(mid) /\ special.state = after
  OBVIOUS
<1> HIDE DEF special, after
<1>8. coded \in Seq(Byte) /\ Len(coded) = 5 /\ SubSeq(coded, 1, 3) = begun
      /\ ReadBytes(after, SubSeq(coded, 4, 5)).bytes = <<Lo(after), Hi(after)>>
      /\ ReadBytes(after, SubSeq(coded, 4, 5)).state = last
  <2>1. special.bytes \in Seq(Byte) /\ special.state \in Word /\ Len(special.bytes) = 3
    BY <1>5, <1>6, <1>7
  <2>2. coded \in Seq(Byte) /\ Len(coded) = Len(special.bytes) + TrailerBytes
    BY <2>1, ClosedType
  <2> DEFINE all == Closed(special)
             n   == Len(special.bytes)
  <2>3. /\ SubSeq(all.bytes, 1, n) = special.bytes
        /\ ReadBytes(special.state, SubSeq(all.bytes, n + 1, n + 2)) =
             [bytes |-> <<Lo(special.state), Hi(special.state)>>, state |-> all.state]
    BY <2>1, ClosedReadsBack
  <2> HIDE DEF all
  <2>4. Len(special.bytes) + 1 = 4 /\ Len(special.bytes) + 2 = 5
        /\ Len(special.bytes) + TrailerBytes = 5
    BY <2>1 DEF TrailerBytes
  <2>5. coded = all.bytes /\ last = all.state
    BY DEF all
  <2> HIDE DEF coded, last
  <2> QED  BY <1>7, <2>1, <2>2, <2>3, <2>4, <2>5
<1> HIDE DEF coded, last
<1>9. SubSeq(coded, 1, 2) = front
  <2>1. 3 \in Nat /\ 3 <= Len(coded) /\ 1 \in Nat /\ 2 \in Nat /\ 1 <= 1 /\ 1 <= 2 + 1 /\ 2 <= 3
    BY <1>8
  <2>2. SubSeq(SubSeq(coded, 1, 3), 1, 2) = SubSeq(coded, 1, 2)
    BY <1>8, <2>1, SliceOfFront
  <2> QED  BY <1>6, <1>8, <2>2
<1>10. coded[3] = Lo(mid)
  <2>1. SubSeq(coded, 1, 3)[3] = coded[3]
    BY <1>8
  <2> QED  BY <1>6, <1>8, <2>1
<1>11. Len(coded) >= TailBytes /\ SubSeq(coded, 4, TailBytes) = SubSeq(coded, 4, 5)
  BY <1>8 DEF TailBytes
<1> DEFINE back == ReadBytes(after, SubSeq(coded, 4, TailBytes))
<1>12. back.bytes = <<Lo(after), Hi(after)>> /\ back.state = last
  BY <1>8, <1>11
<1>13. ReadBytes(state, SubSeq(coded, 1, 2)).bytes = <<TailMarker1, TailMarker2>>
       /\ ReadBytes(state, SubSeq(coded, 1, 2)).state = mid
  <2>1. ReadBytes(state, SubSeq(coded, 1, 2)) = [bytes |-> raw, state |-> mid]
    BY <1>3, <1>9
  <2> QED  BY <2>1 DEF raw
<1>14. ReadBytes(MixSpecial(mid), SubSeq(coded, 4, TailBytes)).bytes =
         <<Lo(MixSpecial(mid)), Hi(MixSpecial(mid))>>
       /\ ReadBytes(MixSpecial(mid), SubSeq(coded, 4, TailBytes)).state = last
  BY <1>7, <1>12
<1>15. ReadTail(state, coded).ok /\ ReadTail(state, coded).tail.final = last
  BY <1>10, <1>11, <1>13, <1>14 DEF ReadTail
<1> QED  BY <1>4, <1>15

(* The special byte of a tail mixes as a payload length of zero does.      *)
LEMMA XorZero ==
  ASSUME NEW b \in Byte
  PROVE  XorByte(0, b) = b
<1>1. \A x \in 0..15 : XorNibble[0][x] = x
  BY DEF XorNibble
<1>2. b \div 16 \in 0..15 /\ b % 16 \in 0..15 /\ 16 * (b \div 16) + (b % 16) = b
  <2>1. b \in Int /\ 0 <= b /\ b <= 255
    BY ByteIs
  <2> QED  BY <2>1
<1>3. 0 \div 16 = 0 /\ 0 % 16 = 0
  OBVIOUS
<1> HIDE DEF XorNibble
<1>4. XorByte(0, b) = 16 * XorNibble[0][b \div 16] + XorNibble[0][b % 16]
  BY <1>3 DEF XorByte
<1> QED  BY <1>1, <1>2, <1>4

LEMMA SpecialIsZeroByte ==
  ASSUME NEW state \in Word
  PROVE  CrcUpdate(state, 0) = MixSpecial(state)
<1> DEFINE hi == Hi(state)
<1>1. hi \in Byte
  BY HalvesType
<1>2. /\ state \in Int /\ 0 <= state /\ state <= 65535
      /\ (state \div 256) % 256 = hi /\ (state \div 4096) % 256 = hi \div 16
  BY WordIs DEF Hi
<1>3. CrcUpdate(state, 0) = CrcMix(state, XorByte(hi, hi \div 16))
  BY <1>1, XorZero DEF CrcUpdate
<1>4. MixSpecial(state) = CrcMix(state, XorByte(hi \div 16, hi))
  BY <1>2 DEF MixSpecial
<1> HIDE DEF hi
<1>5. XorByte(hi \div 16, hi) = XorByte(hi, hi \div 16)
  <2>1. \A x, y \in 0..15 : XorNibble[x][y] = XorNibble[y][x]
    BY DEF XorNibble
  <2> DEFINE low == hi \div 16
  <2>2. /\ hi \div 16 \in 0..15 /\ hi % 16 \in 0..15 /\ low \div 16 \in 0..15 /\ low % 16 \in 0..15
    BY <1>1, ByteIs
  <2> HIDE DEF XorNibble, low
  <2>3. XorByte(low, hi) = XorByte(hi, low)
    BY <2>1, <2>2 DEF XorByte
  <2> QED  BY <2>3 DEF low
<1> QED  BY <1>3, <1>4, <1>5

LEMMA MarkersFromTag ==
  ASSUME NEW a \in Byte, NEW b \in Byte
  PROVE  a = 195 /\ b = 113 <=> a + 256 * b = 195 + 256 * 113
<1>1. a \in Int /\ 0 <= a /\ a <= 255 /\ b \in Int /\ 0 <= b /\ b <= 255
  BY ByteIs
<1>2. ASSUME a + 256 * b = 195 + 256 * 113 PROVE a = 195 /\ b = 113
  <2>1. b = 113
    <3>1. b <= 113
      BY <1>1, <1>2
    <3>2. b >= 113
      BY <1>1, <1>2
    <3> QED  BY <1>1, <3>1, <3>2
  <2> QED  BY <1>1, <1>2, <2>1
<1> QED  BY <1>2

LEMMA NoDifference ==
  ASSUME NEW a \in Byte, NEW b \in Byte
  PROVE  (a - b) % 256 = 0 <=> a = b
<1>1. a \in Int /\ 0 <= a /\ a <= 255 /\ b \in Int /\ 0 <= b /\ b <= 255
  BY ByteIs
<1>2. CASE a < b
  <2>1. (a - b) % 256 = a - b + 256
    BY <1>1, <1>2
  <2> QED  BY <1>1, <1>2, <2>1
<1>3. CASE a >= b
  <2>1. (a - b) % 256 = a - b
    BY <1>1, <1>3
  <2> QED  BY <1>1, <1>3, <2>1
<1> QED  BY <1>1, <1>2, <1>3

(* A written packet is taken for a tail by po_wire_read_tail exactly when  *)
(* it has no payload and the tail's two markers for a tag, whatever the    *)
(* running state: the one packet that ends the frame for its parser.       *)
THEOREM PacketAsTail ==
  ASSUME NEW state \in Word, NEW tag \in Word,
         NEW payload \in Seq(Byte), Len(payload) <= 255
  PROVE  ReadTail(state, WritePacket(state, tag, payload).bytes).ok <=>
           tag = TailMarker1 + 256 * TailMarker2 /\ payload = <<>>
<1> DEFINE w     == WritePacket(state, tag, payload)
           coded == w.bytes
           n     == Len(payload)
           three == ReadBytes(state, SubSeq(coded, 1, 3))
           raw   == three.bytes
           two   == ReadBytes(state, SubSeq(coded, 1, 2))
           mid   == two.state
           after == MixSpecial(mid)
           back  == ReadBytes(after, SubSeq(coded, 4, 5))
<1>1. n \in Nat /\ n <= 255
  OBVIOUS
<1>2. coded \in Seq(Byte) /\ Len(coded) = 5 + n
  BY WritePacketType DEF OverheadBytes, HeaderBytes, TrailerBytes
<1>3. PacketHeader(state, coded) = [tag |-> tag, len |-> OverheadBytes + n]
  BY PacketReadsBack
<1>4. ReadPacket(state, coded).ok
  <2>1. ReadPacket(state, coded) = [ok |-> TRUE, tag |-> tag, payload |-> payload,
                                    len |-> OverheadBytes + n, state |-> w.state]
    BY PacketReadsBack
  <2> HIDE DEF w, n
  <2> QED  BY <2>1
<1> HIDE DEF w, coded
<1>5. raw[1] + 256 * raw[2] = tag /\ raw[3] = n
  <2>1. PacketHeader(state, coded) = [tag |-> raw[1] + 256 * raw[2], len |-> OverheadBytes + raw[3]]
    BY DEF PacketHeader, HeaderBytes
  <2>2. OverheadBytes + raw[3] = OverheadBytes + n /\ raw[1] + 256 * raw[2] = tag
    <3> HIDE DEF raw, n
    <3> QED  BY <1>3, <2>1
  <2>3. raw[3] \in Byte
    BY <1>1, <1>2, ThreeBytesRead
  <2>4. raw[3] \in Int
    BY <2>3, ByteIs
  <2> HIDE DEF raw, n
  <2> QED  BY <1>1, <2>2, <2>4 DEF OverheadBytes, HeaderBytes, TrailerBytes
<1>6. /\ raw[1] \in Byte /\ raw[2] \in Byte
      /\ two.bytes = <<raw[1], raw[2]>> /\ mid \in Word
      /\ coded[3] \in Byte /\ raw[3] = Unwhiten(mid, coded[3])
      /\ three.state = CrcUpdate(mid, raw[3])
  <2>1. Len(coded) >= 3
    BY <1>1, <1>2
  <2> QED  BY <1>2, <2>1, ThreeBytesRead
<1>7. ReadTail(state, coded).ok <=>
        /\ two.bytes = <<TailMarker1, TailMarker2>>
        /\ coded[3] = Lo(mid)
        /\ back.bytes = <<Lo(after), Hi(after)>>
  <2>1. Len(coded) >= TailBytes /\ TailBytes = 5
    BY <1>1, <1>2 DEF TailBytes
  <2> QED  BY <2>1 DEF ReadTail
<1> HIDE DEF raw, mid, two, three, back
<1>8. two.bytes = <<TailMarker1, TailMarker2>> <=> tag = TailMarker1 + 256 * TailMarker2
  <2>2. raw[1] = 195 /\ raw[2] = 113 <=> raw[1] + 256 * raw[2] = 195 + 256 * 113
    BY <1>6, MarkersFromTag
  <2> QED  BY <1>5, <1>6, <2>2 DEF TailMarker1, TailMarker2
<1>9. coded[3] = Lo(mid) <=> n = 0
  <2>1. n = (coded[3] - Lo(mid)) % 256
    BY <1>5, <1>6 DEF Unwhiten
  <2>2. coded[3] \in Byte /\ Lo(mid) \in Byte
    BY <1>6, HalvesType
  <2>3. (coded[3] - Lo(mid)) % 256 = 0 <=> coded[3] = Lo(mid)
    BY <2>2, NoDifference
  <2> HIDE DEF n
  <2> QED  BY <2>1, <2>3
<1>10. n = 0 <=> payload = <<>>
  OBVIOUS
<1>11. n = 0 => back.bytes = <<Lo(after), Hi(after)>>
  <2> SUFFICES ASSUME n = 0 PROVE back.bytes = <<Lo(after), Hi(after)>>
    OBVIOUS
  <2>1. three.state = after
    BY <1>5, <1>6, SpecialIsZeroByte
  <2> DEFINE size  == PacketHeader(state, coded).len
             body  == ReadBytes(state, SubSeq(coded, 1, size - TrailerBytes))
             close == ReadBytes(body.state, SubSeq(coded, size - TrailerBytes + 1, size))
  <2>2. close.bytes = <<Lo(body.state), Hi(body.state)>>
    BY <1>4 DEF ReadPacket
  <2>3. size = 5 /\ size - TrailerBytes = 3 /\ size - TrailerBytes + 1 = 4
    <3>1. size = OverheadBytes + n
      BY <1>3
    <3> HIDE DEF size, n
    <3> QED  BY <3>1 DEF OverheadBytes, HeaderBytes, TrailerBytes
  <2> HIDE DEF size
  <2>4. body = three
    BY <2>3 DEF three
  <2>5. close = back
    BY <2>1, <2>3, <2>4 DEF back
  <2> HIDE DEF body, close, after
  <2> QED  BY <2>1, <2>2, <2>4, <2>5
<1> QED  BY <1>7, <1>8, <1>9, <1>10, <1>11 DEF coded, w

-----------------------------------------------------------------------------
(* Bytes that come later. *)
Begins(body, longer) ==
  Len(body) <= Len(longer) /\ \A i \in 1..Len(body) : longer[i] = body[i]

LEMMA ConcatBegins ==
  ASSUME NEW body \in Seq(Byte), NEW more \in Seq(Byte)
  PROVE  body \o more \in Seq(Byte) /\ Begins(body, body \o more)
<1>1. body \o more \in Seq(Byte) /\ Len(body \o more) = Len(body) + Len(more)
  BY ByteConcat
<1>2. Len(body) \in Nat /\ Len(more) \in Nat
  OBVIOUS
<1>3. \A i \in 1..Len(body) : (body \o more)[i] = body[i]
  BY ConcatAt
<1> QED  BY <1>1, <1>2, <1>3 DEF Begins

LEMMA BeginsBegins ==
  ASSUME NEW one \in Seq(Byte), NEW two \in Seq(Byte), NEW three \in Seq(Byte),
         Begins(one, two), Begins(two, three)
  PROVE  Begins(one, three)
<1>1. /\ Len(one) \in Nat /\ Len(two) \in Nat /\ Len(three) \in Nat
      /\ Len(one) <= Len(two) /\ Len(two) <= Len(three)
  BY DEF Begins
<1>2. \A i \in 1..Len(one) : i \in 1..Len(two) /\ two[i] = one[i] /\ three[i] = two[i]
  BY <1>1 DEF Begins
<1> QED  BY <1>1, <1>2 DEF Begins

LEMMA AppendBegins ==
  ASSUME NEW body \in Seq(Byte), NEW b \in Byte
  PROVE  Append(body, b) \in Seq(Byte) /\ Begins(body, Append(body, b))
<1> DEFINE n == Len(body)
<1>1. n \in Nat
  OBVIOUS
<1>2. /\ Append(body, b) \in Seq(Byte) /\ Len(Append(body, b)) = n + 1
      /\ \A i \in 1..n : Append(body, b)[i] = body[i]
  BY <1>1, AppendAt
<1> QED  BY <1>1, <1>2 DEF Begins

(* A slice inside the front of a longer sequence.                          *)
LEMMA SliceOfBeginning ==
  ASSUME NEW body \in Seq(Byte), NEW longer \in Seq(Byte), Begins(body, longer),
         NEW m \in Nat, NEW n \in Nat, 1 <= m, m <= n + 1, n <= Len(body)
  PROVE  SubSeq(longer, m, n) = SubSeq(body, m, n)
<1> DEFINE one == SubSeq(longer, m, n)
           two == SubSeq(body, m, n)
<1>1. m \in Int /\ n \in Int /\ n <= Len(longer) /\ Len(body) \in Nat /\ Len(longer) \in Nat
  BY DEF Begins
<1>2. /\ one \in Seq(Byte) /\ Len(one) = n - m + 1
      /\ \A i \in 1..(n - m + 1) : one[i] = longer[m + i - 1]
  BY <1>1, ByteSlice, SliceAt
<1>3. /\ two \in Seq(Byte) /\ Len(two) = n - m + 1
      /\ \A i \in 1..(n - m + 1) : two[i] = body[m + i - 1]
  BY <1>1, ByteSlice, SliceAt
<1>4. \A i \in 1..(n - m + 1) : m + i - 1 \in 1..Len(body)
  BY <1>1
<1>5. \A i \in 1..Len(one) : one[i] = two[i]
  <2> HIDE DEF one, two
  <2> QED  BY <1>2, <1>3, <1>4 DEF Begins
<1> HIDE DEF one, two
<1> QED  BY <1>2, <1>3, <1>5, SeqEqual DEF one, two

(* The rest of the rest. *)
LEMMA SliceOfRest ==
  ASSUME NEW body \in Seq(Byte), NEW pos \in Nat, NEW m \in Nat, pos + m <= Len(body)
  PROVE  SubSeq(SubSeq(body, pos + 1, Len(body)), 1, m) = SubSeq(body, pos + 1, pos + m)
<1> DEFINE rest == SubSeq(body, pos + 1, Len(body))
           one  == SubSeq(rest, 1, m)
           two  == SubSeq(body, pos + 1, pos + m)
<1>1. Len(body) \in Nat /\ pos + 1 \in Int /\ pos + m \in Int
  OBVIOUS
<1>2. /\ rest \in Seq(Byte) /\ Len(rest) = Len(body) - pos
      /\ \A i \in 1..(Len(body) - pos) : rest[i] = body[pos + i]
  OBVIOUS
<1> HIDE DEF rest
<1>3. one \in Seq(Byte) /\ Len(one) = m /\ \A i \in 1..m : one[i] = rest[i]
  BY <1>1, <1>2
<1>4. two \in Seq(Byte) /\ Len(two) = m /\ \A i \in 1..m : two[i] = body[pos + i]
  BY <1>1, SMTT(30)
<1>5. \A i \in 1..m : i \in 1..(Len(body) - pos)
  BY <1>1
<1> HIDE DEF one, two
<1>6. \A i \in 1..Len(one) : one[i] = two[i]
  BY <1>2, <1>3, <1>4, <1>5
<1> QED  BY <1>3, <1>4, <1>6, SeqEqual DEF one, two, rest

=============================================================================
