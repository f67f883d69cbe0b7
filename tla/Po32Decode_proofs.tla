-------------------------- MODULE Po32Decode_proofs --------------------------
(***************************************************************************)
(* The PO-32 frame from the parser up to the decoder.                      *)
(*                                                                         *)
(* First the parser: where the loop of po32_frame_parse can stand after    *)
(* any number of turns, that bytes which come later do not change the      *)
(* packets already read, and when the loop has settled.  Then the builder: *)
(* its types and bounds, and that what it has written reads back.          *)
(*                                                                         *)
(* Then the streaming demodulator (Po32Demod) by itself, and last the      *)
(* demodulator listening to transmissions (Po32Link) and inside            *)
(* po32_decode_f32, which files what it hears into a builder (Po32Decode). *)
(* What is true of single packets and tails is in POWire_proofs.           *)
(***************************************************************************)
EXTENDS Po32Decode, POWire_proofs

-----------------------------------------------------------------------------
(***************************************************************************)
(* The parser.                                                             *)
(***************************************************************************)
USE PreambleAssumption

ParsedPacket == [tag : Word, payload : Seq(Byte), offset : Nat]
ParsedTail   == [before : Word, after : Word, final : Word]

ParseState ==
  [pos : Nat, state : Word, packets : Seq(ParsedPacket), tail : ParsedTail,
   status : {"more", "ok", "bad"}]

LEMMA FrameConstants ==
  /\ OverheadBytes = 5 /\ HeaderBytes = 3 /\ TrailerBytes = 2 /\ TailBytes = 5
  /\ TailMarker1 = 195 /\ TailMarker2 = 113
  /\ Len(Preamble) \in Nat
  /\ InitialState \in Word /\ NoTail \in ParsedTail
<1>1. InitialState \in Word /\ 0 \in Word
  BY WordIs DEF InitialState
<1> QED
  BY <1>1 DEF OverheadBytes, HeaderBytes, TrailerBytes, TailBytes, TailMarker1, TailMarker2,
              NoTail, ParsedTail

-----------------------------------------------------------------------------
(* The tag table: no packet that is known begins like a tail.              *)
LEMMA KnownTags ==
  ASSUME NEW tag, NEW len, PayloadLenIsValid(tag, len)
  PROVE  tag \in {14258, 19124, 53282, 47250, 20570, 41812, 18799}
<1>1. PICK spec \in TagSpecs : spec.tag = tag
  BY DEF PayloadLenIsValid
<1> QED
  BY <1>1 DEF TagSpecs, TagPatch, TagReset, TagPattern, TagErase, TagState, TagKnob,
              TagPatternSlot

LEMMA KnownLengths ==
  ASSUME NEW tag, NEW len \in Int, PayloadLenIsValid(tag, len)
  PROVE  1 <= len /\ len <= 211
<1>1. PICK spec \in TagSpecs : spec.min <= len /\ len <= spec.max
  BY DEF PayloadLenIsValid
<1> DEFINE lo == spec.min
           hi == spec.max
<1>2. lo \in Int /\ 1 <= lo /\ hi \in Int /\ hi <= 211
  BY DEF TagSpecs
<1>3. lo <= len /\ len <= hi
  BY <1>1
<1> HIDE DEF lo, hi
<1> QED  BY <1>2, <1>3

LEMMA KnownTagsBegin ==
  ASSUME NEW a \in Byte, NEW b \in Byte,
         a + 256 * b \in {14258, 19124, 53282, 47250, 20570, 41812, 18799}
  PROVE  a # 195
<1>1. a \in Int /\ 0 <= a /\ a <= 255 /\ b \in Int /\ 0 <= b /\ b <= 255
  BY ByteIs
<1> QED  BY <1>1

LEMMA KnownIsNoTailStart ==
  ASSUME NEW state \in Word, NEW coded \in Seq(Byte), Len(coded) >= HeaderBytes,
         HeaderIsKnown(state, coded)
  PROVE  Unwhiten(state, coded[1]) # TailMarker1
<1> DEFINE raw == ReadBytes(state, SubSeq(coded, 1, 3)).bytes
           tag == PacketHeader(state, coded).tag
           len == PacketHeader(state, coded).len
<1>1. Len(coded) >= 3
  BY FrameConstants
<1>2. raw[1] \in Byte /\ raw[2] \in Byte /\ raw[1] = Unwhiten(state, coded[1])
  BY <1>1, ThreeBytesRead
<1>3. PacketHeader(state, coded) = [tag |-> raw[1] + 256 * raw[2], len |-> OverheadBytes + raw[3]]
  BY FrameConstants DEF PacketHeader
<1>4. PayloadLenIsValid(tag, len - OverheadBytes)
  BY DEF HeaderIsKnown
<1>5. tag \in {14258, 19124, 53282, 47250, 20570, 41812, 18799}
  <2> HIDE DEF tag, len
  <2> QED  BY <1>4, KnownTags
<1>6. tag = raw[1] + 256 * raw[2]
  <2> HIDE DEF raw
  <2> QED  BY <1>3
<1> HIDE DEF raw, tag
<1>7. raw[1] # 195
  BY <1>2, <1>5, <1>6, KnownTagsBegin
<1> QED  BY <1>2, <1>7, FrameConstants

LEMMA DecodedIsNoTail ==
  ASSUME NEW state \in Word, NEW coded \in Seq(Byte), DecodePacket(state, coded).ok
  PROVE  ~ReadTail(state, coded).ok
<1>1. Len(coded) >= OverheadBytes /\ HeaderIsKnown(state, coded)
  BY DEF DecodePacket
<1>2. Unwhiten(state, coded[1]) # TailMarker1
  BY <1>1, FrameConstants, KnownIsNoTailStart
<1> QED  BY <1>2, TailMeansMarkers

LEMMA DecodePacketType ==
  ASSUME NEW state \in Word, NEW coded \in Seq(Byte), DecodePacket(state, coded).ok
  PROVE  LET pkt == DecodePacket(state, coded)
         IN  /\ pkt = ReadPacket(state, coded)
             /\ HeaderIsKnown(state, coded)
             /\ pkt.len \in Nat /\ pkt.len <= Len(coded) /\ pkt.len >= 5
             /\ pkt.len = OverheadBytes + Len(pkt.payload)
             /\ pkt.tag \in Word /\ pkt.payload \in Seq(Byte) /\ pkt.state \in Word
<1>1. DecodePacket(state, coded) = ReadPacket(state, coded) /\ HeaderIsKnown(state, coded)
  BY DEF DecodePacket
<1>2. ReadPacket(state, coded).ok
  BY <1>1
<1> DEFINE pkt == ReadPacket(state, coded)
<1>3. /\ pkt.len \in Nat /\ pkt.len <= Len(coded)
      /\ pkt.tag \in Word
      /\ pkt.payload \in Seq(Byte) /\ OverheadBytes + Len(pkt.payload) = pkt.len
      /\ pkt.state \in Word
  BY <1>2, ReadPacketType
<1> HIDE DEF pkt
<1>4. Len(pkt.payload) \in Nat
  BY <1>3
<1> QED  BY <1>1, <1>3, <1>4, FrameConstants DEF pkt

(* Bytes that come later change neither a packet already read nor a tail.  *)
LEMMA DecodeFromFront ==
  ASSUME NEW state \in Word, NEW coded \in Seq(Byte), NEW m \in Nat, m <= Len(coded),
         DecodePacket(state, SubSeq(coded, 1, m)).ok
  PROVE  DecodePacket(state, coded) = DecodePacket(state, SubSeq(coded, 1, m))
<1> DEFINE cut == SubSeq(coded, 1, m)
<1>1. cut \in Seq(Byte) /\ Len(cut) = m
  BY ByteSlice
<1>2. Len(cut) >= OverheadBytes /\ HeaderIsKnown(state, cut) /\ ReadPacket(state, cut).ok
  BY DEF DecodePacket
<1>3. PacketHeader(state, cut) = PacketHeader(state, coded)
  <2>1. HeaderBytes <= m
    BY <1>1, <1>2, FrameConstants
  <2> QED  BY <2>1, HeaderFromFront
<1>4. HeaderIsKnown(state, coded)
  BY <1>2, <1>3 DEF HeaderIsKnown
<1>5. ReadPacket(state, coded) = ReadPacket(state, cut)
  BY <1>2, PacketFromFront
<1>6. Len(coded) >= OverheadBytes
  BY <1>1, <1>2, FrameConstants
<1> HIDE DEF cut
<1> QED  BY <1>2, <1>4, <1>5, <1>6 DEF DecodePacket, cut

LEMMA TailType ==
  ASSUME NEW state \in Word, NEW coded \in Seq(Byte), ReadTail(state, coded).ok
  PROVE  ReadTail(state, coded).tail \in ParsedTail
<1> DEFINE cut == SubSeq(coded, 1, TailBytes)
<1>1. Len(coded) >= TailBytes
  BY TailMeansMarkers
<1>2. cut \in Seq(Byte) /\ Len(cut) = TailBytes
  <2>1. 1 \in Int /\ TailBytes \in Int /\ 1 <= TailBytes + 1
    BY FrameConstants
  <2> QED  BY <1>1, <2>1, FrameConstants
<1>3. ReadTail(state, cut) = ReadTail(state, coded)
  BY <1>1, TailFromFront
<1> HIDE DEF cut
<1>4. ReadTail(state, cut).tail \in [before : Word, after : Word, final : Word]
  BY <1>2, <1>3, ReadTailType
<1> QED  BY <1>3, <1>4 DEF ParsedTail

-----------------------------------------------------------------------------
(* One turn of the loop.  What is left of the body is never more than one  *)
(* of four things: nothing, a tail, a packet, or neither.                  *)
LEMMA RestType ==
  ASSUME NEW body \in Seq(Byte), NEW here \in Nat, here < Len(body)
  PROVE  /\ SubSeq(body, here + 1, Len(body)) \in Seq(Byte)
         /\ Len(SubSeq(body, here + 1, Len(body))) = Len(body) - here
  OBVIOUS

(* The four outcomes of a turn. *)
LEMMA TurnAtEnd ==
  ASSUME NEW body \in Seq(Byte), NEW p \in ParseState, p.status = "more", p.pos >= Len(body)
  PROVE  ParseStep(body, p) = [p EXCEPT !.status = "bad"]
  BY DEF ParseStep

LEMMA TurnAtTail ==
  ASSUME NEW body \in Seq(Byte), NEW p \in ParseState, p.status = "more", p.pos < Len(body),
         ReadTail(p.state, SubSeq(body, p.pos + 1, Len(body))).ok
  PROVE  ParseStep(body, p) =
           [p EXCEPT !.status = "ok",
                     !.tail = ReadTail(p.state, SubSeq(body, p.pos + 1, Len(body))).tail]
<1>1. ~(p.pos >= Len(body))
  BY DEF ParseState
<1> QED  BY <1>1 DEF ParseStep

(* What the parser keeps of a packet read at here. *)
Parsed(pkt, here) == [tag |-> pkt.tag, payload |-> pkt.payload, offset |-> Len(Preamble) + here]

LEMMA TurnAtPacket ==
  ASSUME NEW body \in Seq(Byte), NEW p \in ParseState, p.status = "more", p.pos < Len(body),
         DecodePacket(p.state, SubSeq(body, p.pos + 1, Len(body))).ok
  PROVE  LET pkt == DecodePacket(p.state, SubSeq(body, p.pos + 1, Len(body)))
         IN  ParseStep(body, p) =
               [p EXCEPT !.pos = p.pos + pkt.len, !.state = pkt.state,
                         !.packets = Append(p.packets, Parsed(pkt, p.pos))]
<1> DEFINE rest == SubSeq(body, p.pos + 1, Len(body))
<1>1. p.pos \in Nat /\ p.state \in Word /\ ~(p.pos >= Len(body))
  BY DEF ParseState
<1>2. rest \in Seq(Byte)
  BY <1>1, RestType
<1>3. ~ReadTail(p.state, rest).ok
  <2> HIDE DEF rest
  <2> QED  BY <1>1, <1>2, DecodedIsNoTail DEF rest
<1> QED  BY <1>1, <1>3 DEF ParseStep, Parsed

LEMMA TurnAtNeither ==
  ASSUME NEW body \in Seq(Byte), NEW p \in ParseState, p.status = "more", p.pos < Len(body),
         ~ReadTail(p.state, SubSeq(body, p.pos + 1, Len(body))).ok,
         ~DecodePacket(p.state, SubSeq(body, p.pos + 1, Len(body))).ok
  PROVE  ParseStep(body, p) = [p EXCEPT !.status = "bad"]
<1>1. ~(p.pos >= Len(body))
  BY DEF ParseState
<1> QED  BY <1>1 DEF ParseStep

LEMMA TurnWhenSettled ==
  ASSUME NEW body, NEW p, p.status # "more"
  PROVE  ParseStep(body, p) = p
  BY DEF ParseStep

(* A turn reads at least five bytes of the body, or settles.               *)
LEMMA TurnOutcome ==
  ASSUME NEW body \in Seq(Byte), NEW p \in ParseState
  PROVE  LET q == ParseStep(body, p)
         IN  /\ q \in ParseState
             /\ q.status = "more" =>
                  LET rest == SubSeq(body, p.pos + 1, Len(body))
                  IN  /\ p.status = "more" /\ p.pos < Len(body)
                      /\ DecodePacket(p.state, rest).ok
                      /\ q.pos >= p.pos + 5 /\ q.pos <= Len(body)
                      /\ Len(q.packets) = Len(p.packets) + 1
             /\ q.status # "more" => q.packets = p.packets
<1> DEFINE rest == SubSeq(body, p.pos + 1, Len(body))
           q    == ParseStep(body, p)
<1>1. /\ p.pos \in Nat /\ p.state \in Word /\ Len(body) \in Nat
      /\ p.packets \in Seq(ParsedPacket)
  BY DEF ParseState
<1>2. CASE p.status # "more"
  BY <1>2, TurnWhenSettled
<1>3. CASE p.status = "more" /\ p.pos >= Len(body)
  <2>1. q = [p EXCEPT !.status = "bad"]
    BY <1>3, TurnAtEnd
  <2> HIDE DEF q
  <2>2. q \in ParseState /\ q.status = "bad" /\ q.packets = p.packets
    BY <2>1 DEF ParseState
  <2> QED  BY <2>2 DEF q
<1>4. ASSUME p.status = "more", p.pos < Len(body)
      PROVE  rest \in Seq(Byte) /\ Len(rest) = Len(body) - p.pos
  BY <1>1, <1>4, RestType
<1>5. CASE p.status = "more" /\ p.pos < Len(body) /\ ReadTail(p.state, rest).ok
  <2> DEFINE found == ReadTail(p.state, rest).tail
  <2>1. q = [p EXCEPT !.status = "ok", !.tail = found]
    BY <1>5, TurnAtTail
  <2>2. found \in ParsedTail
    <3> HIDE DEF rest
    <3> QED  BY <1>1, <1>4, <1>5, TailType
  <2> HIDE DEF q, found
  <2>3. q \in ParseState /\ q.status = "ok" /\ q.packets = p.packets
    BY <2>1, <2>2 DEF ParseState
  <2> QED  BY <2>3 DEF q
<1>6. CASE p.status = "more" /\ p.pos < Len(body) /\ DecodePacket(p.state, rest).ok
  <2> DEFINE pkt   == DecodePacket(p.state, rest)
             entry == Parsed(pkt, p.pos)
  <2>1. q = [p EXCEPT !.pos = p.pos + pkt.len, !.state = pkt.state,
                      !.packets = Append(p.packets, entry)]
    BY <1>6, TurnAtPacket
  <2>2. /\ pkt.len \in Nat /\ pkt.len <= Len(rest) /\ pkt.len >= 5
        /\ pkt.tag \in Word /\ pkt.payload \in Seq(Byte) /\ pkt.state \in Word
    <3> HIDE DEF rest
    <3> QED  BY <1>1, <1>4, <1>6, DecodePacketType
  <2>3. entry \in ParsedPacket
    <3> HIDE DEF pkt
    <3> QED  BY <1>1, <2>2, FrameConstants, SMTT(30) DEF Parsed, ParsedPacket
  <2>4. /\ Append(p.packets, entry) \in Seq(ParsedPacket)
        /\ Len(Append(p.packets, entry)) = Len(p.packets) + 1
    <3> HIDE DEF entry
    <3> QED  BY <1>1, <2>3
  <2> HIDE DEF q, pkt, entry
  <2>5. q \in ParseState
    <3> DEFINE next == p.pos + pkt.len
               more == Append(p.packets, entry)
    <3>1. next \in Nat /\ more \in Seq(ParsedPacket) /\ pkt.state \in Word
      BY <1>1, <2>2, <2>4
    <3>2. q = [p EXCEPT !.pos = next, !.state = pkt.state, !.packets = more]
      BY <2>1
    <3> HIDE DEF next, more
    <3> QED  BY <3>1, <3>2 DEF ParseState
  <2>6. q.status = "more" /\ q.pos = p.pos + pkt.len /\ Len(q.packets) = Len(p.packets) + 1
    BY <1>6, <2>1, <2>4 DEF ParseState
  <2>7. q.pos >= p.pos + 5 /\ q.pos <= Len(body)
    <3>1. Len(rest) = Len(body) - p.pos
      BY <1>4, <1>6
    <3> HIDE DEF rest
    <3> QED  BY <1>1, <2>2, <2>6, <3>1
  <2> QED  BY <1>6, <2>5, <2>6, <2>7 DEF q
<1>7. CASE /\ p.status = "more" /\ p.pos < Len(body)
           /\ ~ReadTail(p.state, rest).ok /\ ~DecodePacket(p.state, rest).ok
  <2>1. q = [p EXCEPT !.status = "bad"]
    BY <1>7, TurnAtNeither
  <2> HIDE DEF q
  <2>2. q \in ParseState /\ q.status = "bad" /\ q.packets = p.packets
    BY <2>1 DEF ParseState
  <2> QED  BY <2>2 DEF q
<1> QED
  <2>1. p.pos < Len(body) \/ p.pos >= Len(body)
    BY <1>1
  <2> QED  BY <2>1, <1>2, <1>3, <1>5, <1>6, <1>7

LEMMA TurnType ==
  ASSUME NEW body \in Seq(Byte), NEW p \in ParseState
  PROVE  ParseStep(body, p) \in ParseState
  BY TurnOutcome

-----------------------------------------------------------------------------
(* The whole loop. *)
LEMMA StartType == ParseStart \in ParseState
<1>1. <<>> \in Seq(ParsedPacket)
  OBVIOUS
<1> QED  BY <1>1, FrameConstants DEF ParseStart, ParseState

LEMMA ParseRunExists ==
  ASSUME NEW s \in ParseState, NEW n \in Nat, NEW G \in [1..n -> [ParseState -> ParseState]]
  PROVE  \E f \in [0..n -> ParseState] : f[0] = s /\ \A i \in 1..n : f[i] = G[i][f[i-1]]
  BY RunExists, SMT

LEMMA TurnsType ==
  ASSUME NEW body \in Seq(Byte)
  PROVE  LET run == ParseTurns(body)
         IN  /\ run \in [0..(Len(body) + 1) -> ParseState]
             /\ run[0] = ParseStart
             /\ \A k \in 1..(Len(body) + 1) : run[k] = ParseStep(body, run[k-1])
<1> DEFINE n == Len(body) + 1
           Def(f) == f = [k \in 0..n |-> IF k = 0 THEN ParseStart ELSE ParseStep(body, f[k-1])]
           F == ParseTurns(body)
           G == [k \in 1..n |-> [q \in ParseState |-> ParseStep(body, q)]]
<1>1. F = CHOOSE f : Def(f)
  BY DEF ParseTurns
<1>2. n \in Nat
  OBVIOUS
<1>3. G \in [1..n -> [ParseState -> ParseState]]
  BY TurnType
<1>4. PICK f \in [0..n -> ParseState] : f[0] = ParseStart /\ \A k \in 1..n : f[k] = G[k][f[k-1]]
  <2> HIDE DEF G, n
  <2> QED  BY <1>2, <1>3, StartType, ParseRunExists
<1>5. ASSUME NEW k \in 0..n
      PROVE  f[k] = IF k = 0 THEN ParseStart ELSE ParseStep(body, f[k-1])
  <2>1. CASE k = 0
    BY <1>4, <2>1
  <2>2. CASE k \in 1..n
    <3>1. k - 1 \in 0..n
      BY <1>2, <2>2
    <3>2. f[k-1] \in ParseState
      BY <3>1
    <3>3. G[k][f[k-1]] = ParseStep(body, f[k-1])
      BY <2>2, <3>2
    <3> QED  BY <1>4, <2>2, <3>3
  <2> QED  BY <1>2, <2>1, <2>2
<1>6. Def(f)
  BY <1>4, <1>5
<1>7. Def(F)
  <2> HIDE DEF Def, F
  <2> QED  BY <1>1, <1>6
<1>8. F[0] = ParseStart /\ \A k \in 1..n : F[k] = ParseStep(body, F[k-1])
  <2>1. 0 \in 0..n /\ \A k \in 1..n : k \in 0..n /\ k # 0
    BY <1>2
  <2> HIDE DEF F, n
  <2>2. \A k \in 0..n : F[k] = IF k = 0 THEN ParseStart ELSE ParseStep(body, F[k-1])
    BY <1>7, Zenon
  <2> QED  BY <2>1, <2>2
<1>9. \A k \in 0..n : F[k] \in ParseState
  <2>1. \A k \in 1..n : F[k-1] \in ParseState => F[k] \in ParseState
    BY <1>8, TurnType
  <2> HIDE DEF F, n
  <2> QED  BY <1>2, <1>8, <2>1, StartType, RunStaysIn
<1> QED  BY <1>7, <1>8, <1>9

(* As long as the loop goes on, every turn has read one packet.            *)
LEMMA TurnsCount ==
  ASSUME NEW body \in Seq(Byte), NEW k \in 0..(Len(body) + 1),
         ParseTurns(body)[k].status = "more"
  PROVE  LET p == ParseTurns(body)[k]
         IN  Len(p.packets) = k /\ p.pos \in Nat /\ 5 * k <= p.pos /\ p.pos <= Len(body)
<1> DEFINE n   == Len(body) + 1
           run == ParseTurns(body)
           Fine(i) == run[i].status = "more" =>
                        /\ Len(run[i].packets) = i /\ run[i].pos \in Nat
                        /\ 5 * i <= run[i].pos /\ run[i].pos <= Len(body)
           T == { i \in 0..n : Fine(i) }
<1>1. n \in Nat /\ Len(body) \in Nat
  OBVIOUS
<1>2. /\ run \in [0..n -> ParseState] /\ run[0] = ParseStart
      /\ \A i \in 1..n : run[i] = ParseStep(body, run[i-1])
  BY TurnsType
<1> HIDE DEF run
<1>3. Fine(0)
  BY <1>1, <1>2 DEF ParseStart
<1>4. ASSUME NEW i \in 1..n, Fine(i-1) PROVE Fine(i)
  <2> SUFFICES ASSUME run[i].status = "more"
               PROVE  /\ Len(run[i].packets) = i /\ run[i].pos \in Nat
                      /\ 5 * i <= run[i].pos /\ run[i].pos <= Len(body)
    OBVIOUS
  <2> DEFINE j == i - 1
             p == run[j]
             q == run[i]
  <2>1. i \in Nat /\ j \in Nat /\ i = j + 1 /\ i \in 0..n /\ j \in 0..n
    BY <1>1
  <2>2. p \in ParseState /\ q \in ParseState /\ q = ParseStep(body, p)
    BY <1>2, <2>1
  <2> HIDE DEF p, q
  <2>3. /\ p.status = "more" /\ q.pos >= p.pos + 5 /\ q.pos <= Len(body)
        /\ Len(q.packets) = Len(p.packets) + 1
    <3>1. q.status = "more"
      BY DEF q
    <3> QED  BY <2>2, <3>1, TurnOutcome
  <2>4. Len(p.packets) = j /\ 5 * j <= p.pos
    BY <1>4, <2>3 DEF p
  <2>5. p.pos \in Nat /\ q.pos \in Nat
    BY <2>2 DEF ParseState
  <2>6. Len(q.packets) = i /\ q.pos \in Nat /\ 5 * i <= q.pos /\ q.pos <= Len(body)
    <3> HIDE DEF j
    <3> QED  BY <2>1, <2>3, <2>4, <2>5, SMTT(30)
  <2> QED  BY <2>6 DEF q
<1>5. 0..n \subseteq T
  <2>1. 0 \in T
    BY <1>1, <1>3
  <2>2. ASSUME NEW i \in 1..n, i - 1 \in T PROVE i \in T
    <3>1. i \in 0..n /\ Fine(i-1)
      BY <1>1, <2>2
    <3>2. Fine(i)
      <4> HIDE DEF Fine
      <4> QED  BY <1>4, <3>1
    <3> QED  BY <3>1, <3>2
  <2> HIDE DEF T, n
  <2> QED  BY <1>1, <2>1, <2>2, InductionUpTo
<1>6. Fine(k)
  <2> HIDE DEF Fine
  <2> QED  BY <1>5
<1> QED  BY <1>6 DEF run

(* While the loop goes on there is a turn left to take. *)
LEMMA NextTurn ==
  ASSUME NEW body \in Seq(Byte), NEW n \in 0..(Len(body) + 1),
         ParseTurns(body)[n].status = "more"
  PROVE  /\ ParseTurns(body)[n] \in ParseState
         /\ n + 1 \in 1..(Len(body) + 1) /\ n + 1 <= (Len(body) \div 5) + 1
         /\ ParseTurns(body)[n + 1] = ParseStep(body, ParseTurns(body)[n])
<1> DEFINE run == ParseTurns(body)
<1>1. Len(body) \in Nat /\ n \in Nat
  OBVIOUS
<1>2. /\ run \in [0..(Len(body) + 1) -> ParseState]
      /\ \A k \in 1..(Len(body) + 1) : run[k] = ParseStep(body, run[k-1])
  BY TurnsType
<1>3. 5 * n <= Len(body)
  <2>1. run[n].pos \in Nat /\ 5 * n <= run[n].pos /\ run[n].pos <= Len(body)
    BY TurnsCount
  <2> HIDE DEF run
  <2> QED  BY <1>1, <2>1
<1>4. n + 1 \in 1..(Len(body) + 1) /\ n + 1 <= (Len(body) \div 5) + 1 /\ (n + 1) - 1 = n
  BY <1>1, <1>3
<1> HIDE DEF run
<1>5. run[n] \in ParseState
  BY <1>2
<1>6. run[n + 1] = ParseStep(body, run[n])
  BY <1>2, <1>4
<1> QED  BY <1>4, <1>5, <1>6 DEF run

(* The first turn that does not go on decides what the parser reports.     *)
LEMMA ParseSettles ==
  ASSUME NEW body \in Seq(Byte), NEW n \in 0..(Len(body) + 1),
         ParseTurns(body)[n].status = "more",
         ParseStep(body, ParseTurns(body)[n]).status # "more"
  PROVE  ParseBody(body) = ParseStep(body, ParseTurns(body)[n])
<1> DEFINE run  == ParseTurns(body)
           q    == ParseStep(body, run[n])
           last == (Len(body) \div 5) + 1
           T    == { i \in 0..(last - (n + 1)) : run[(n + 1) + i] = q }
<1>1. Len(body) \in Nat /\ n \in Nat /\ last \in Nat /\ last <= Len(body) + 1
  OBVIOUS
<1>2. n + 1 <= last /\ run[n + 1] = q
  BY NextTurn
<1>3. \A k \in 1..(Len(body) + 1) : run[k] = ParseStep(body, run[k-1])
  BY TurnsType
<1>4. q.status # "more"
  OBVIOUS
<1>5. ParseStep(body, q) = q
  <2> HIDE DEF q
  <2> QED  BY <1>4, TurnWhenSettled
<1> HIDE DEF run, q, last
<1> DEFINE m == last - (n + 1)
<1>6. m \in Nat
  BY <1>1, <1>2
<1>7. 0 \in T
  BY <1>1, <1>2
<1>8. ASSUME NEW i \in 1..m, i - 1 \in T PROVE i \in T
  <2> DEFINE j == (n + 1) + i
  <2>1. j - 1 = (n + 1) + (i - 1) /\ j \in 1..(Len(body) + 1)
    BY <1>1, <1>6
  <2>2. run[j - 1] = q
    <3>1. run[(n + 1) + (i - 1)] = q
      BY <1>8
    <3> QED  BY <2>1, <3>1
  <2>3. run[j] = q
    <3> HIDE DEF j
    <3> QED  BY <1>3, <1>5, <2>1, <2>2
  <2> QED  BY <1>6, <2>3
<1>9. m \in T
  <2>1. 0..m \subseteq T
    <3> HIDE DEF T, m
    <3> QED  BY <1>6, <1>7, <1>8, InductionUpTo
  <2> HIDE DEF T
  <2> QED  BY <1>6, <2>1
<1>10. run[last] = q
  <2>1. (n + 1) + m = last
    BY <1>1, <1>6
  <2>2. run[(n + 1) + m] = q
    BY <1>9
  <2> QED  BY <2>1, <2>2
<1>11. ParseBody(body) = run[last]
  BY FrameConstants DEF ParseBody, run, last
<1> QED  BY <1>10, <1>11 DEF q, run

(* A turn that reads a packet reads it whatever follows.                   *)
LEMMA TurnKeeps ==
  ASSUME NEW body \in Seq(Byte), NEW longer \in Seq(Byte), Begins(body, longer),
         NEW p \in ParseState, ParseStep(body, p).status = "more"
  PROVE  ParseStep(longer, p) = ParseStep(body, p)
<1> DEFINE rest == SubSeq(body, p.pos + 1, Len(body))
           long == SubSeq(longer, p.pos + 1, Len(longer))
           m    == Len(body) - p.pos
<1>1. /\ p.status = "more" /\ p.pos < Len(body) /\ DecodePacket(p.state, rest).ok
  BY TurnOutcome
<1>2. /\ p.pos \in Nat /\ p.state \in Word /\ Len(body) \in Nat /\ Len(longer) \in Nat
      /\ Len(body) <= Len(longer)
  BY DEF ParseState, Begins
<1>3. m \in Nat /\ p.pos + m = Len(body) /\ p.pos < Len(longer) /\ p.pos + m <= Len(longer)
  BY <1>1, <1>2
<1>4. /\ long \in Seq(Byte) /\ Len(long) = Len(longer) - p.pos
      /\ rest \in Seq(Byte) /\ Len(rest) = m
  BY <1>1, <1>2, <1>3, RestType
<1>5. SubSeq(long, 1, m) = rest
  <2>1. SubSeq(long, 1, m) = SubSeq(longer, p.pos + 1, p.pos + m)
    BY <1>2, <1>3, SliceOfRest
  <2>2. SubSeq(longer, p.pos + 1, Len(body)) = SubSeq(body, p.pos + 1, Len(body))
    <3> DEFINE a == p.pos + 1
               b == Len(body)
    <3>1. a \in Nat /\ b \in Nat /\ 1 <= a /\ a <= b + 1 /\ b <= Len(body)
      BY <1>1, <1>2
    <3> HIDE DEF a
    <3>2. SubSeq(longer, a, b) = SubSeq(body, a, b)
      BY <3>1, SliceOfBeginning
    <3> QED  BY <3>2 DEF a
  <2> QED  BY <1>3, <2>1, <2>2
<1>6. DecodePacket(p.state, long) = DecodePacket(p.state, rest)
  <2> HIDE DEF long, m, rest
  <2>1. m <= Len(long) /\ DecodePacket(p.state, SubSeq(long, 1, m)).ok
    <3>1. m <= Len(long)
      BY <1>2, <1>3, <1>4
    <3> QED  BY <1>1, <1>5, <3>1
  <2>2. DecodePacket(p.state, long) = DecodePacket(p.state, SubSeq(long, 1, m))
    BY <1>2, <1>3, <1>4, <2>1, DecodeFromFront
  <2> QED  BY <1>5, <2>2
<1> DEFINE pkt == DecodePacket(p.state, rest)
           q   == [p EXCEPT !.pos = p.pos + pkt.len, !.state = pkt.state,
                            !.packets = Append(p.packets, Parsed(pkt, p.pos))]
<1>7. ParseStep(body, p) = q
  BY <1>1, TurnAtPacket
<1>8. ParseStep(longer, p) = q
  <2> DEFINE other == DecodePacket(p.state, long)
  <2>1. other.ok
    <3> HIDE DEF other, rest, long
    <3> QED  BY <1>1, <1>6 DEF other
  <2>2. ParseStep(longer, p) =
          [p EXCEPT !.pos = p.pos + other.len, !.state = other.state,
                    !.packets = Append(p.packets, Parsed(other, p.pos))]
    BY <1>1, <1>3, <2>1, TurnAtPacket
  <2>3. other = pkt
    BY <1>6
  <2> HIDE DEF other, pkt
  <2> QED  BY <2>2, <2>3
<1> QED  BY <1>7, <1>8

(* So the loop over a longer body takes the same turns as long as the loop *)
(* over the shorter one goes on.                                           *)
LEMMA TurnsKeep ==
  ASSUME NEW body \in Seq(Byte), NEW longer \in Seq(Byte), Begins(body, longer),
         NEW n \in 0..(Len(body) + 1), ParseTurns(body)[n].status = "more"
  PROVE  ParseTurns(longer)[n] = ParseTurns(body)[n]
<1> DEFINE size == Len(body) + 1
           one  == ParseTurns(body)
           two  == ParseTurns(longer)
           T    == { k \in 0..size : one[k].status = "more" => two[k] = one[k] }
<1>1. size \in Nat /\ Len(body) \in Nat /\ Len(longer) \in Nat /\ Len(body) <= Len(longer)
  BY DEF Begins
<1>2. /\ one \in [0..size -> ParseState] /\ one[0] = ParseStart
      /\ \A k \in 1..size : one[k] = ParseStep(body, one[k-1])
  BY TurnsType
<1>3. /\ two[0] = ParseStart
      /\ \A k \in 1..(Len(longer) + 1) : two[k] = ParseStep(longer, two[k-1])
  BY TurnsType
<1> HIDE DEF one, two
<1>4. 0 \in T
  BY <1>1, <1>2, <1>3
<1>5. ASSUME NEW k \in 1..size, k - 1 \in T PROVE k \in T
  <2>1. k \in 0..size /\ k - 1 \in 0..size /\ k \in 1..(Len(longer) + 1)
    BY <1>1
  <2> SUFFICES ASSUME one[k].status = "more" PROVE two[k] = one[k]
    BY <2>1
  <2> DEFINE p == one[k-1]
  <2>2. p \in ParseState
    BY <1>2, <2>1
  <2>3. one[k] = ParseStep(body, p) /\ two[k] = ParseStep(longer, two[k-1])
    BY <1>2, <1>3, <2>1
  <2>4. ParseStep(body, p).status = "more"
    BY <2>3
  <2>5. p.status = "more"
    <3> HIDE DEF p
    <3> QED  BY <2>2, <2>4, TurnOutcome
  <2>6. two[k-1] = p
    BY <1>5, <2>5
  <2>7. ParseStep(longer, p) = ParseStep(body, p)
    <3> HIDE DEF p
    <3> QED  BY <2>2, <2>4, TurnKeeps
  <2> QED  BY <2>3, <2>6, <2>7
<1>6. n \in T
  <2> HIDE DEF T
  <2>1. 0..size \subseteq T
    <3> HIDE DEF size
    <3> QED  BY <1>1, <1>4, <1>5, InductionUpTo
  <2> QED  BY <2>1
<1> QED  BY <1>6 DEF one, two

LEMMA NothingParsed ==
  ASSUME NEW body \in Seq(Byte)
  PROVE  ParseTurns(body)[0] = ParseStart /\ 0 \in 0..(Len(body) + 1)
<1>1. 0 \in 0..(Len(body) + 1)
  OBVIOUS
<1> QED  BY <1>1, TurnsType

-----------------------------------------------------------------------------
(* What the parser reports, from where its loop stands after n turns.      *)
LEMMA NothingIsNoTail ==
  ASSUME NEW state
  PROVE  ~ReadTail(state, <<>>).ok /\ ~DecodePacket(state, <<>>).ok
<1>1. ~(Len(<<>>) >= TailBytes) /\ ~(Len(<<>>) >= OverheadBytes)
  BY FrameConstants
<1> QED  BY <1>1 DEF ReadTail, DecodePacket

(* With no bytes the parser has read nothing.                              *)
LEMMA NothingRead ==
  LET p == ParseTurns(<<>>)[Len(<<>>)]
  IN  /\ Len(<<>>) \in 0..(Len(<<>>) + 1) /\ Len(<<>>) = 0
      /\ p.status = "more" /\ p.packets = <<>> /\ p.state = InitialState
      /\ SubSeq(<<>>, p.pos + 1, Len(<<>>)) = <<>>
<1> DEFINE p == ParseTurns(<<>>)[Len(<<>>)]
<1>1. <<>> \in Seq(Byte) /\ Len(<<>>) = 0 /\ 0 \in 0..(Len(<<>>) + 1)
  OBVIOUS
<1>2. p = ParseStart
  BY <1>1, NothingParsed
<1> HIDE DEF p
<1>3. p.status = "more" /\ p.packets = <<>> /\ p.state = InitialState /\ p.pos = 0
  BY <1>2 DEF ParseStart
<1>4. SubSeq(<<>>, p.pos + 1, Len(<<>>)) = <<>>
  BY <1>3
<1> QED  BY <1>1, <1>3, <1>4 DEF p

LEMMA ParseAccepts ==
  ASSUME NEW body \in Seq(Byte), NEW n \in 0..(Len(body) + 1),
         NEW p, p = ParseTurns(body)[n], p.status = "more",
         NEW rest, rest = SubSeq(body, p.pos + 1, Len(body)),
         ReadTail(p.state, rest).ok
  PROVE  /\ ParseBody(body).status = "ok" /\ ParseBody(body).packets = p.packets
         /\ ParseBody(body).tail = ReadTail(p.state, rest).tail
<1> DEFINE found == ReadTail(p.state, rest).tail
           q     == ParseStep(body, p)
<1>1. p \in ParseState
  BY NextTurn
<1>2. p.pos < Len(body)
  <2>1. p.pos \in Nat /\ Len(body) \in Nat
    BY <1>1 DEF ParseState
  <2>2. rest # <<>>
    BY NothingIsNoTail
  <2>3. p.pos >= Len(body) => rest = <<>>
    BY <2>1
  <2> QED  BY <2>1, <2>2, <2>3
<1>3. q = [p EXCEPT !.status = "ok", !.tail = found]
  BY <1>1, <1>2, TurnAtTail
<1> HIDE DEF found, q
<1>4. q.status = "ok" /\ q.packets = p.packets /\ q.tail = found
  BY <1>1, <1>3 DEF ParseState
<1>5. ParseBody(body) = q
  BY <1>4, ParseSettles DEF q
<1> QED  BY <1>4, <1>5 DEF found

LEMMA ParseRejects ==
  ASSUME NEW body \in Seq(Byte), NEW n \in 0..(Len(body) + 1),
         NEW p, p = ParseTurns(body)[n], p.status = "more",
         NEW rest, rest = SubSeq(body, p.pos + 1, Len(body)),
         ~ReadTail(p.state, rest).ok, ~DecodePacket(p.state, rest).ok
  PROVE  ParseBody(body).status = "bad" /\ ParseBody(body).packets = p.packets
<1> DEFINE q == ParseStep(body, p)
<1>1. p \in ParseState
  BY NextTurn
<1>2. p.pos < Len(body) \/ p.pos >= Len(body)
  BY <1>1 DEF ParseState
<1>3. q = [p EXCEPT !.status = "bad"]
  BY <1>1, <1>2, TurnAtEnd, TurnAtNeither
<1> HIDE DEF q
<1>4. q.status = "bad" /\ q.packets = p.packets
  BY <1>1, <1>3 DEF ParseState
<1>5. ParseBody(body) = q
  BY <1>4, ParseSettles DEF q
<1> QED  BY <1>4, <1>5

(* One more packet: where the loop stands after the turn that reads it.    *)
Advances(p, q, pkt) ==
  /\ q.status = "more" /\ q.pos = p.pos + pkt.len /\ q.state = pkt.state
  /\ q.packets = Append(p.packets, Parsed(pkt, p.pos))

LEMMA ParseAdvances ==
  ASSUME NEW body \in Seq(Byte), NEW n \in 0..(Len(body) + 1),
         NEW p, p = ParseTurns(body)[n], p.status = "more",
         NEW rest, rest = SubSeq(body, p.pos + 1, Len(body)),
         NEW pkt, pkt = DecodePacket(p.state, rest), pkt.ok
  PROVE  n + 1 \in 0..(Len(body) + 1) /\ Advances(p, ParseTurns(body)[n + 1], pkt)
<1> DEFINE next == p.pos + pkt.len
           more == Append(p.packets, Parsed(pkt, p.pos))
           q    == ParseTurns(body)[n + 1]
<1>1. /\ p \in ParseState /\ n + 1 \in 1..(Len(body) + 1)
      /\ q = ParseStep(body, p)
  BY NextTurn
<1>2. p.pos < Len(body)
  <2>1. p.pos \in Nat /\ Len(body) \in Nat
    BY <1>1 DEF ParseState
  <2>2. rest # <<>>
    BY NothingIsNoTail
  <2>3. p.pos >= Len(body) => rest = <<>>
    BY <2>1
  <2> QED  BY <2>1, <2>2, <2>3
<1>3. ParseStep(body, p) = [p EXCEPT !.pos = next, !.state = pkt.state, !.packets = more]
  BY <1>1, <1>2, TurnAtPacket, ZenonT(30)
<1>4. n + 1 \in 0..(Len(body) + 1)
  BY <1>1
<1> HIDE DEF next, more, q
<1>5. q.status = "more" /\ q.pos = next /\ q.state = pkt.state /\ q.packets = more
  BY <1>1, <1>3 DEF ParseState
<1> QED  BY <1>4, <1>5 DEF next, more, q, Advances

-----------------------------------------------------------------------------
(* Bytes added at the end of a body add to what is left of it. *)
LEMMA RestOfConcat ==
  ASSUME NEW body \in Seq(Byte), NEW more \in Seq(Byte), NEW here \in Nat, here <= Len(body)
  PROVE  SubSeq(body \o more, here + 1, Len(body \o more)) =
           SubSeq(body, here + 1, Len(body)) \o more
<1> DEFINE n    == Len(body)
           m    == Len(more)
           size == n - here
           long == body \o more
           rest == SubSeq(body, here + 1, n)
           one  == SubSeq(long, here + 1, n + m)
           two  == rest \o more
<1>1. n \in Nat /\ m \in Nat /\ size \in Nat
  OBVIOUS
<1>2. long \in Seq(Byte) /\ Len(long) = n + m
  BY ByteConcat
<1>3. (\A i \in 1..n : long[i] = body[i]) /\ (\A i \in 1..m : long[n + i] = more[i])
  BY ConcatAt
<1>4. rest \in Seq(Byte) /\ Len(rest) = size /\ \A i \in 1..size : rest[i] = body[here + i]
  BY <1>1
<1> HIDE DEF long, rest
<1>5. one \in Seq(Byte) /\ Len(one) = size + m /\ \A i \in 1..(size + m) : one[i] = long[here + i]
  <2> HIDE DEF m
  <2> QED  BY <1>1, <1>2
<1>6. two \in Seq(Byte) /\ Len(two) = size + m
  <2>1. two \in Seq(Byte) /\ Len(two) = Len(rest) + Len(more)
    BY <1>4, ByteConcat
  <2> QED  BY <1>4, <2>1
<1>7. (\A i \in 1..size : two[i] = rest[i]) /\ (\A i \in 1..m : two[size + i] = more[i])
  <2>1. /\ \A i \in 1..Len(rest) : two[i] = rest[i]
        /\ \A i \in 1..Len(more) : two[Len(rest) + i] = more[i]
    BY <1>4, ConcatAt
  <2> QED  BY <1>4, <2>1
<1> HIDE DEF one, two, size
<1>8. size + here = n
  BY <1>1 DEF size
<1> HIDE DEF n, m
<1>9. ASSUME NEW i \in 1..(size + m) PROVE one[i] = two[i]
  <2>1. CASE i \in 1..size
    <3>1. here + i \in 1..n
      BY <1>1, <1>8, <2>1
    <3> QED  BY <1>3, <1>4, <1>5, <1>7, <2>1, <3>1
  <2>2. CASE i > size
    <3> DEFINE j == i - size
    <3>1. j \in 1..m /\ size + j = i /\ n + j = here + i
      BY <1>1, <1>8, <2>2
    <3> HIDE DEF j
    <3>2. two[size + j] = more[j] /\ long[n + j] = more[j]
      BY <1>3, <1>7, <3>1
    <3>3. two[i] = more[j] /\ long[here + i] = more[j]
      BY <3>1, <3>2
    <3> QED  BY <1>5, <3>3
  <2> QED  BY <1>1, <2>1, <2>2
<1>10. one = two
  <2>1. Len(one) = Len(two) /\ \A i \in 1..Len(one) : one[i] = two[i]
    BY <1>5, <1>6, <1>9
  <2> QED  BY <1>5, <1>6, <2>1, SeqEqual
<1> QED  BY <1>2, <1>10 DEF one, two, long, rest, n, m

(* Adding bytes leaves the loop where it was.                              *)
Undisturbed(body, more, n, p) ==
  /\ p \in ParseState /\ p.pos \in Nat /\ p.pos <= Len(body)
  /\ body \o more \in Seq(Byte) /\ n \in 0..(Len(body \o more) + 1)
  /\ ParseTurns(body \o more)[n] = p
  /\ SubSeq(body, p.pos + 1, Len(body)) \in Seq(Byte)
  /\ SubSeq(body \o more, p.pos + 1, Len(body \o more)) =
       SubSeq(body, p.pos + 1, Len(body)) \o more

LEMMA StillThere ==
  ASSUME NEW body \in Seq(Byte), NEW more \in Seq(Byte), NEW n \in 0..(Len(body) + 1),
         NEW p, p = ParseTurns(body)[n], p.status = "more"
  PROVE  Undisturbed(body, more, n, p)
<1> DEFINE long == body \o more
           here  == p.pos
<1>1. p \in ParseState /\ here \in Nat /\ here <= Len(body)
  BY NextTurn, TurnsCount
<1>2. long \in Seq(Byte) /\ Begins(body, long)
  BY ConcatBegins
<1> HIDE DEF long, here
<1>3. n \in 0..(Len(long) + 1)
  BY <1>2 DEF Begins
<1>4. ParseTurns(long)[n] = p
  BY <1>2, TurnsKeep
<1>5. SubSeq(body, here + 1, Len(body)) \in Seq(Byte)
  BY <1>1
<1>6. SubSeq(long, here + 1, Len(long)) = SubSeq(body, here + 1, Len(body)) \o more
  BY <1>1, RestOfConcat DEF long
<1> QED  BY <1>1, <1>2, <1>3, <1>4, <1>5, <1>6 DEF long, here, Undisturbed

-----------------------------------------------------------------------------
(***************************************************************************)
(* The builder, for every buffer size, every preamble and every packet     *)
(* appended in any order: it keeps to the caller's buffer, and the frame   *)
(* it finishes is read back by the parser as what was appended.            *)
(***************************************************************************)

LEMMA BuilderConstants ==
  OverheadBytes = 5 /\ TailBytes = 5 /\ MaxPayload = 255 /\ InitialState \in Word
<1>1. InitialState \in Word
  BY WordIs DEF InitialState
<1> QED
  BY <1>1 DEF OverheadBytes, HeaderBytes, TrailerBytes, TailBytes, MaxPayload

(* What is certain of any builder: the types, and the bound of the buffer. *)
BuilderInv == BuilderTypeOK /\ BufferFits

LEMMA NothingAppended == <<>> \in Seq([tag : Word, payload : Seq(Byte), offset : Nat])
  OBVIOUS

LEMMA BuilderInitHolds == BuilderInit => BuilderInv
<1> SUFFICES ASSUME BuilderInit PROVE BuilderInv
  OBVIOUS
<1>1. capacity \in Nat
  BY CapacitiesAssumption DEF BuilderInit
<1>2. buffer \in Seq(Byte) /\ Len(buffer) <= capacity
  BY <1>1 DEF BuilderInit, Fresh
<1>3. /\ builder_state \in Word /\ finished \in BOOLEAN /\ status \in Status
      /\ out_len \in Nat /\ appended = <<>>
  BY BuilderConstants DEF BuilderInit, Status
<1> QED
  BY <1>1, <1>2, <1>3, NothingAppended DEF BuilderInv, BuilderTypeOK, BufferFits

LEMMA OpenPreserves ==
  ASSUME BuilderInv, NEW room \in Capacities, Open(room)
  PROVE  BuilderInv'
<1>1. room \in Nat
  BY CapacitiesAssumption
<1>2. Fresh(room) \in Seq(Byte) /\ Len(Fresh(room)) <= room
  BY <1>1 DEF Fresh
<1>3. /\ capacity' \in Nat /\ buffer' \in Seq(Byte) /\ Len(buffer') <= capacity'
      /\ builder_state' \in Word /\ finished' \in BOOLEAN /\ appended' = <<>>
      /\ status' = status /\ out_len' = out_len
  BY <1>1, <1>2, BuilderConstants DEF Open
<1> QED
  BY <1>3, NothingAppended DEF BuilderInv, BuilderTypeOK, BufferFits

LEMMA RefusePreserves ==
  ASSUME BuilderInv, NEW why \in Status, Refuse(why)
  PROVE  BuilderInv'
  BY DEF Refuse, BuilderInv, BuilderTypeOK, BufferFits

(* Appending writes exactly the bytes the size test counted.               *)
LEMMA AppendPreserves ==
  ASSUME BuilderInv, NEW tag \in Word, NEW payload \in Seq(Byte), AppendPacket(tag, payload)
  PROVE  BuilderInv'
<1> DEFINE objection == AppendObjection(Len(payload))
           written   == WritePacket(builder_state, tag, payload)
           entry     == [tag |-> tag, payload |-> payload, offset |-> Len(buffer)]
<1>1. objection \in Status
  BY DEF AppendObjection, Status
<1>2. CASE objection # "OK"
  <2>1. Refuse(objection)
    BY <1>2 DEF AppendPacket
  <2> QED  BY <1>1, <2>1, RefusePreserves
<1>3. CASE objection = "OK"
  <2>1. /\ buffer' = buffer \o written.bytes
        /\ builder_state' = written.state
        /\ appended' = Append(appended, entry)
        /\ status' = "OK" /\ capacity' = capacity /\ finished' = finished
        /\ out_len' = out_len
    BY <1>3 DEF AppendPacket
  <2>2. Len(payload) <= 255 /\ Len(buffer) + 5 + Len(payload) <= capacity
    <3>1. Len(payload) \in Nat /\ Len(buffer) \in Nat /\ capacity \in Nat
      BY DEF BuilderInv, BuilderTypeOK
    <3> QED  BY <1>3, <3>1, BuilderConstants DEF AppendObjection
  <2>3. /\ buffer \in Seq(Byte) /\ builder_state \in Word /\ capacity \in Nat
    BY DEF BuilderInv, BuilderTypeOK
  <2>4. /\ written.bytes \in Seq(Byte) /\ Len(written.bytes) = 5 + Len(payload)
        /\ written.state \in Word
    BY <2>2, <2>3, WritePacketType, BuilderConstants
  <2> DEFINE more == written.bytes
  <2> HIDE DEF written
  <2>5. more \in Seq(Byte) /\ Len(more) = 5 + Len(payload)
    BY <2>4
  <2>6. buffer' = buffer \o more
    BY <2>1
  <2> HIDE DEF more
  <2>7. buffer \o more \in Seq(Byte) /\ Len(buffer \o more) = Len(buffer) + Len(more)
    BY <2>3, <2>5, ByteConcat, Zenon
  <2>8. buffer' \in Seq(Byte) /\ Len(buffer') <= capacity'
    <3>1. Len(buffer) + Len(more) <= capacity
      <4>1. Len(payload) \in Nat /\ Len(buffer) \in Nat
        BY <2>3
      <4> QED  BY <2>2, <2>3, <2>5, <4>1
    <3> QED  BY <2>1, <2>6, <2>7, <3>1
  <2>9. entry \in [tag : Word, payload : Seq(Byte), offset : Nat]
    BY <2>3
  <2>10. appended' \in Seq([tag : Word, payload : Seq(Byte), offset : Nat])
    <3> HIDE DEF entry
    <3> QED  BY <2>1, <2>9 DEF BuilderInv, BuilderTypeOK
  <2> QED
    BY <2>1, <2>4, <2>8, <2>10 DEF BuilderInv, BuilderTypeOK, BufferFits, Status
<1> QED  BY <1>2, <1>3

(* The special byte of the tail has no size test of its own: the test made *)
(* at the start of finish covers it.                                       *)
LEMMA FinishPreserves ==
  ASSUME BuilderInv, Finish
  PROVE  BuilderInv'
<1>1. CASE FinishAgain
  BY <1>1 DEF FinishAgain, BuilderInv, BuilderTypeOK, BufferFits, Status
<1>2. CASE FinishFrame
  <2> DEFINE written == WriteTail(builder_state)
             more    == written.bytes
  <2>1. /\ buffer' = buffer \o more /\ builder_state' = written.state
        /\ out_len' = Len(buffer) + 5 /\ Len(buffer) + 5 <= capacity
        /\ finished' = TRUE /\ status' = "OK" /\ capacity' = capacity /\ appended' = appended
    BY <1>2, BuilderConstants DEF FinishFrame
  <2>2. buffer \in Seq(Byte) /\ builder_state \in Word /\ capacity \in Nat
    BY DEF BuilderInv, BuilderTypeOK
  <2>3. more \in Seq(Byte) /\ Len(more) = 5 /\ written.state \in Word
    BY <2>2, WriteTailType, BuilderConstants
  <2> HIDE DEF written, more
  <2>4. buffer \o more \in Seq(Byte) /\ Len(buffer \o more) = Len(buffer) + Len(more)
    BY <2>2, <2>3, ByteConcat, Zenon
  <2>5. Len(buffer) \in Nat
    BY <2>2
  <2>6. buffer' \in Seq(Byte) /\ Len(buffer') <= capacity' /\ out_len' \in Nat
    BY <2>1, <2>3, <2>4, <2>5
  <2> QED
    BY <2>1, <2>3, <2>6 DEF BuilderInv, BuilderTypeOK, BufferFits, Status
<1>3. CASE FinishRefused
  BY <1>3, RefusePreserves DEF FinishRefused, Status
<1> QED  BY <1>1, <1>2, <1>3 DEF Finish

LEMMA BuilderStepPreserves ==
  BuilderInv /\ [BuilderNext]_builderVars => BuilderInv'
<1> SUFFICES ASSUME BuilderInv, [BuilderNext]_builderVars PROVE BuilderInv'
  OBVIOUS
<1>1. ASSUME NEW room \in Capacities, Open(room) PROVE BuilderInv'
  BY <1>1, OpenPreserves
<1>2. ASSUME NEW pkt \in Inputs, AppendPacket(pkt.tag, pkt.payload) PROVE BuilderInv'
  <2>1. pkt.tag \in Word /\ pkt.payload \in Seq(Byte)
    BY InputsAssumption
  <2> QED  BY <1>2, <2>1, AppendPreserves
<1>3. CASE Finish
  BY <1>3, FinishPreserves
<1>4. CASE UNCHANGED builderVars
  BY <1>4 DEF builderVars, BuilderInv, BuilderTypeOK, BufferFits
<1> QED  BY <1>1, <1>2, <1>3, <1>4 DEF BuilderNext

-----------------------------------------------------------------------------
(* The invariant of the builder, inductive as it stands: the bound needs   *)
(* the types, and the types hold by themselves.                            *)
THEOREM BuilderInvariant == BuilderSpec => []BuilderInv
<1>1. BuilderInit => BuilderInv
  BY BuilderInitHolds
<1>2. BuilderInv /\ [BuilderNext]_builderVars => BuilderInv'
  BY BuilderStepPreserves
<1> QED  BY <1>1, <1>2, PTL DEF BuilderSpec

(* Every field of po32_builder_t holds a value of its C type.              *)
THEOREM BuilderTypeCorrect == BuilderSpec => []BuilderTypeOK
<1>1. BuilderInv => BuilderTypeOK
  BY DEF BuilderInv
<1> QED  BY <1>1, BuilderInvariant, PTL

(* Whatever is appended and however often finish is tried, the builder     *)
(* writes no byte past the capacity it was given (po32.c:525-603).         *)
THEOREM BuilderStaysInBuffer == BuilderSpec => []BufferFits
<1>1. BuilderInv => BufferFits
  BY DEF BuilderInv
<1> QED  BY <1>1, BuilderInvariant, PTL

-----------------------------------------------------------------------------
(* What the parser makes of the frame under construction.  n packets of    *)
(* those appended can be read, as far as the first that no parser knows;   *)
(* the loop of po32_frame_parse over what follows the preamble stands      *)
(* after n turns on exactly these, and what is left for it is nothing, the *)
(* tail, or the packet it does not know and whatever was written after it. *)
Written(buf) == SubSeq(buf, Len(Preamble) + 1, Len(buf))

Readable(pkts, n) ==
  /\ n \in 0..Len(pkts)
  /\ \A i \in 1..n : IsReadable(pkts[i])
  /\ n < Len(pkts) => ~IsReadable(pkts[n + 1])

Stands(body, pkts, n, state, isFinished) ==
  LET p    == ParseTurns(body)[n]
      rest == SubSeq(body, p.pos + 1, Len(body))
  IN  /\ n \in 0..(Len(body) + 1) /\ p.status = "more" /\ p.packets = SubSeq(pkts, 1, n)
      /\ IF n < Len(pkts)
         THEN Begins(WritePacket(p.state, pkts[n + 1].tag, pkts[n + 1].payload).bytes, rest)
         ELSE IF isFinished THEN rest = WriteTail(p.state).bytes
         ELSE rest = <<>> /\ p.state = state

Standing(body, pkts, state, isFinished) ==
  \E n \in 0..Len(pkts) : Readable(pkts, n) /\ Stands(body, pkts, n, state, isFinished)

BackInv ==
  /\ \A i \in 1..Len(appended) : Len(appended[i].payload) <= 255
  /\ HasPreamble => /\ Begins(Preamble, buffer)
                    /\ Standing(Written(buffer), appended, builder_state, finished)
  /\ finished => HasPreamble /\ Len(buffer) >= Len(Preamble) + 5

Entry == [tag : Word, payload : Seq(Byte), offset : Nat]

LEMMA WrittenGrows ==
  ASSUME NEW buf \in Seq(Byte), NEW more \in Seq(Byte), Begins(Preamble, buf)
  PROVE  /\ Written(buf) \in Seq(Byte) /\ Len(Written(buf)) = Len(buf) - Len(Preamble)
         /\ Written(buf \o more) = Written(buf) \o more
         /\ Begins(Preamble, buf \o more)
<1>1. Len(Preamble) \in Nat /\ Len(Preamble) <= Len(buf) /\ Len(buf) \in Nat
  BY DEF Begins
<1>2. Written(buf \o more) = Written(buf) \o more
  BY <1>1, RestOfConcat DEF Written
<1>3. Written(buf) \in Seq(Byte) /\ Len(Written(buf)) = Len(buf) - Len(Preamble)
  BY <1>1 DEF Written
<1>4. Begins(Preamble, buf \o more)
  <2>1. buf \o more \in Seq(Byte) /\ Begins(buf, buf \o more)
    BY ConcatBegins
  <2> HIDE DEF Written
  <2> QED  BY <1>1, <2>1 DEF Begins
<1> QED  BY <1>2, <1>3, <1>4

(* A packet that reads.                                                    *)
LEMMA ReadableDecodes ==
  ASSUME NEW state \in Word, NEW tag \in Word, NEW payload \in Seq(Byte), Len(payload) <= 255
  PROVE  LET w == WritePacket(state, tag, payload)
         IN  /\ w.bytes \in Seq(Byte) /\ Len(w.bytes) = 5 + Len(payload) /\ w.state \in Word
             /\ HeaderIsKnown(state, w.bytes) <=> PayloadLenIsValid(tag, Len(payload))
             /\ PayloadLenIsValid(tag, Len(payload)) =>
                  DecodePacket(state, w.bytes) =
                    [ok |-> TRUE, tag |-> tag, payload |-> payload,
                     len |-> OverheadBytes + Len(payload), state |-> w.state]
<1> DEFINE w    == WritePacket(state, tag, payload)
           n    == Len(payload)
           size == OverheadBytes + n
<1>1. /\ w.bytes \in Seq(Byte) /\ Len(w.bytes) = 5 + n /\ w.state \in Word
  BY WritePacketType, FrameConstants
<1>2. /\ PacketHeader(state, w.bytes) = [tag |-> tag, len |-> size]
      /\ ReadPacket(state, w.bytes) =
           [ok |-> TRUE, tag |-> tag, payload |-> payload, len |-> size, state |-> w.state]
  BY PacketReadsBack
<1>3. n \in Nat /\ size - OverheadBytes = n /\ Len(w.bytes) >= OverheadBytes
  <2>1. n \in Nat
    OBVIOUS
  <2> HIDE DEF w, n
  <2> QED  BY <1>1, <2>1, FrameConstants
<1> HIDE DEF w, n, size
<1>4. HeaderIsKnown(state, w.bytes) <=> PayloadLenIsValid(tag, n)
  <2>1. PacketHeader(state, w.bytes).tag = tag /\ PacketHeader(state, w.bytes).len = size
    BY <1>2
  <2> QED  BY <1>3, <2>1 DEF HeaderIsKnown
<1>5. PayloadLenIsValid(tag, n) => DecodePacket(state, w.bytes) = ReadPacket(state, w.bytes)
  BY <1>3, <1>4 DEF DecodePacket
<1> QED  BY <1>1, <1>2, <1>4, <1>5 DEF w, n, size

(* A fresh frame. *)
LEMMA FreshStands ==
  ASSUME NEW buf, buf = Preamble
  PROVE  Begins(Preamble, buf) /\ Standing(Written(buf), <<>>, InitialState, FALSE)
<1>1. Begins(Preamble, buf)
  BY DEF Begins
<1>2. Written(buf) = <<>>
  BY DEF Written
<1>3. Stands(<<>>, <<>>, 0, InitialState, FALSE)
  <2> DEFINE e == <<>>
             z == Len(e)
             p == ParseTurns(e)[z]
  <2>1. SubSeq(e, 1, z) = e /\ z = 0
    OBVIOUS
  <2>2. /\ p.status = "more" /\ p.packets = e /\ p.state = InitialState
        /\ SubSeq(e, p.pos + 1, z) = e
    BY NothingRead
  <2> HIDE DEF p
  <2>3. z \in 0..(z + 1) /\ ~(z < z)
    BY <2>1
  <2> HIDE DEF e, z
  <2>4. Stands(e, e, z, InitialState, FALSE)
    BY <2>1, <2>2, <2>3 DEF Stands, p, z, e
  <2> QED  BY <2>1, <2>4 DEF e
<1>4. Readable(<<>>, 0) /\ 0 \in 0..Len(<<>>)
  BY DEF Readable
<1> QED  BY <1>1, <1>2, <1>3, <1>4 DEF Standing

(* One packet more, after packets that all read.                           *)
LEMMA StandsReads ==
  ASSUME NEW body \in Seq(Byte), NEW pkts \in Seq(Entry), NEW state \in Word,
         Stands(body, pkts, Len(pkts), state, FALSE), Readable(pkts, Len(pkts)),
         NEW tag \in Word, NEW payload \in Seq(Byte), Len(payload) <= 255,
         NEW pkt, pkt = [tag |-> tag, payload |-> payload, offset |-> Len(Preamble) + Len(body)],
         NEW w, w = WritePacket(state, tag, payload),
         IsReadable(pkt)
  PROVE  Standing(body \o w.bytes, Append(pkts, pkt), w.state, FALSE)
<1> DEFINE n    == Len(pkts)
           more == Append(pkts, pkt)
           p    == ParseTurns(body)[n]
           long == body \o w.bytes
           rest == SubSeq(body, p.pos + 1, Len(body))
           got  == SubSeq(long, p.pos + 1, Len(long))
           read == DecodePacket(p.state, got)
           q    == ParseTurns(long)[n + 1]
<1>1. n \in Nat /\ Len(body) \in Nat
  OBVIOUS
<1>2. /\ n \in 0..(Len(body) + 1) /\ p.status = "more" /\ p.packets = SubSeq(pkts, 1, n)
      /\ rest = <<>> /\ p.state = state
  BY <1>1 DEF Stands
<1>3. /\ w.bytes \in Seq(Byte) /\ Len(w.bytes) = 5 + Len(payload) /\ w.state \in Word
  BY ReadableDecodes
<1>4. DecodePacket(state, w.bytes) =
        [ok |-> TRUE, tag |-> tag, payload |-> payload,
         len |-> OverheadBytes + Len(payload), state |-> w.state]
  <2>1. PayloadLenIsValid(tag, Len(payload))
    BY DEF IsReadable
  <2> QED  BY <2>1, ReadableDecodes
<1>5. p = ParseTurns(body)[n]
  OBVIOUS
<1> HIDE DEF n, p
<1>6. /\ p \in ParseState /\ p.pos <= Len(body)
      /\ long \in Seq(Byte) /\ n \in 0..(Len(long) + 1)
      /\ ParseTurns(long)[n] = p /\ got = rest \o w.bytes /\ p.pos \in Nat
  <2>1. Undisturbed(body, w.bytes, n, p)
    BY <1>2, <1>3, <1>5, StillThere
  <2> QED  BY <2>1 DEF Undisturbed
<1>7. got = w.bytes
  <2>1. got = <<>> \o w.bytes
    BY <1>2, <1>6
  <2> HIDE DEF got
  <2> QED  BY <1>3, <2>1
<1>8. p.pos = Len(body)
  <2> DEFINE here == p.pos
  <2>1. here \in Nat /\ here <= Len(body) /\ rest = <<>>
    BY <1>2, <1>6
  <2> HIDE DEF here
  <2>2. Len(SubSeq(body, here + 1, Len(body))) = Len(body) - here
    BY <1>1, <2>1
  <2>3. Len(SubSeq(body, here + 1, Len(body))) = 0
    <3> DEFINE left == SubSeq(body, here + 1, Len(body))
    <3>1. left = <<>>
      BY <2>1 DEF here
    <3> HIDE DEF left
    <3>2. Len(left) = 0
      BY <3>1
    <3> QED  BY <3>2 DEF left
  <2>4. here = Len(body)
    BY <1>1, <2>1, <2>2, <2>3
  <2> QED  BY <2>4 DEF here
<1>9. /\ read.ok = TRUE /\ read.tag = tag /\ read.payload = payload
      /\ read.len = Len(w.bytes) /\ read.state = w.state
  <2>1. read = DecodePacket(state, w.bytes)
    BY <1>2, <1>7
  <2> HIDE DEF read
  <2> QED  BY <1>3, <1>4, <2>1, FrameConstants
<1>10. n + 1 \in 0..(Len(long) + 1) /\ Advances(p, q, read)
  <2>1. got = SubSeq(long, p.pos + 1, Len(long)) /\ read = DecodePacket(p.state, got)
    OBVIOUS
  <2> HIDE DEF long, got, read
  <2> QED  BY <1>2, <1>6, <1>9, <2>1, ParseAdvances
<1> HIDE DEF read, q
<1>11. /\ q.status = "more" /\ q.pos = Len(long) /\ q.state = w.state
       /\ q.packets = Append(p.packets, pkt)
  <2>1. Len(long) = Len(body) + Len(w.bytes)
    BY <1>3, ByteConcat
  <2>2. Parsed(read, p.pos) = pkt
    BY <1>8, <1>9 DEF Parsed
  <2> HIDE DEF long
  <2> QED  BY <1>8, <1>9, <1>10, <2>1, <2>2 DEF Advances
<1> HIDE DEF long, got, rest
<1>12. SubSeq(long, q.pos + 1, Len(long)) = <<>>
  <2>1. Len(long) \in Nat
    BY <1>6
  <2> QED  BY <1>6, <1>11, <2>1
<1>13. pkt \in Entry
  BY <1>1, FrameConstants DEF Entry
<1>14. /\ more \in Seq(Entry) /\ Len(more) = n + 1 /\ more[n + 1] = pkt
       /\ \A i \in 1..n : more[i] = pkts[i]
  <2> HIDE DEF Entry
  <2> QED  BY <1>1, <1>13 DEF n
<1>15. SubSeq(more, 1, n + 1) = q.packets
  <2>1. p.packets = pkts
    BY <1>1, <1>2 DEF n
  <2>2. SubSeq(more, 1, n + 1) = more
    <3> HIDE DEF more, Entry
    <3> QED  BY <1>1, <1>14
  <2> QED  BY <1>11, <2>1, <2>2
<1>16. Readable(more, n + 1)
  <2>1. \A i \in 1..(n + 1) : IsReadable(more[i])
    BY <1>1, <1>14 DEF Readable, n
  <2> HIDE DEF more
  <2> QED  BY <1>1, <1>14, <2>1 DEF Readable
<1> HIDE DEF more
<1>17. Stands(long, more, n + 1, w.state, FALSE)
  <2> DEFINE k == n + 1
  <2>1. k \in 0..(Len(long) + 1) /\ ~(k < Len(more)) /\ q = ParseTurns(long)[k]
    BY <1>1, <1>10, <1>14 DEF q
  <2> HIDE DEF k
  <2>2. q.packets = SubSeq(more, 1, k)
    BY <1>15 DEF k
  <2>3. Stands(long, more, k, w.state, FALSE)
    BY <1>11, <1>12, <2>1, <2>2 DEF Stands
  <2> QED  BY <2>3 DEF k
<1>18. n + 1 \in 0..Len(more)
  BY <1>1, <1>14
<1> QED  BY <1>16, <1>17, <1>18 DEF Standing, long, more

(* One packet more, which no parser knows, after packets that all read.    *)
LEMMA StandsBarred ==
  ASSUME NEW body \in Seq(Byte), NEW pkts \in Seq(Entry), NEW state \in Word,
         Stands(body, pkts, Len(pkts), state, FALSE), Readable(pkts, Len(pkts)),
         NEW tag \in Word, NEW payload \in Seq(Byte), Len(payload) <= 255,
         NEW pkt \in Entry, pkt.tag = tag, pkt.payload = payload,
         NEW w, w = WritePacket(state, tag, payload),
         ~IsReadable(pkt)
  PROVE  Standing(body \o w.bytes, Append(pkts, pkt), w.state, FALSE)
<1> DEFINE n    == Len(pkts)
           more == Append(pkts, pkt)
           p    == ParseTurns(body)[n]
           long == body \o w.bytes
           rest == SubSeq(body, p.pos + 1, Len(body))
           got  == SubSeq(long, p.pos + 1, Len(long))
<1>1. n \in Nat /\ Len(body) \in Nat
  OBVIOUS
<1>2. /\ n \in 0..(Len(body) + 1) /\ p.status = "more" /\ p.packets = SubSeq(pkts, 1, n)
      /\ rest = <<>> /\ p.state = state
  BY <1>1 DEF Stands
<1>3. w.bytes \in Seq(Byte)
  BY ReadableDecodes
<1>5. p = ParseTurns(body)[n]
  OBVIOUS
<1> HIDE DEF n, p
<1>6. /\ long \in Seq(Byte) /\ n \in 0..(Len(long) + 1)
      /\ ParseTurns(long)[n] = p /\ got = rest \o w.bytes
  <2>1. Undisturbed(body, w.bytes, n, p)
    BY <1>2, <1>3, <1>5, StillThere
  <2> QED  BY <2>1 DEF Undisturbed
<1>7. got = w.bytes
  <2>1. got = <<>> \o w.bytes
    BY <1>2, <1>6
  <2> HIDE DEF got
  <2> QED  BY <1>3, <2>1
<1>8. /\ more \in Seq(Entry) /\ Len(more) = n + 1 /\ more[n + 1] = pkt
      /\ \A i \in 1..n : more[i] = pkts[i]
  <2> HIDE DEF Entry
  <2> QED  BY <1>1 DEF n
<1>9. SubSeq(more, 1, n) = SubSeq(pkts, 1, n)
  <2> HIDE DEF Entry
  <2> QED  BY <1>1 DEF n
<1>10. Readable(more, n)
  <2>1. \A i \in 1..n : IsReadable(more[i])
    BY <1>1, <1>8 DEF Readable, n
  <2> HIDE DEF more
  <2> QED  BY <1>1, <1>8, <2>1 DEF Readable
<1>11. Begins(w.bytes, got)
  <2> HIDE DEF got
  <2> QED  BY <1>3, <1>7 DEF Begins
<1>12. WritePacket(p.state, more[n + 1].tag, more[n + 1].payload) = w
  BY <1>2, <1>8
<1>13. n < Len(more) /\ n \in 0..Len(more)
  BY <1>1, <1>8
<1> HIDE DEF more, long
<1>14. Stands(long, more, n, w.state, FALSE)
  BY <1>2, <1>6, <1>9, <1>11, <1>12, <1>13 DEF Stands
<1> QED  BY <1>10, <1>13, <1>14 DEF Standing, long, more

(* More bytes, behind a packet that no parser knows.                       *)
LEMMA StandsStopped ==
  ASSUME NEW body \in Seq(Byte), NEW pkts \in Seq(Entry), NEW more \in Seq(Entry),
         NEW n \in 0..Len(pkts), n < Len(pkts),
         NEW state, NEW isFinished, Stands(body, pkts, n, state, isFinished), Readable(pkts, n),
         \A i \in 1..Len(pkts) : Len(pkts[i].payload) <= 255,
         Len(pkts) <= Len(more), \A i \in 1..Len(pkts) : more[i] = pkts[i],
         NEW bytes \in Seq(Byte), NEW after, NEW closes
  PROVE  Standing(body \o bytes, more, after, closes)
<1> DEFINE p    == ParseTurns(body)[n]
           long == body \o bytes
           rest == SubSeq(body, p.pos + 1, Len(body))
           got  == SubSeq(long, p.pos + 1, Len(long))
           w    == WritePacket(p.state, pkts[n + 1].tag, pkts[n + 1].payload)
<1>1. n \in Nat /\ Len(pkts) \in Nat /\ Len(more) \in Nat /\ n < Len(more) /\ n + 1 \in 1..Len(pkts)
      /\ n \in 0..Len(more) /\ n <= Len(more)
  OBVIOUS
<1>2. /\ n \in 0..(Len(body) + 1) /\ p.status = "more" /\ p.packets = SubSeq(pkts, 1, n)
      /\ Begins(w.bytes, rest)
  BY DEF Stands
<1>3. p = ParseTurns(body)[n]
  OBVIOUS
<1> HIDE DEF p
<1>4. /\ long \in Seq(Byte) /\ n \in 0..(Len(long) + 1) /\ p \in ParseState
      /\ ParseTurns(long)[n] = p /\ rest \in Seq(Byte) /\ got = rest \o bytes
  <2>1. Undisturbed(body, bytes, n, p)
    BY <1>2, <1>3, StillThere
  <2> QED  BY <2>1 DEF Undisturbed
<1>5. Begins(w.bytes, got)
  <2>1. rest \o bytes \in Seq(Byte) /\ Begins(rest, rest \o bytes)
    BY <1>4, ConcatBegins
  <2>2. w.bytes \in Seq(Byte)
    <3>1. p.state \in Word
      BY <1>4 DEF ParseState
    <3> DEFINE pkt == pkts[n + 1]
    <3>4. pkt \in Entry
      <4> HIDE DEF Entry
      <4> QED  BY <1>1
    <3>2. pkt.tag \in Word /\ pkt.payload \in Seq(Byte)
      <4> HIDE DEF pkt
      <4> QED  BY <3>4 DEF Entry
    <3>3. Len(pkts[n + 1].payload) <= 255
      BY <1>1
    <3> QED  BY <3>1, <3>2, <3>3, WritePacketType
  <2> HIDE DEF rest, got, w
  <2> QED  BY <1>2, <1>4, <2>1, <2>2, BeginsBegins
<1>7. more[n + 1] = pkts[n + 1] /\ \A i \in 1..n : more[i] = pkts[i]
  <2>1. \A i \in 1..n : i \in 1..Len(pkts)
    BY <1>1
  <2> QED  BY <1>1, <2>1
<1>6. SubSeq(more, 1, n) = SubSeq(pkts, 1, n)
  <2> DEFINE one == SubSeq(more, 1, n)
             two == SubSeq(pkts, 1, n)
  <2>1. /\ one \in Seq(Entry) /\ Len(one) = n /\ \A i \in 1..n : one[i] = more[i]
        /\ two \in Seq(Entry) /\ Len(two) = n /\ \A i \in 1..n : two[i] = pkts[i]
    <3> HIDE DEF Entry
    <3> QED  BY <1>1
  <2> HIDE DEF one, two, Entry
  <2>2. \A i \in 1..Len(one) : one[i] = two[i]
    BY <1>7, <2>1
  <2>3. one = two
    BY <2>1, <2>2, SeqEqual
  <2> QED  BY <2>3 DEF one, two
<1>8. Readable(more, n)
  <2>1. \A i \in 1..n : IsReadable(more[i])
    BY <1>7 DEF Readable
  <2> QED  BY <1>1, <1>7, <2>1 DEF Readable
<1> HIDE DEF long
<1>9. Stands(long, more, n, after, closes)
  BY <1>1, <1>2, <1>4, <1>5, <1>6, <1>7 DEF Stands
<1> QED  BY <1>1, <1>8, <1>9 DEF Standing, long

(* The tail, after packets that all read.                                  *)
LEMMA StandsClosed ==
  ASSUME NEW body \in Seq(Byte), NEW pkts \in Seq(Entry), NEW state \in Word,
         Stands(body, pkts, Len(pkts), state, FALSE), Readable(pkts, Len(pkts)),
         NEW after
  PROVE  Standing(body \o WriteTail(state).bytes, pkts, after, TRUE)
<1> DEFINE n     == Len(pkts)
           bytes == WriteTail(state).bytes
           p     == ParseTurns(body)[n]
           long  == body \o bytes
           rest  == SubSeq(body, p.pos + 1, Len(body))
           got   == SubSeq(long, p.pos + 1, Len(long))
<1>1. n \in Nat /\ n \in 0..n /\ ~(n < n)
  OBVIOUS
<1>2. /\ n \in 0..(Len(body) + 1) /\ p.status = "more" /\ p.packets = SubSeq(pkts, 1, n)
      /\ rest = <<>> /\ p.state = state
  BY <1>1 DEF Stands
<1>3. bytes \in Seq(Byte)
  BY WriteTailType
<1>4. p = ParseTurns(body)[n]
  OBVIOUS
<1> HIDE DEF n, p, bytes
<1>5. /\ long \in Seq(Byte) /\ n \in 0..(Len(long) + 1)
      /\ ParseTurns(long)[n] = p /\ got = rest \o bytes
  <2>1. Undisturbed(body, bytes, n, p)
    BY <1>2, <1>3, <1>4, StillThere
  <2> QED  BY <2>1 DEF Undisturbed
<1>6. got = bytes
  <2>1. got = <<>> \o bytes
    BY <1>2, <1>5
  <2> HIDE DEF got
  <2> QED  BY <1>3, <2>1
<1> HIDE DEF long
<1>7. Stands(long, pkts, n, after, TRUE)
  BY <1>1, <1>2, <1>5, <1>6 DEF Stands, n, bytes
<1> QED  BY <1>1, <1>7 DEF Standing, long, n, bytes

(***************************************************************************)
(* What po32_frame_parse answers once the frame is closed.                 *)
(***************************************************************************)
LEMMA SameFront ==
  ASSUME NEW one \in Seq(Byte), NEW two \in Seq(Byte), Begins(one, two),
         NEW m \in Nat, m <= Len(one)
  PROVE  SubSeq(two, 1, m) = SubSeq(one, 1, m) /\ m <= Len(two)
<1> DEFINE a == SubSeq(one, 1, m)
           b == SubSeq(two, 1, m)
<1>1. Len(one) \in Nat /\ Len(two) \in Nat /\ m <= Len(two) /\ Len(one) <= Len(two)
  BY DEF Begins
<1>2. a \in Seq(Byte) /\ Len(a) = m /\ \A i \in 1..m : a[i] = one[i]
  BY <1>1
<1>3. b \in Seq(Byte) /\ Len(b) = m /\ \A i \in 1..m : b[i] = two[i]
  BY <1>1
<1>4. \A i \in 1..m : i \in 1..Len(one)
  BY <1>1
<1> HIDE DEF a, b
<1>5. \A i \in 1..Len(a) : a[i] = b[i]
  BY <1>2, <1>3, <1>4 DEF Begins
<1>6. a = b
  BY <1>2, <1>3, <1>5, SeqEqual
<1> QED  BY <1>1, <1>6 DEF a, b

(* A packet no parser knows comes next: it is a tail, or the end.          *)
LEMMA StoppedReads ==
  ASSUME NEW body \in Seq(Byte), NEW pkts \in Seq(Entry),
         NEW n \in 0..Len(pkts), n < Len(pkts),
         NEW state, NEW isFinished, Stands(body, pkts, n, state, isFinished), Readable(pkts, n),
         \A i \in 1..Len(pkts) : Len(pkts[i].payload) <= 255
  PROVE  /\ ParseBody(body).packets = SubSeq(pkts, 1, n)
         /\ ParseBody(body).status = IF LooksLikeTail(pkts[n + 1]) THEN "ok" ELSE "bad"
<1> DEFINE p    == ParseTurns(body)[n]
           rest == SubSeq(body, p.pos + 1, Len(body))
           pkt  == pkts[n + 1]
           w    == WritePacket(p.state, pkt.tag, pkt.payload)
<1>1. n \in Nat /\ Len(pkts) \in Nat /\ n + 1 \in 1..Len(pkts) /\ Len(body) \in Nat
  OBVIOUS
<1>2. /\ n \in 0..(Len(body) + 1) /\ p.status = "more" /\ p.packets = SubSeq(pkts, 1, n)
      /\ Begins(w.bytes, rest)
  BY DEF Stands
<1>3. p = ParseTurns(body)[n]
  OBVIOUS
<1> HIDE DEF p
<1>4. p \in ParseState /\ p.state \in Word /\ rest \in Seq(Byte)
  <2>1. Undisturbed(body, <<>>, n, p)
    <3>1. <<>> \in Seq(Byte)
      OBVIOUS
    <3> QED  BY <1>2, <1>3, <3>1, StillThere
  <2>2. p \in ParseState /\ rest \in Seq(Byte)
    BY <2>1 DEF Undisturbed
  <2> HIDE DEF rest
  <2> QED  BY <2>2 DEF ParseState
<1>5. /\ pkt.tag \in Word /\ pkt.payload \in Seq(Byte) /\ Len(pkt.payload) <= 255
      /\ ~IsReadable(pkt)
  <2>1. pkt \in Entry
    <3> HIDE DEF Entry
    <3> QED  BY <1>1
  <2>2. Len(pkt.payload) <= 255 /\ ~IsReadable(pkt)
    BY <1>1 DEF Readable
  <2> HIDE DEF pkt
  <2> QED  BY <2>1, <2>2 DEF Entry
<1> HIDE DEF pkt, rest
<1>6. /\ w.bytes \in Seq(Byte) /\ Len(w.bytes) = 5 + Len(pkt.payload)
      /\ ~HeaderIsKnown(p.state, w.bytes)
  BY <1>4, <1>5, ReadableDecodes DEF IsReadable
<1>7. ReadTail(p.state, w.bytes).ok <=> LooksLikeTail(pkt)
  BY <1>4, <1>5, PacketAsTail DEF LooksLikeTail, TailTag
<1> DEFINE coded == w.bytes
<1>8. coded \in Seq(Byte) /\ 5 <= Len(coded) /\ Begins(coded, rest)
  <2>1. Len(pkt.payload) \in Nat
    BY <1>5
  <2> QED  BY <1>2, <1>6, <2>1
<1> HIDE DEF w
<1>9. ReadTail(p.state, coded).ok <=> LooksLikeTail(pkt)
  BY <1>7
<1>10. ~HeaderIsKnown(p.state, coded)
  BY <1>6
<1> HIDE DEF coded
<1>11. /\ SubSeq(rest, 1, 5) = SubSeq(coded, 1, 5) /\ 5 <= Len(rest)
       /\ SubSeq(rest, 1, 3) = SubSeq(coded, 1, 3)
  <2>1. 3 <= Len(coded) /\ 3 \in Nat /\ 5 \in Nat
    BY <1>8
  <2> QED  BY <1>4, <1>8, <2>1, SameFront
<1>12. ReadTail(p.state, rest) = ReadTail(p.state, coded)
  <2>1. /\ ReadTail(p.state, SubSeq(rest, 1, 5)) = ReadTail(p.state, rest)
        /\ ReadTail(p.state, SubSeq(coded, 1, 5)) = ReadTail(p.state, coded)
    BY <1>4, <1>8, <1>11, FrameConstants, TailFromFront
  <2> QED  BY <1>11, <2>1
<1>13. ~HeaderIsKnown(p.state, rest)
  <2>1. PacketHeader(p.state, rest) = PacketHeader(p.state, coded)
    BY <1>11, FrameConstants, ZenonT(30) DEF PacketHeader
  <2> QED  BY <1>10, <2>1 DEF HeaderIsKnown
<1>14. ~DecodePacket(p.state, rest).ok
  BY <1>13 DEF DecodePacket
<1>15. CASE LooksLikeTail(pkt)
  BY <1>2, <1>3, <1>9, <1>12, <1>15, ParseAccepts DEF rest, pkt
<1>16. CASE ~LooksLikeTail(pkt)
  BY <1>2, <1>3, <1>9, <1>12, <1>14, <1>16, ParseRejects DEF rest, pkt
<1> QED  BY <1>15, <1>16

(* Only the tail is left.                                                  *)
LEMMA ClosedReads ==
  ASSUME NEW body \in Seq(Byte), NEW pkts \in Seq(Entry), NEW n, n = Len(pkts),
         NEW state, Stands(body, pkts, n, state, TRUE)
  PROVE  ParseBody(body).packets = SubSeq(pkts, 1, n) /\ ParseBody(body).status = "ok"
<1> DEFINE p    == ParseTurns(body)[n]
           rest == SubSeq(body, p.pos + 1, Len(body))
<1>1. n \in Nat /\ ~(n < Len(pkts))
  OBVIOUS
<1>2. /\ n \in 0..(Len(body) + 1) /\ p.status = "more" /\ p.packets = SubSeq(pkts, 1, n)
      /\ rest = WriteTail(p.state).bytes
  BY <1>1 DEF Stands
<1>3. p = ParseTurns(body)[n]
  OBVIOUS
<1> HIDE DEF p
<1>4. p.state \in Word
  <2>1. Undisturbed(body, <<>>, n, p)
    <3>1. <<>> \in Seq(Byte)
      OBVIOUS
    <3> QED  BY <1>2, <1>3, <3>1, StillThere
  <2>2. p \in ParseState
    BY <2>1 DEF Undisturbed
  <2> QED  BY <2>2 DEF ParseState
<1>5. ReadTail(p.state, rest).ok
  BY <1>2, <1>4, TailReadsBack
<1> QED  BY <1>2, <1>3, <1>5, ParseAccepts

LEMMA BackImpliesReadsBack ==
  ASSUME BuilderInv, BackInv
  PROVE  ReadsBack
<1> SUFFICES ASSUME finished PROVE ReadsBack
  BY DEF ReadsBack
<1> DEFINE body == Written(buffer)
           parsed == ParseFrame(buffer)
<1>1. /\ buffer \in Seq(Byte) /\ appended \in Seq(Entry)
  BY DEF BuilderInv, BuilderTypeOK, Entry
<1>2. /\ HasPreamble /\ Len(buffer) >= Len(Preamble) + 5 /\ Begins(Preamble, buffer)
      /\ Standing(body, appended, builder_state, finished)
      /\ \A i \in 1..Len(appended) : Len(appended[i].payload) <= 255
  BY DEF BackInv
<1>3. finished = TRUE
  BY DEF BuilderInv, BuilderTypeOK
<1>4. body \in Seq(Byte)
  <2>1. <<>> \in Seq(Byte)
    OBVIOUS
  <2> QED  BY <1>1, <1>2, <2>1, WrittenGrows
<1>5. parsed = ParseBody(body)
  <2>1. SubSeq(buffer, 1, Len(Preamble)) = Preamble
    <3>1. /\ Len(Preamble) \in Nat /\ Len(Preamble) <= Len(Preamble)
          /\ SubSeq(Preamble, 1, Len(Preamble)) = Preamble
      OBVIOUS
    <3> QED  BY <1>1, <1>2, <3>1, SameFront
  <2> QED  BY <1>2, <2>1, FrameConstants DEF ParseFrame, Written
<1> HIDE DEF body, parsed
<1>6. PICK n \in 0..Len(appended) :
        Readable(appended, n) /\ Stands(body, appended, n, builder_state, TRUE)
  BY <1>2, <1>3 DEF Standing
<1>7. n \in ReadablePart
  BY <1>6 DEF ReadablePart, Readable
<1>8. /\ parsed.packets = SubSeq(appended, 1, n)
      /\ parsed.status =
           IF n = Len(appended) \/ LooksLikeTail(appended[n + 1]) THEN "ok" ELSE "bad"
  <2>1. CASE n = Len(appended)
    BY <1>1, <1>4, <1>5, <1>6, <2>1, ClosedReads
  <2>2. CASE n # Len(appended)
    <3>1. n < Len(appended)
      BY <1>1, <1>6, <2>2
    <3> HIDE DEF Entry
    <3> QED  BY <1>1, <1>2, <1>4, <1>5, <1>6, <2>2, <3>1, StoppedReads
  <2> QED  BY <2>1, <2>2
<1> QED  BY <1>7, <1>8 DEF ReadsBack, parsed

-----------------------------------------------------------------------------
(* Each operation of the builder keeps BackInv.                            *)
LEMMA FreshKeeps ==
  ASSUME NEW room \in Nat,
         NEW buf, buf = Fresh(room), room >= Len(Preamble) /\ Len(buf) >= Len(Preamble)
  PROVE  Begins(Preamble, buf) /\ Standing(Written(buf), <<>>, InitialState, FALSE)
<1>1. buf = Preamble
  BY FrameConstants DEF Fresh
<1> QED  BY <1>1, FreshStands

LEMMA BackInit == BuilderInit => BackInv
<1> SUFFICES ASSUME BuilderInit PROVE BackInv
  OBVIOUS
<1>1. /\ capacity \in Nat /\ buffer = Fresh(capacity) /\ builder_state = InitialState
      /\ finished = FALSE /\ appended = <<>>
  BY CapacitiesAssumption DEF BuilderInit
<1>2. HasPreamble => /\ Begins(Preamble, buffer)
                     /\ Standing(Written(buffer), appended, builder_state, finished)
  BY <1>1, FreshKeeps DEF HasPreamble
<1>3. \A i \in 1..Len(appended) : Len(appended[i].payload) <= 255
  BY <1>1
<1> QED  BY <1>1, <1>2, <1>3 DEF BackInv

LEMMA OpenKeepsBack ==
  ASSUME NEW room \in Capacities, Open(room)
  PROVE  BackInv'
<1>1. /\ capacity' = room /\ room \in Nat /\ buffer' = Fresh(room)
      /\ builder_state' = InitialState /\ finished' = FALSE /\ appended' = <<>>
  BY CapacitiesAssumption DEF Open
<1>2. HasPreamble' => /\ Begins(Preamble, buffer')
                      /\ Standing(Written(buffer'), appended', builder_state', finished')
  BY <1>1, FreshKeeps DEF HasPreamble
<1>3. \A i \in 1..Len(appended') : Len(appended'[i].payload) <= 255
  BY <1>1
<1> QED  BY <1>1, <1>2, <1>3 DEF BackInv

(* Appending: the packet reads, or stops the parser, or comes behind one   *)
(* that did.                                                               *)
LEMMA StandsAppended ==
  ASSUME NEW body \in Seq(Byte), NEW pkts \in Seq(Entry), NEW state \in Word,
         Standing(body, pkts, state, FALSE),
         \A i \in 1..Len(pkts) : Len(pkts[i].payload) <= 255,
         NEW tag \in Word, NEW payload \in Seq(Byte), Len(payload) <= 255,
         NEW pkt, pkt = [tag |-> tag, payload |-> payload, offset |-> Len(Preamble) + Len(body)],
         NEW w, w = WritePacket(state, tag, payload)
  PROVE  Standing(body \o w.bytes, Append(pkts, pkt), w.state, FALSE)
<1>1. PICK n \in 0..Len(pkts) : Readable(pkts, n) /\ Stands(body, pkts, n, state, FALSE)
  BY DEF Standing
<1>2. pkt \in Entry /\ pkt.tag = tag /\ pkt.payload = payload
  BY FrameConstants DEF Entry
<1>3. CASE n = Len(pkts) /\ IsReadable(pkt)
  BY <1>1, <1>3, StandsReads
<1>4. CASE n = Len(pkts) /\ ~IsReadable(pkt)
  BY <1>1, <1>2, <1>4, StandsBarred
<1>5. CASE n < Len(pkts)
  <2> DEFINE more == Append(pkts, pkt)
  <2>1. /\ more \in Seq(Entry) /\ Len(pkts) <= Len(more)
        /\ \A i \in 1..Len(pkts) : more[i] = pkts[i]
    <3> HIDE DEF Entry
    <3> QED  BY <1>2
  <2>2. w.bytes \in Seq(Byte)
    BY ReadableDecodes
  <2> HIDE DEF more
  <2>3. Standing(body \o w.bytes, more, w.state, FALSE)
    BY <1>1, <1>5, <2>1, <2>2, StandsStopped
  <2> QED  BY <2>3 DEF more
<1>6. n = Len(pkts) \/ n < Len(pkts)
  OBVIOUS
<1> QED  BY <1>3, <1>4, <1>5, <1>6

LEMMA StandsFinished ==
  ASSUME NEW body \in Seq(Byte), NEW pkts \in Seq(Entry), NEW state \in Word,
         Standing(body, pkts, state, FALSE),
         \A i \in 1..Len(pkts) : Len(pkts[i].payload) <= 255, NEW after
  PROVE  Standing(body \o WriteTail(state).bytes, pkts, after, TRUE)
<1>1. PICK n \in 0..Len(pkts) : Readable(pkts, n) /\ Stands(body, pkts, n, state, FALSE)
  BY DEF Standing
<1>2. CASE n = Len(pkts)
  BY <1>1, <1>2, StandsClosed
<1>3. CASE n < Len(pkts)
  <2> DEFINE bytes == WriteTail(state).bytes
  <2>1. bytes \in Seq(Byte)
    BY WriteTailType
  <2>2. Len(pkts) <= Len(pkts) /\ \A i \in 1..Len(pkts) : pkts[i] = pkts[i]
    OBVIOUS
  <2> HIDE DEF bytes
  <2>3. Standing(body \o bytes, pkts, after, TRUE)
    BY <1>1, <1>3, <2>1, <2>2, StandsStopped
  <2> QED  BY <2>3 DEF bytes
<1>4. n = Len(pkts) \/ n < Len(pkts)
  OBVIOUS
<1> QED  BY <1>2, <1>3, <1>4

LEMMA RefuseKeepsBack ==
  ASSUME BackInv, UNCHANGED <<capacity, buffer, builder_state, finished, appended>>
  PROVE  BackInv'
  BY DEF BackInv, HasPreamble

LEMMA AppendKeepsBack ==
  ASSUME BuilderInv, BackInv, NEW tag \in Word, NEW payload \in Seq(Byte),
         AppendPacket(tag, payload)
  PROVE  BackInv'
<1> DEFINE objection == AppendObjection(Len(payload))
           w         == WritePacket(builder_state, tag, payload)
           pkt       == [tag |-> tag, payload |-> payload, offset |-> Len(buffer)]
           body      == Written(buffer)
<1>1. CASE objection # "OK"
  <2>1. UNCHANGED <<capacity, buffer, builder_state, finished, appended>>
    BY <1>1 DEF AppendPacket, Refuse
  <2> QED  BY <2>1, RefuseKeepsBack
<1>2. CASE objection = "OK"
  <2>1. /\ buffer' = buffer \o w.bytes /\ builder_state' = w.state
        /\ appended' = Append(appended, pkt) /\ capacity' = capacity /\ finished' = finished
    BY <1>2 DEF AppendPacket
  <2>2. HasPreamble /\ ~finished /\ Len(payload) <= 255
    <3>1. Len(payload) \in Nat
      OBVIOUS
    <3> QED  BY <1>2, <3>1, BuilderConstants DEF AppendObjection
  <2>3. /\ buffer \in Seq(Byte) /\ builder_state \in Word /\ capacity \in Nat
        /\ finished = FALSE /\ appended \in Seq(Entry)
    BY <2>2 DEF BuilderInv, BuilderTypeOK, Entry
  <2>4. /\ Begins(Preamble, buffer) /\ Standing(body, appended, builder_state, FALSE)
        /\ \A i \in 1..Len(appended) : Len(appended[i].payload) <= 255
    BY <2>2, <2>3 DEF BackInv
  <2>5. w.bytes \in Seq(Byte)
    BY <2>2, <2>3, ReadableDecodes
  <2>6. /\ body \in Seq(Byte) /\ Len(body) = Len(buffer) - Len(Preamble)
        /\ Written(buffer \o w.bytes) = body \o w.bytes
        /\ Begins(Preamble, buffer \o w.bytes)
    BY <2>3, <2>4, <2>5, WrittenGrows
  <2> HIDE DEF body
  <2>7. Len(buffer) = Len(Preamble) + Len(body)
    <3>1. Len(buffer) \in Nat /\ Len(Preamble) \in Nat
      BY <2>3
    <3> QED  BY <2>6, <3>1
  <2>8. Standing(body \o w.bytes, Append(appended, pkt), w.state, FALSE)
    BY <2>2, <2>3, <2>4, <2>6, <2>7, StandsAppended
  <2>9. \A i \in 1..Len(appended') : Len(appended'[i].payload) <= 255
    <3>1. pkt \in Entry /\ Len(pkt.payload) <= 255
      BY <2>2, <2>3 DEF Entry
    <3> HIDE DEF pkt, Entry
    <3>2. /\ Len(Append(appended, pkt)) = Len(appended) + 1
          /\ \A i \in 1..(Len(appended) + 1) :
               Append(appended, pkt)[i] = IF i = Len(appended) + 1 THEN pkt ELSE appended[i]
      BY <2>3, <3>1
    <3>3. Len(appended) \in Nat
      BY <2>3
    <3>4. \A i \in 1..(Len(appended) + 1) : i = Len(appended) + 1 \/ i \in 1..Len(appended)
      BY <3>3
    <3> QED  BY <2>1, <2>4, <3>1, <3>2, <3>4
  <2> HIDE DEF w, pkt
  <2>10. /\ Begins(Preamble, buffer')
         /\ Standing(Written(buffer'), appended', builder_state', finished')
    BY <2>1, <2>3, <2>6, <2>8
  <2> QED  BY <2>1, <2>3, <2>9, <2>10 DEF BackInv
<1> QED  BY <1>1, <1>2

LEMMA FinishKeepsBack ==
  ASSUME BuilderInv, BackInv, Finish
  PROVE  BackInv'
<1>1. CASE FinishAgain
  BY <1>1, RefuseKeepsBack DEF FinishAgain
<1>2. CASE FinishRefused
  BY <1>2, RefuseKeepsBack DEF FinishRefused, Refuse
<1>3. CASE FinishFrame
  <2> DEFINE w    == WriteTail(builder_state)
             body == Written(buffer)
  <2>1. /\ buffer' = buffer \o w.bytes /\ appended' = appended
        /\ capacity' = capacity /\ finished' = TRUE /\ HasPreamble /\ ~finished
    BY <1>3 DEF FinishFrame
  <2>2. /\ buffer \in Seq(Byte) /\ builder_state \in Word /\ capacity \in Nat
        /\ finished = FALSE /\ appended \in Seq(Entry)
    BY <2>1 DEF BuilderInv, BuilderTypeOK, Entry
  <2>3. /\ Begins(Preamble, buffer) /\ Standing(body, appended, builder_state, FALSE)
        /\ \A i \in 1..Len(appended) : Len(appended[i].payload) <= 255
    BY <2>1, <2>2 DEF BackInv
  <2>4. w.bytes \in Seq(Byte) /\ Len(w.bytes) = 5
    BY <2>2, WriteTailType, BuilderConstants
  <2>5. /\ body \in Seq(Byte) /\ Written(buffer \o w.bytes) = body \o w.bytes
        /\ Begins(Preamble, buffer \o w.bytes)
    BY <2>2, <2>3, <2>4, WrittenGrows
  <2> HIDE DEF body
  <2>6. Standing(body \o w.bytes, appended, builder_state', TRUE)
    BY <2>2, <2>3, <2>5, StandsFinished
  <2>7. Len(buffer') >= Len(Preamble) + 5 /\ HasPreamble'
    <3>1. Len(buffer \o w.bytes) = Len(buffer) + Len(w.bytes)
      BY <2>2, <2>4, ByteConcat
    <3>2. /\ Len(buffer) \in Nat /\ Len(Preamble) \in Nat /\ Len(buffer) >= Len(Preamble)
          /\ capacity >= Len(Preamble)
      BY <2>1, <2>2 DEF HasPreamble
    <3>3. Len(buffer') = Len(buffer) + 5
      BY <2>1, <2>4, <3>1
    <3> QED  BY <2>1, <3>2, <3>3 DEF HasPreamble
  <2> HIDE DEF w
  <2>8. /\ Begins(Preamble, buffer')
        /\ Standing(Written(buffer'), appended', builder_state', finished')
    BY <2>1, <2>5, <2>6
  <2> QED  BY <2>1, <2>3, <2>7, <2>8 DEF BackInv
<1> QED  BY <1>1, <1>2, <1>3 DEF Finish

LEMMA BackStep ==
  BuilderInv /\ BackInv /\ [BuilderNext]_builderVars => BackInv'
<1> SUFFICES ASSUME BuilderInv, BackInv, [BuilderNext]_builderVars PROVE BackInv'
  OBVIOUS
<1>1. ASSUME NEW room \in Capacities, Open(room) PROVE BackInv'
  BY <1>1, OpenKeepsBack
<1>2. ASSUME NEW pkt \in Inputs, AppendPacket(pkt.tag, pkt.payload) PROVE BackInv'
  <2>1. pkt.tag \in Word /\ pkt.payload \in Seq(Byte)
    BY InputsAssumption
  <2> QED  BY <1>2, <2>1, AppendKeepsBack
<1>3. CASE Finish
  BY <1>3, FinishKeepsBack
<1>4. CASE UNCHANGED builderVars
  BY <1>4, RefuseKeepsBack DEF builderVars
<1> QED  BY <1>1, <1>2, <1>3, <1>4 DEF BuilderNext

(* Every frame a builder finishes reads back (po32.c:525-603 against the   *)
(* parser at po32.c:218-260): po32_frame_parse finds the packets appended, *)
(* in order and at the offsets reported, as far as the first that no       *)
(* parser knows, and accepts the frame exactly when nothing or a packet    *)
(* shaped like the tail comes next.  For every preamble, every buffer size *)
(* and every packet of every length, however the calls are ordered.        *)
THEOREM BuilderReadsBack == BuilderSpec => []ReadsBack
<1>1. BuilderInit => BuilderInv /\ BackInv
  BY BuilderInitHolds, BackInit
<1>2. BuilderInv /\ BackInv /\ [BuilderNext]_builderVars => BuilderInv' /\ BackInv'
  BY BuilderStepPreserves, BackStep
<1>3. BuilderInv /\ BackInv => ReadsBack
  BY BackImpliesReadsBack
<1> QED  BY <1>1, <1>2, <1>3, PTL DEF BuilderSpec

-----------------------------------------------------------------------------
(***************************************************************************)
(* The streaming demodulator, for every preamble, every work buffer large  *)
(* enough for a packet, every sequence of bits and every behaviour of the  *)
(* caller: packet offsets tile the received bytes, the stream reports what *)
(* the parser finds in the same bytes, a stop is terminal, nothing comes   *)
(* out after a loss of sync, and the work buffer never fills.              *)
(***************************************************************************)

USE SyncAssumption, WorkAssumption

Tail3 == [before : Word, after : Word, final : Word]

LEMMA DemodConstants ==
  /\ OverheadBytes = 5 /\ HeaderBytes = 3 /\ TailBytes = 5
  /\ WorkSize \in Nat /\ WorkSize > 5
  /\ Len(Preamble) \in Nat /\ WindowLen \in Nat /\ WindowLen > 0
  /\ InitialState \in Word /\ 0 \in Word /\ NoTail \in Tail3
<1>1. InitialState \in Word /\ 0 \in Word
  BY WordIs DEF InitialState
<1> QED
  BY <1>1 DEF OverheadBytes, HeaderBytes, TrailerBytes, TailBytes, MaxPacketBytes,
              WindowLen, NoTail, Tail3

LEMMA Pow2Values ==
  /\ \A i \in 1..8 : Pow2[i] \in Nat /\ Pow2[i] >= 1 /\ Pow2[i] <= 128
  /\ \A i \in 1..7 : Pow2[i+1] = 2 * Pow2[i]
  /\ Pow2[8] = 128
  /\ 0 < Pow2[0 + 1]
  BY DEF Pow2

-----------------------------------------------------------------------------
(* The parts of the invariant that the properties do not state.            *)

(* The bits received so far leave the higher ones of the byte zero.        *)
ByteFits == current_byte < Pow2[bits_in_byte + 1]

(* The work buffer has room for the byte to come: the test at the head of  *)
(* po32_demod_on_byte never fires.                                         *)
WorkHasRoom == Len(work) < WorkSize

LossUnlocks == lost # "no" => ~Locked

(* A stop comes at the end of a byte.  A flush does not look at stopped,   *)
(* but it decides one bit, and only a push can make another one pending.   *)
StopRests ==
  stopped => \/ bits_in_byte = 0
             \/ bits_in_byte = 1 /\ ~pushing /\ ~pending

DemodInv ==
  /\ TypeOK /\ OffsetsTile
  /\ ByteFits /\ WorkHasRoom /\ LossUnlocks /\ StopRests

(* The four parts of OffsetsTile, over the packets alone. *)
Tiled(pkts) ==
  /\ pkts # <<>> => pkts[1].offset = Len(Preamble)
  /\ \A i \in 1..(Len(pkts) - 1) : pkts[i+1].offset = pkts[i].offset + WireLen(pkts[i])

After(pkts) ==
  IF pkts = <<>> THEN Len(Preamble)
  ELSE pkts[Len(pkts)].offset + WireLen(pkts[Len(pkts)])

LEMMA TileParts ==
  OffsetsTile <=> /\ packet_count = Len(delivered)
                  /\ Tiled(delivered)
                  /\ Locked => After(delivered) + Len(work) = Len(Preamble) + byte_offset
  BY DEF OffsetsTile, Tiled, After, NextOffset

LEMMA AfterType ==
  ASSUME NEW pkts \in Seq(Packet)
  PROVE  After(pkts) \in Nat
<1>1. CASE pkts = <<>>
  BY <1>1, DemodConstants DEF After
<1>2. CASE pkts # <<>>
  <2> DEFINE final == pkts[Len(pkts)]
  <2>1. final \in Packet
    BY <1>2
  <2>2. final.offset \in Nat /\ final.payload \in Seq(Byte)
    BY <2>1 DEF Packet
  <2> HIDE DEF final
  <2>3. WireLen(final) \in Nat
    <3> DEFINE body == final.payload
    <3>1. body \in Seq(Byte)
      BY <2>2
    <3> HIDE DEF body
    <3>2. Len(body) \in Nat
      BY <3>1
    <3>3. OverheadBytes + Len(body) \in Nat
      BY <3>2, DemodConstants
    <3> QED  BY <3>3 DEF WireLen, body
  <2>4. After(pkts) = final.offset + WireLen(final)
    BY <1>2 DEF After, final
  <2> QED  BY <2>2, <2>3, <2>4
<1> QED  BY <1>1, <1>2

(* A packet that begins where the others end extends the tiling.           *)
LEMMA TileExtends ==
  ASSUME NEW pkts \in Seq(Packet), Tiled(pkts),
         NEW pkt \in Packet, pkt.offset = After(pkts)
  PROVE  /\ Append(pkts, pkt) \in Seq(Packet)
         /\ Tiled(Append(pkts, pkt))
         /\ After(Append(pkts, pkt)) = After(pkts) + WireLen(pkt)
<1> DEFINE more == Append(pkts, pkt)
           n    == Len(pkts)
<1>1. /\ n \in Nat /\ more \in Seq(Packet) /\ Len(more) = n + 1 /\ more # <<>>
      /\ more[n + 1] = pkt /\ \A i \in 1..n : more[i] = pkts[i]
  OBVIOUS
<1>2. pkts = <<>> <=> n = 0
  OBVIOUS
<1> HIDE DEF more, n
<1>3. more[1].offset = Len(Preamble)
  <2>1. CASE n = 0
    BY <1>1, <1>2, <2>1 DEF After
  <2>2. CASE n # 0
    <3>1. 1 \in 1..n
      BY <1>1, <2>2
    <3> QED  BY <1>1, <1>2, <2>2, <3>1 DEF Tiled
  <2> QED  BY <2>1, <2>2
<1>4. ASSUME NEW i \in 1..n
      PROVE  more[i+1].offset = more[i].offset + WireLen(more[i])
  <2>1. CASE i = n
    <3>1. n # 0 /\ i \in 1..n
      BY <1>1, <2>1
    <3>2. After(pkts) = pkts[n].offset + WireLen(pkts[n])
      BY <1>2, <3>1 DEF After, n
    <3> QED  BY <1>1, <2>1, <3>1, <3>2
  <2>2. CASE i # n
    <3>1. i \in 1..(n - 1) /\ i \in 1..n /\ i + 1 \in 1..n
      BY <1>1, <2>2
    <3>2. pkts[i+1].offset = pkts[i].offset + WireLen(pkts[i])
      BY <3>1 DEF Tiled, n
    <3> QED  BY <1>1, <3>1, <3>2
  <2> QED  BY <2>1, <2>2
<1>5. Tiled(more)
  <2>1. Len(more) - 1 = n
    BY <1>1
  <2> QED  BY <1>3, <1>4, <2>1 DEF Tiled
<1>6. After(more) = After(pkts) + WireLen(pkt)
  BY <1>1 DEF After
<1> QED  BY <1>1, <1>5, <1>6 DEF more

-----------------------------------------------------------------------------
(* One completed byte, in a locked demodulator. *)

(* What po32_demod_on_byte leaves behind, whichever way it goes.           *)
ByteOutcome ==
  /\ work' \in Seq(Byte) /\ Len(work') < WorkSize
  /\ crc_state' \in Word /\ packet_count' \in Nat
  /\ done' \in BOOLEAN /\ stopped' \in BOOLEAN
  /\ tail' \in Tail3
  /\ delivered' \in Seq(Packet)
  /\ lost' \in {"no", "rejected", "asked"}
  /\ synced' \in BOOLEAN /\ run_synced' = synced'
  /\ lost' # "no" => ~synced'
  /\ packet_count' = Len(delivered')
  /\ Tiled(delivered')
  /\ synced' => After(delivered') + Len(work') = Len(Preamble) + byte_offset + 1

(* The demodulator before the byte. *)
ByteContext ==
  /\ TypeOK /\ WorkHasRoom /\ lost = "no"
  /\ packet_count = Len(delivered) /\ Tiled(delivered)
  /\ After(delivered) + Len(work) = Len(Preamble) + byte_offset

LEMMA PushedByte ==
  ASSUME ByteContext, NEW byte \in Byte
  PROVE  LET w == Append(work, byte)
         IN  w \in Seq(Byte) /\ Len(w) = Len(work) + 1 /\ Len(w) <= WorkSize
<1>1. work \in Seq(Byte) /\ Len(work) < WorkSize /\ Len(work) \in Nat
  BY DEF ByteContext, TypeOK, WorkHasRoom
<1> QED  BY <1>1, DemodConstants

LEMMA AwaitedOutcome ==
  ASSUME ByteContext, NEW w \in Seq(Byte), Len(w) = Len(work) + 1, ByteAwaited(w)
  PROVE  ByteOutcome
<1>1. Len(w) < WorkSize
  <2>1. CASE StartsTail(w) /\ Len(w) < TailBytes
    BY <2>1, DemodConstants
  <2>2. CASE ~StartsTail(w) /\ Len(w) < HeaderBytes
    BY <2>2, DemodConstants
  <2>3. CASE ~StartsTail(w) /\ HeaderFits(w) /\ Len(w) < PacketHeader(crc_state, w).len
    <3> DEFINE len == PacketHeader(crc_state, w).len
    <3>1. Len(w) >= HeaderBytes /\ len <= WorkSize /\ Len(w) < len
      BY <2>3 DEF HeaderFits
    <3>2. len \in Int
      <4>1. crc_state \in Word
        BY DEF ByteContext, TypeOK
      <4>2. len \in OverheadBytes..(OverheadBytes + MaxByte)
        BY <3>1, <4>1, PacketHeaderType
      <4> HIDE DEF len
      <4> QED  BY <4>2, DemodConstants DEF MaxByte
    <3> HIDE DEF len
    <3> QED  BY <3>1, <3>2, DemodConstants
  <2> QED  BY <2>1, <2>2, <2>3 DEF ByteAwaited, AwaitsMore
<1>2. work' = w /\ synced' = TRUE /\ run_synced' = TRUE
  BY DEF ByteAwaited, SetSynced
<1>3. UNCHANGED <<crc_state, packet_count, done, stopped, tail, delivered, lost>>
  BY DEF ByteAwaited
<1>4. After(delivered') + Len(work') = Len(Preamble) + byte_offset + 1
  <2>1. After(delivered) \in Nat /\ Len(work) \in Nat /\ byte_offset \in Nat
    BY AfterType DEF ByteContext, TypeOK
  <2>2. After(delivered) + Len(work) = Len(Preamble) + byte_offset
    BY DEF ByteContext
  <2>3. Len(w) = Len(work) + 1
    OBVIOUS
  <2>4. After(delivered) + Len(w) = Len(Preamble) + byte_offset + 1
    BY <2>1, <2>2, <2>3, DemodConstants
  <2> QED  BY <1>2, <1>3, <2>4
<1> QED
  BY <1>1, <1>2, <1>3, <1>4 DEF ByteOutcome, ByteContext, TypeOK, Tail3

LEMMA TailOutcome ==
  ASSUME ByteContext, NEW w \in Seq(Byte), Len(w) = Len(work) + 1, ByteEndsTail(w)
  PROVE  ByteOutcome
<1>0. ReadTail(crc_state, w).ok
  BY DEF ByteEndsTail, CompletesTail
<1>1. Len(w) = TailBytes
  BY DEF ByteEndsTail, CompletesTail
<1>2. ReadTail(crc_state, w).tail \in Tail3
  <2>1. crc_state \in Word
    BY DEF ByteContext, TypeOK
  <2>2. ReadTail(crc_state, w).tail \in [before : Word, after : Word, final : Word]
    BY <1>0, <1>1, <2>1, ReadTailType, Zenon
  <2> QED  BY <2>2 DEF Tail3
<1>3. /\ work' = w /\ synced' = TRUE /\ run_synced' = TRUE /\ done' = TRUE
      /\ tail' = ReadTail(crc_state, w).tail
      /\ UNCHANGED <<crc_state, packet_count, stopped, delivered, lost>>
  BY DEF ByteEndsTail, SetSynced
<1>4. After(delivered') + Len(work') = Len(Preamble) + byte_offset + 1
  <2>1. After(delivered) \in Nat /\ Len(work) \in Nat /\ byte_offset \in Nat
    BY AfterType DEF ByteContext, TypeOK
  <2>2. After(delivered) + Len(work) = Len(Preamble) + byte_offset
    BY DEF ByteContext
  <2>3. Len(w) = Len(work) + 1
    OBVIOUS
  <2>4. After(delivered) + Len(w) = Len(Preamble) + byte_offset + 1
    BY <2>1, <2>2, <2>3, DemodConstants
  <2> QED  BY <1>3, <2>4
<1>5. Len(w) < WorkSize
  BY <1>1, DemodConstants
<1> QED
  BY <1>2, <1>3, <1>4, <1>5 DEF ByteOutcome, ByteContext, TypeOK

LEMMA RejectedOutcome ==
  ASSUME ByteContext, work' = <<>>, synced' = FALSE, run_synced' = FALSE, lost' = "rejected",
         UNCHANGED <<crc_state, packet_count, done, stopped, tail, delivered>>
  PROVE  ByteOutcome
<1>1. work' \in Seq(Byte) /\ Len(work') < WorkSize
  BY DemodConstants
<1> QED  BY <1>1 DEF ByteOutcome, ByteContext, TypeOK, Tail3

LEMMA PacketOutcome ==
  ASSUME ByteContext, NEW w \in Seq(Byte), Len(w) = Len(work) + 1,
         NEW reply \in Reply, ByteEndsPacket(w, reply)
  PROVE  ByteOutcome
<1> DEFINE pkt   == DecodePacket(crc_state, w)
           start == PacketStart(w)
           entry == [tag |-> pkt.tag, payload |-> pkt.payload, offset |-> start]
<1>1. /\ Len(w) = PacketHeader(crc_state, w).len /\ DecodePacket(crc_state, w).ok
  BY DEF ByteEndsPacket, CompletesPacket
<1>2. pkt = ReadPacket(crc_state, w) /\ ReadPacket(crc_state, w).ok
  BY <1>1 DEF DecodePacket
<1>3. /\ pkt.tag \in Word /\ pkt.payload \in Seq(Byte) /\ pkt.state \in Word
      /\ OverheadBytes + Len(pkt.payload) = Len(w)
  <2>1. crc_state \in Word
    BY DEF ByteContext, TypeOK
  <2> QED  BY <1>1, <1>2, <2>1, ReadPacketType
<1>4. After(delivered) \in Nat /\ Len(w) \in Nat /\ Len(work) \in Nat /\ byte_offset \in Nat
  BY AfterType DEF ByteContext, TypeOK
<1>5. start = After(delivered)
  <2>1. After(delivered) + Len(work) = Len(Preamble) + byte_offset
    BY DEF ByteContext
  <2>2. Len(w) = Len(work) + 1
    OBVIOUS
  <2> QED  BY <1>4, <2>1, <2>2, DemodConstants DEF PacketStart
<1>6. /\ crc_state' = pkt.state /\ packet_count' = packet_count + 1 /\ work' = <<>>
      /\ delivered' = Append(delivered, entry)
      /\ stopped' = reply.stop /\ synced' = ~reply.desync /\ run_synced' = ~reply.desync
      /\ lost' = (IF reply.desync THEN "asked" ELSE lost)
      /\ done' = done /\ tail' = tail
  BY DEF ByteEndsPacket, SetSynced
<1> HIDE DEF pkt
<1>7. entry \in Packet /\ entry.offset = After(delivered) /\ WireLen(entry) = Len(w)
  BY <1>3, <1>4, <1>5 DEF Packet, WireLen
<1> HIDE DEF entry
<1>8. delivered \in Seq(Packet) /\ Tiled(delivered) /\ packet_count = Len(delivered)
  BY DEF ByteContext, TypeOK
<1>9. /\ delivered' \in Seq(Packet) /\ Tiled(delivered')
      /\ After(delivered') = After(delivered) + Len(w)
      /\ Len(delivered') = Len(delivered) + 1
  BY <1>6, <1>7, <1>8, TileExtends
<1>10. After(delivered') + Len(work') = Len(Preamble) + byte_offset + 1
  <2>1. After(delivered) + Len(w) = Len(Preamble) + (byte_offset + 1)
    BY <1>4, <1>5, DemodConstants DEF PacketStart
  <2>2. Len(work') = 0
    BY <1>6
  <2> QED  BY <1>4, <1>9, <2>1, <2>2, DemodConstants
<1>11. /\ packet_count' \in Nat /\ packet_count' = Len(delivered')
       /\ work' \in Seq(Byte) /\ Len(work') < WorkSize
  BY <1>6, <1>8, <1>9, DemodConstants
<1>12. /\ stopped' \in BOOLEAN /\ synced' \in BOOLEAN /\ run_synced' = synced'
       /\ lost' \in {"no", "rejected", "asked"} /\ (lost' # "no" => ~synced')
  BY <1>6 DEF Reply, ByteContext
<1> QED
  BY <1>3, <1>6, <1>9, <1>10, <1>11, <1>12 DEF ByteOutcome, ByteContext, TypeOK, Tail3

LEMMA OnByteOutcome ==
  ASSUME ByteContext, NEW byte \in Byte, NEW reply \in Reply, OnByte(byte, reply)
  PROVE  ByteOutcome
<1> DEFINE w == Append(work, byte)
<1>1. w \in Seq(Byte) /\ Len(w) = Len(work) + 1
  BY PushedByte
<1>2. ByteAwaited(w) \/ ByteEndsTail(w) \/ ByteEndsPacket(w, reply) \/ ByteRejected(w)
  <2>1. ~(Len(work) >= WorkSize)
    BY DemodConstants DEF ByteContext, WorkHasRoom, TypeOK
  <2> QED  BY <2>1 DEF OnByte
<1> HIDE DEF w
<1>3. CASE ByteAwaited(w)
  BY <1>1, <1>3, AwaitedOutcome
<1>4. CASE ByteEndsTail(w)
  BY <1>1, <1>4, TailOutcome
<1>5. CASE ByteEndsPacket(w, reply)
  BY <1>1, <1>5, PacketOutcome
<1>6. CASE ByteRejected(w)
  BY <1>6, RejectedOutcome DEF ByteRejected, SetSynced
<1> QED  BY <1>2, <1>3, <1>4, <1>5, <1>6

-----------------------------------------------------------------------------
(* The steps. *)

LEMMA DemodInitHolds == Init => DemodInv
<1> SUFFICES ASSUME Init PROVE DemodInv
  OBVIOUS
<1>1. TypeOK
  <2>1. sync_window \in [1..WindowLen -> Bit]
    BY DEF Init, Bit
  <2>2. /\ work \in Seq(Byte) /\ heard \in Seq(Byte) /\ delivered \in Seq(Packet)
    BY DEF Init
  <2>3. crc_state \in Word /\ tail \in Tail3
    BY DemodConstants DEF Init
  <2>4. /\ pushing \in BOOLEAN /\ run_synced \in BOOLEAN /\ synced \in BOOLEAN
        /\ started \in BOOLEAN /\ pending \in BOOLEAN
        /\ done \in BOOLEAN /\ stopped \in BOOLEAN
        /\ lost \in {"no", "rejected", "asked"}
    BY DEF Init
  <2>5. /\ bits_in_byte \in 0..7 /\ current_byte \in 0..255
        /\ byte_offset \in Nat /\ packet_count \in Nat
    BY DEF Init
  <2> QED  BY <2>1, <2>2, <2>3, <2>4, <2>5 DEF TypeOK, Tail3
<1>2. OffsetsTile
  BY DEF Init, OffsetsTile, Locked
<1>3. ByteFits
  <2>1. current_byte = 0 /\ bits_in_byte = 0
    BY DEF Init
  <2> QED  BY <2>1, Pow2Values DEF ByteFits
<1>4. WorkHasRoom
  BY DemodConstants DEF Init, WorkHasRoom
<1> QED  BY <1>1, <1>2, <1>3, <1>4 DEF Init, DemodInv, LossUnlocks, StopRests

(* A step that leaves the demodulator unlocked, or as locked as it was,    *)
(* and touches no byte, keeps the invariant.                               *)
LEMMA QuietPreserves ==
  ASSUME DemodInv,
         pushing' \in BOOLEAN, run_synced' \in BOOLEAN, synced' \in BOOLEAN,
         started' \in BOOLEAN, pending' \in BOOLEAN,
         sync_window' \in [1..WindowLen -> Bit],
         lost' \in {"no", "rejected", "asked"},
         UNCHANGED <<byteVars, crc_state, packet_count, done, stopped, tail, heard, delivered>>,
         work' = work \/ (work' = <<>> /\ ~Locked'),
         Locked' => Locked,
         lost' = lost \/ ~Locked',
         stopped => (bits_in_byte = 0 \/ (~pushing' /\ ~pending'))
  PROVE  DemodInv'
<1>1. TypeOK'
  <2>1. work' \in Seq(Byte)
    <3>1. work' = work \/ work' = <<>>
      OBVIOUS
    <3>2. work \in Seq(Byte) /\ <<>> \in Seq(Byte)
      BY DEF DemodInv, TypeOK
    <3> QED  BY <3>1, <3>2
  <2> QED  BY <2>1 DEF DemodInv, TypeOK, byteVars
<1>2. OffsetsTile'
  <2>1. /\ packet_count' = Len(delivered') /\ Tiled(delivered')
    BY TileParts DEF DemodInv, Tiled
  <2>2. Locked' => After(delivered') + Len(work') = Len(Preamble) + byte_offset'
    BY TileParts DEF DemodInv, byteVars
  <2> QED  BY <2>1, <2>2 DEF OffsetsTile, Tiled, After, NextOffset
<1>3. ByteFits' /\ WorkHasRoom'
  BY DemodConstants DEF DemodInv, ByteFits, WorkHasRoom, byteVars
<1>4. LossUnlocks'
  BY DEF DemodInv, LossUnlocks
<1>5. StopRests'
  BY DEF DemodInv, StopRests, byteVars
<1> QED  BY <1>1, <1>2, <1>3, <1>4, <1>5 DEF DemodInv

LEMMA WindowShifts ==
  ASSUME TypeOK, NEW bit \in Bit
  PROVE  Shifted(bit) \in [1..WindowLen -> Bit]
<1>1. /\ sync_window \in Seq(Bit) /\ Len(sync_window) = WindowLen
  BY DemodConstants DEF TypeOK
<1>2. sync_window # <<>>
  BY <1>1, DemodConstants
<1>3. Tail(sync_window) \in Seq(Bit) /\ Len(Tail(sync_window)) = WindowLen - 1
  BY <1>1, <1>2
<1> DEFINE rest == Tail(sync_window)
<1> HIDE DEF rest
<1>4. Append(rest, bit) \in Seq(Bit) /\ Len(Append(rest, bit)) = WindowLen
  BY <1>3, DemodConstants DEF rest
<1>5. Append(rest, bit) \in [1..WindowLen -> Bit]
  <2> DEFINE s == Append(rest, bit)
  <2> HIDE DEF s
  <2>1. s \in [1..Len(s) -> Bit] /\ Len(s) = WindowLen
    BY <1>4, LenProperties, Zenon DEF s
  <2> QED  BY <2>1 DEF s
<1> QED  BY <1>5 DEF Shifted, rest

LEMMA AcquirePreserves ==
  ASSUME DemodInv, pushing, pushing' = pushing, pending' = pending, ~stopped,
         NEW bit \in Bit, Acquire(bit)
  PROVE  DemodInv'
<1>1. TypeOK'
  <2>1. sync_window' \in [1..WindowLen -> Bit]
    BY WindowShifts DEF DemodInv, Acquire
  <2>2. /\ work' \in Seq(Byte) /\ heard' \in Seq(Byte) /\ delivered' \in Seq(Packet)
    BY DEF Acquire
  <2>3. crc_state' \in Word
    BY DemodConstants DEF Acquire
  <2> QED  BY <2>1, <2>2, <2>3 DEF Acquire, DemodInv, TypeOK
<1>2. OffsetsTile'
  BY DemodConstants DEF Acquire, OffsetsTile, NextOffset
<1>3. ByteFits'
  <2>1. current_byte' = 0 /\ bits_in_byte' = 0
    BY DEF Acquire
  <2> QED  BY <2>1, Pow2Values DEF ByteFits
<1>4. WorkHasRoom'
  BY DemodConstants DEF Acquire, WorkHasRoom
<1> QED  BY <1>1, <1>2, <1>3, <1>4 DEF Acquire, DemodInv, LossUnlocks, StopRests

LEMMA MidBytePreserves ==
  ASSUME DemodInv, pushing' = pushing, pending' \in BOOLEAN,
         stopped => bits_in_byte = 0 /\ ~pushing /\ ~pending',
         NEW bit \in Bit, MidByte(bit)
  PROVE  DemodInv'
<1>1. /\ bits_in_byte \in 0..6 /\ bits_in_byte' = bits_in_byte + 1
      /\ current_byte' = current_byte + bit * Pow2[bits_in_byte + 1]
      /\ current_byte \in 0..255
  BY DEF MidByte, DemodInv, TypeOK
<1>2. UNCHANGED <<run_synced, synced, byte_offset, bitVars, pktVars, history>>
  BY DEF MidByte
<1>3. current_byte' \in 0..127 /\ current_byte' < Pow2[bits_in_byte' + 1]
  <2> DEFINE low == Pow2[bits_in_byte + 1]  high == Pow2[bits_in_byte' + 1]
  <2>1. low \in Nat /\ high = 2 * low /\ high <= 128
    <3>1. bits_in_byte + 1 \in 1..7 /\ bits_in_byte' + 1 = (bits_in_byte + 1) + 1
          /\ bits_in_byte + 1 \in 1..8 /\ bits_in_byte' + 1 \in 1..8
      BY <1>1
    <3> QED  BY <3>1, Pow2Values, ZenonT(30)
  <2>2. current_byte < low
    BY DEF DemodInv, ByteFits
  <2>3. bit = 0 \/ bit = 1
    BY DEF Bit
  <2>4. current_byte' = current_byte \/ current_byte' = current_byte + low
    BY <1>1, <2>1, <2>3
  <2> HIDE DEF low, high
  <2>5. current_byte \in Nat /\ current_byte < low
    BY <1>1, <2>2 DEF low
  <2>6. current_byte' \in 0..127 /\ current_byte' < high
    <3>1. low \in Nat /\ 2 * low <= 128 /\ 1 <= low
      BY <2>1, <2>5
    <3>2. current_byte' \in Nat /\ current_byte' < 2 * low
      BY <2>4, <2>5, <3>1
    <3> QED  BY <2>1, <3>1, <3>2
  <2> QED  BY <2>6 DEF high
<1>4. TypeOK'
  BY <1>1, <1>2, <1>3 DEF DemodInv, TypeOK, bitVars, pktVars, history
<1>5. OffsetsTile' /\ WorkHasRoom' /\ LossUnlocks'
  BY <1>2 DEF DemodInv, OffsetsTile, NextOffset, WorkHasRoom, LossUnlocks, Locked,
              pktVars, history
<1>6. StopRests'
  BY <1>1, <1>2 DEF StopRests, pktVars
<1> QED  BY <1>3, <1>4, <1>5, <1>6 DEF DemodInv, ByteFits

LEMMA LastBitFits ==
  ASSUME DemodInv, bits_in_byte = 7, NEW bit \in Bit
  PROVE  current_byte + bit * Pow2[8] \in Byte
<1> DEFINE byte == current_byte + bit * Pow2[8]
<1>1. current_byte \in 0..255 /\ current_byte < 128
  <2>1. current_byte < Pow2[7 + 1] /\ 7 + 1 = 8
    BY DEF DemodInv, ByteFits
  <2> QED  BY <2>1, Pow2Values DEF DemodInv, TypeOK
<1>2. bit = 0 \/ bit = 1
  BY DEF Bit
<1>3. byte = current_byte \/ byte = current_byte + 128
  <2>1. byte = current_byte + bit * 128
    BY Pow2Values
  <2> HIDE DEF byte
  <2> QED  BY <1>1, <1>2, <2>1
<1>4. byte \in Int /\ 0 <= byte /\ byte <= 255
  BY <1>1, <1>3, SMTT(30)
<1> HIDE DEF byte
<1> QED  BY <1>4, ByteIs DEF byte

LEMMA EndBytePreserves ==
  ASSUME DemodInv, Locked, pushing' = pushing, pending' \in BOOLEAN,
         NEW bit \in Bit, NEW reply \in Reply, EndByte(bit, reply)
  PROVE  DemodInv'
<1> DEFINE byte == current_byte + bit * Pow2[8]
<1>1. /\ bits_in_byte = 7 /\ byte_offset' = byte_offset + 1
      /\ current_byte' = 0 /\ bits_in_byte' = 0
      /\ heard' = Append(heard, byte) /\ OnByte(byte, reply)
      /\ UNCHANGED bitVars
  BY DEF EndByte
<1>2. byte \in Byte
  BY <1>1, LastBitFits
<1> HIDE DEF byte
<1>3. ByteContext
  BY TileParts DEF DemodInv, LossUnlocks, ByteContext
<1>4. ByteOutcome
  BY <1>1, <1>2, <1>3, OnByteOutcome
<1>5. TypeOK'
  <2>1. heard' \in Seq(Byte)
    BY <1>1, <1>2 DEF DemodInv, TypeOK
  <2> QED
    BY <1>1, <1>4, <2>1 DEF ByteOutcome, DemodInv, TypeOK, Tail3, bitVars
<1>6. OffsetsTile'
  <2>1. Locked' = synced'
    BY <1>4 DEF ByteOutcome, Locked
  <2>2. packet_count' = Len(delivered') /\ Tiled(delivered')
    BY <1>4 DEF ByteOutcome
  <2>3. synced' => After(delivered') + Len(work') = Len(Preamble) + byte_offset'
    <3>1. byte_offset \in Nat /\ byte_offset' = byte_offset + 1
      BY <1>1 DEF DemodInv, TypeOK
    <3>2. Len(Preamble) + byte_offset' = Len(Preamble) + byte_offset + 1
      BY <3>1, DemodConstants
    <3> QED  BY <1>4, <3>2 DEF ByteOutcome
  <2> QED  BY <2>1, <2>2, <2>3 DEF OffsetsTile, Tiled, After, NextOffset
<1>7. ByteFits'
  BY <1>1, Pow2Values DEF ByteFits
<1>8. WorkHasRoom' /\ LossUnlocks' /\ StopRests'
  BY <1>1, <1>4 DEF ByteOutcome, WorkHasRoom, LossUnlocks, Locked, StopRests
<1> QED  BY <1>5, <1>6, <1>7, <1>8 DEF DemodInv

LEMMA PushBitPreserves ==
  ASSUME DemodInv, NEW bit \in Bit, NEW reply \in Reply, PushBit(bit, reply)
  PROVE  DemodInv'
<1>1. pushing /\ ~stopped /\ pushing' = pushing /\ pending' = pending
  BY DEF PushBit
<1>2. CASE ~run_synced /\ FirstWindow
  BY <1>1, <1>2, QuietPreserves
     DEF FirstWindow, Locked, pktVars, history, byteVars, DemodInv, TypeOK
<1>3. CASE ~run_synced /\ Hunt(bit)
  <2>1. sync_window' \in [1..WindowLen -> Bit]
    BY <1>3, WindowShifts DEF DemodInv, Hunt
  <2> QED
    BY <1>1, <1>3, <2>1, QuietPreserves
       DEF Hunt, Locked, pktVars, history, byteVars, DemodInv, TypeOK
<1>4. CASE ~run_synced /\ Acquire(bit)
  BY <1>1, <1>4, AcquirePreserves
<1>5. CASE run_synced /\ MidByte(bit)
  BY <1>1, <1>5, MidBytePreserves DEF DemodInv, TypeOK
<1>6. CASE run_synced /\ EndByte(bit, reply)
  <2>1. Locked /\ pending' \in BOOLEAN
    BY <1>1, <1>6 DEF Locked, DemodInv, TypeOK
  <2> QED  BY <1>1, <1>6, <2>1, EndBytePreserves
<1> QED  BY <1>2, <1>3, <1>4, <1>5, <1>6 DEF PushBit

(* A flush after a stop finds no byte under way and completes none.        *)
LEMMA FlushAfterStop ==
  ASSUME DemodInv, stopped, NEW bit \in Bit, NEW reply \in Reply, Flush(bit, reply)
  PROVE  bits_in_byte = 0 /\ MidByte(bit)
<1>1. bits_in_byte = 0
  BY DEF DemodInv, StopRests, Flush
<1> QED  BY <1>1 DEF Flush, EndByte

LEMMA FlushPreserves ==
  ASSUME DemodInv, NEW bit \in Bit, NEW reply \in Reply, Flush(bit, reply)
  PROVE  DemodInv'
<1>1. ~pushing /\ synced /\ pushing' = pushing /\ pending' = FALSE
  BY DEF Flush
<1>2. CASE MidByte(bit)
  BY <1>1, <1>2, FlushAfterStop, MidBytePreserves
<1>3. CASE EndByte(bit, reply)
  <2>1. Locked /\ pending' \in BOOLEAN
    BY <1>1 DEF Locked
  <2> QED  BY <1>1, <1>3, <2>1, EndBytePreserves
<1> QED  BY <1>2, <1>3 DEF Flush

LEMMA CallsPreserve ==
  ASSUME DemodInv, PushBegin \/ PushEnd \/ Desync \/ Reinit \/ UNCHANGED vars
  PROVE  DemodInv'
<1>1. CASE PushBegin
  BY <1>1, QuietPreserves
     DEF PushBegin, Locked, bitVars, pktVars, history, byteVars, DemodInv, TypeOK
<1>2. CASE PushEnd
  <2>1. stopped => bits_in_byte = 0
    BY <1>2 DEF PushEnd, DemodInv, StopRests
  <2> QED
    BY <1>2, <2>1, QuietPreserves
       DEF PushEnd, Locked, bitVars, pktVars, history, byteVars, DemodInv, TypeOK
<1>3. CASE Desync
  <2>1. ~Locked'
    BY <1>3 DEF Desync, Locked
  <2>2. /\ lost' \in {"no", "rejected", "asked"} /\ synced' \in BOOLEAN
        /\ work' = <<>> /\ pushing' = pushing /\ run_synced' = run_synced
        /\ pending' = pending /\ started' = started /\ sync_window' = sync_window
        /\ UNCHANGED <<byteVars, crc_state, packet_count, done, stopped, tail, heard, delivered>>
    BY <1>3 DEF Desync, DemodInv, TypeOK, bitVars
  <2>3. stopped => (bits_in_byte = 0 \/ (~pushing' /\ ~pending'))
    BY <2>2 DEF DemodInv, StopRests
  <2> QED
    BY <2>1, <2>2, <2>3, QuietPreserves DEF DemodInv, TypeOK
<1>4. CASE Reinit
  <2>1. TypeOK'
    <3>1. sync_window' \in [1..WindowLen -> Bit]
      BY <1>4 DEF Reinit, Bit
    <3>2. /\ work' \in Seq(Byte) /\ heard' \in Seq(Byte) /\ delivered' \in Seq(Packet)
      BY <1>4 DEF Reinit
    <3>3. crc_state' \in Word /\ tail' \in Tail3
      BY <1>4, DemodConstants DEF Reinit
    <3>4. /\ pushing' \in BOOLEAN /\ run_synced' \in BOOLEAN /\ synced' \in BOOLEAN
          /\ started' \in BOOLEAN /\ pending' \in BOOLEAN
          /\ done' \in BOOLEAN /\ stopped' \in BOOLEAN
          /\ lost' \in {"no", "rejected", "asked"}
      BY <1>4 DEF Reinit
    <3>5. /\ bits_in_byte' \in 0..7 /\ current_byte' \in 0..255
          /\ byte_offset' \in Nat /\ packet_count' \in Nat
      BY <1>4 DEF Reinit
    <3> QED  BY <3>1, <3>2, <3>3, <3>4, <3>5 DEF TypeOK, Tail3
  <2>2. OffsetsTile'
    BY <1>4 DEF Reinit, OffsetsTile, Locked
  <2>3. ByteFits'
    <3>1. current_byte' = 0 /\ bits_in_byte' = 0
      BY <1>4 DEF Reinit
    <3> QED  BY <3>1, Pow2Values DEF ByteFits
  <2>4. WorkHasRoom'
    BY <1>4, DemodConstants DEF Reinit, WorkHasRoom
  <2> QED  BY <1>4, <2>1, <2>2, <2>3, <2>4 DEF Reinit, DemodInv, LossUnlocks, StopRests
<1>5. CASE UNCHANGED vars
  BY <1>5, QuietPreserves
     DEF vars, Locked, bitVars, pktVars, history, byteVars, DemodInv, TypeOK, StopRests
<1> QED  BY <1>1, <1>2, <1>3, <1>4, <1>5

LEMMA DemodStepPreserves == DemodInv /\ [Next]_vars => DemodInv'
<1> SUFFICES ASSUME DemodInv, [Next]_vars PROVE DemodInv'
  OBVIOUS
<1>1. ASSUME NEW bit \in Bit, NEW reply \in Reply, PushBit(bit, reply) PROVE DemodInv'
  BY <1>1, PushBitPreserves
<1>2. ASSUME NEW bit \in Bit, NEW reply \in Reply, Flush(bit, reply) PROVE DemodInv'
  BY <1>2, FlushPreserves
<1>3. CASE PushBegin \/ PushEnd \/ Desync \/ Reinit \/ UNCHANGED vars
  BY <1>3, CallsPreserve
<1> QED  BY <1>1, <1>2, <1>3 DEF Next

-----------------------------------------------------------------------------
(* The stream and the parser.  After as many turns as packets have been    *)
(* delivered, the loop of po32_frame_parse over the bytes heard stands     *)
(* where the demodulator stands: the same packets, and while it is locked  *)
(* the same state, with the rest of the bytes in the work buffer.  That    *)
(* rest is a tail if the stream is done and is neither a tail nor a packet *)
(* otherwise, because a locked demodulator only keeps a rest that needs    *)
(* more bytes.                                                             *)
Reached == ParseTurns(heard)[Len(delivered)]

Rest == SubSeq(heard, Reached.pos + 1, Len(heard))

NeedsMore(state, w) ==
  \/ w = <<>>
  \/ Unwhiten(state, w[1]) = TailMarker1 /\ Len(w) < TailBytes
  \/ Unwhiten(state, w[1]) # TailMarker1 /\ Len(w) < HeaderBytes
  \/ /\ Unwhiten(state, w[1]) # TailMarker1
     /\ HeaderIsKnown(state, w) /\ Len(w) < PacketHeader(state, w).len

StreamInv ==
  /\ Len(delivered) \in 0..(Len(heard) + 1)
  /\ Reached.status = "more" /\ Reached.packets = delivered
  /\ IF done
     THEN ReadTail(Reached.state, Rest).ok /\ tail = ReadTail(Reached.state, Rest).tail
     ELSE ~ReadTail(Reached.state, Rest).ok /\ ~DecodePacket(Reached.state, Rest).ok
  /\ Locked =>
       /\ byte_offset = Len(heard) /\ crc_state = Reached.state /\ work = Rest
       /\ ~done => NeedsMore(crc_state, work)

LEMMA StreamInvGives == TypeOK /\ StreamInv => StreamMatchesParse
<1> SUFFICES ASSUME TypeOK, StreamInv
             PROVE  LET parsed == ParseBody(heard)
                    IN  /\ parsed.packets = delivered
                        /\ done <=> parsed.status = "ok"
                        /\ done => tail = parsed.tail
  BY DEF StreamMatchesParse
<1> DEFINE n == Len(delivered)
           p == ParseTurns(heard)[n]
           rest == SubSeq(heard, p.pos + 1, Len(heard))
<1>1. /\ heard \in Seq(Byte) /\ n \in 0..(Len(heard) + 1) /\ done \in BOOLEAN
      /\ p.status = "more" /\ p.packets = delivered
  BY DEF TypeOK, StreamInv, Reached
<1>2. CASE done
  <2>1. ReadTail(p.state, rest).ok /\ tail = ReadTail(p.state, rest).tail
    BY <1>2 DEF StreamInv, Reached, Rest
  <2>2. /\ ParseBody(heard).status = "ok" /\ ParseBody(heard).packets = p.packets
        /\ ParseBody(heard).tail = ReadTail(p.state, rest).tail
    <3> HIDE DEF n
    <3> QED  BY <1>1, <2>1, ParseAccepts, ZenonT(60)
  <2> HIDE DEF p, rest
  <2> QED  BY <1>1, <1>2, <2>1, <2>2
<1>3. CASE ~done
  <2>1. ~ReadTail(p.state, rest).ok /\ ~DecodePacket(p.state, rest).ok
    BY <1>3 DEF StreamInv, Reached, Rest
  <2>2. ParseBody(heard).status = "bad" /\ ParseBody(heard).packets = p.packets
    <3> HIDE DEF n
    <3> QED  BY <1>1, <2>1, ParseRejects
  <2> HIDE DEF p, rest
  <2> QED  BY <1>1, <1>3, <2>2
<1> QED  BY <1>2, <1>3

LEMMA StreamStarts ==
  ASSUME heard = <<>>, delivered = <<>>, ~done,
         Locked => byte_offset = 0 /\ crc_state = InitialState /\ work = <<>>
  PROVE  StreamInv
  BY NothingRead, NothingIsNoTail DEF StreamInv, Reached, Rest, NeedsMore

LEMMA StreamRestarts ==
  ASSUME heard' = <<>>, delivered' = <<>>, ~done',
         Locked' => byte_offset' = 0 /\ crc_state' = InitialState /\ work' = <<>>
  PROVE  StreamInv'
  BY NothingRead, NothingIsNoTail DEF StreamInv, Reached, Rest, NeedsMore

(* A step that hears nothing.                                              *)
LEMMA StreamQuiet ==
  ASSUME StreamInv, UNCHANGED <<heard, delivered, done, tail>>,
         Locked' => /\ Locked
                    /\ UNCHANGED <<byte_offset, crc_state, work>>
  PROVE  StreamInv'
<1>1. Reached' = Reached /\ Rest' = Rest
  BY DEF Reached, Rest
<1> QED  BY <1>1 DEF StreamInv

(* Some rests are neither a tail nor a packet: those that need more bytes, *)
(* and those po32_demod_on_byte rejects.                                   *)
LEMMA NeedsMoreIsNeither ==
  ASSUME NEW state \in Word, NEW w \in Seq(Byte), NeedsMore(state, w)
  PROVE  ~ReadTail(state, w).ok /\ ~DecodePacket(state, w).ok
<1>1. CASE w = <<>>
  BY <1>1, NothingIsNoTail
<1>2. CASE Len(w) < 5
  <2>1. ~(Len(w) >= TailBytes) /\ ~(Len(w) >= OverheadBytes)
    BY <1>2, FrameConstants
  <2> QED  BY <2>1, TailMeansMarkers DEF DecodePacket
<1>3. CASE /\ Unwhiten(state, w[1]) # TailMarker1
           /\ HeaderIsKnown(state, w) /\ Len(w) < PacketHeader(state, w).len
  <2>1. ~ReadTail(state, w).ok
    BY <1>3, TailMeansMarkers
  <2>2. ASSUME DecodePacket(state, w).ok PROVE FALSE
    <3> DEFINE len == PacketHeader(state, w).len
    <3>1. ReadPacket(state, w).ok /\ Len(w) >= OverheadBytes
      BY <2>2 DEF DecodePacket
    <3>2. len <= Len(w) /\ len \in Nat
      <4>1. ReadPacket(state, w).len = len /\ ReadPacket(state, w).len \in Nat
            /\ ReadPacket(state, w).len <= Len(w)
        BY <3>1, ReadPacketType
      <4> HIDE DEF len
      <4> QED  BY <4>1
    <3> HIDE DEF len
    <3>3. Len(w) < len /\ Len(w) \in Nat
      BY <1>3 DEF len
    <3> QED  BY <3>2, <3>3
  <2> QED  BY <2>1, <2>2
<1> QED  BY <1>1, <1>2, <1>3, FrameConstants DEF NeedsMore

LEMMA AwaitsMoreIs ==
  ASSUME NEW w, AwaitsMore(w)
  PROVE  NeedsMore(crc_state, w)
  BY DEF AwaitsMore, StartsTail, HeaderFits, NeedsMore

(* A header that is known announces no more than the work buffer holds.    *)
LEMMA KnownFits ==
  ASSUME NEW state \in Word, NEW w \in Seq(Byte), Len(w) >= HeaderBytes,
         HeaderIsKnown(state, w)
  PROVE  /\ PacketHeader(state, w).len \in Nat /\ PacketHeader(state, w).len >= 5
         /\ PacketHeader(state, w).len <= WorkSize
<1> DEFINE len == PacketHeader(state, w).len
           size == len - OverheadBytes
<1>1. len \in OverheadBytes..(OverheadBytes + MaxByte)
  BY PacketHeaderType
<1>2. PayloadLenIsValid(PacketHeader(state, w).tag, size)
  BY DEF HeaderIsKnown
<1> HIDE DEF len
<1>3. len \in Nat /\ len >= 5 /\ size \in Int
  BY <1>1, FrameConstants DEF MaxByte
<1>4. size <= 211
  <2> HIDE DEF size
  <2> QED  BY <1>2, <1>3, KnownLengths
<1>5. len <= WorkSize
  BY <1>3, <1>4, FrameConstants, DemodConstants DEF MaxPacketBytes
<1> QED  BY <1>3, <1>5 DEF len

LEMMA RejectedIsNeither ==
  ASSUME TypeOK, NeedsMore(crc_state, work), NEW byte \in Byte,
         NEW w, w = Append(work, byte),
         ~AwaitsMore(w), ~CompletesTail(w), ~CompletesPacket(w)
  PROVE  ~ReadTail(crc_state, w).ok /\ ~DecodePacket(crc_state, w).ok
<1> DEFINE n == Len(work)
<1>1. /\ crc_state \in Word /\ work \in Seq(Byte) /\ n \in Nat /\ w \in Seq(Byte) /\ Len(w) = n + 1
      /\ \A i \in 1..n : w[i] = work[i]
  <2>1. crc_state \in Word /\ work \in Seq(Byte) /\ n \in Nat
    BY DEF TypeOK
  <2>2. /\ w \in Seq(Byte) /\ Len(w) = n + 1 /\ \A i \in 1..n : w[i] = work[i]
    BY <2>1, AppendAt
  <2> QED  BY <2>1, <2>2
<1>2. n # 0 => w[1] = work[1]
  BY <1>1
<1>3. work = <<>> <=> n = 0
  BY <1>1
<1> HIDE DEF n
<1>4. CASE StartsTail(w)
  <2>1. Unwhiten(crc_state, w[1]) = TailMarker1 /\ ~(Len(w) < TailBytes)
    BY <1>4 DEF StartsTail, AwaitsMore
  <2>2. Len(w) = TailBytes
    <3>1. n < 5
      BY <1>1, <1>2, <1>3, <2>1, FrameConstants DEF NeedsMore, n
    <3> QED  BY <1>1, <2>1, <3>1, FrameConstants
  <2>3. ~ReadTail(crc_state, w).ok
    BY <1>4, <2>2 DEF CompletesTail
  <2>4. ~DecodePacket(crc_state, w).ok
    <3>1. Len(w) >= HeaderBytes
      BY <2>2, FrameConstants
    <3>2. ~HeaderIsKnown(crc_state, w)
      BY <1>1, <2>1, <3>1, KnownIsNoTailStart
    <3> QED  BY <3>2 DEF DecodePacket
  <2> QED  BY <2>3, <2>4
<1>5. CASE ~StartsTail(w)
  <2>1. Unwhiten(crc_state, w[1]) # TailMarker1
    BY <1>5 DEF StartsTail
  <2>2. ~ReadTail(crc_state, w).ok
    BY <1>1, <2>1, TailMeansMarkers
  <2>3. ASSUME DecodePacket(crc_state, w).ok PROVE FALSE
    <3> DEFINE len == PacketHeader(crc_state, w).len
    <3>1. HeaderIsKnown(crc_state, w) /\ Len(w) >= OverheadBytes
      BY <2>3 DEF DecodePacket
    <3>2. Len(w) >= HeaderBytes
      BY <1>1, <3>1, FrameConstants
    <3>3. len \in Nat /\ len >= 5 /\ len <= WorkSize
      BY <1>1, <3>1, <3>2, KnownFits
    <3>4. HeaderFits(w)
      BY <3>1, <3>2, <3>3 DEF HeaderFits
    <3>5. ~(Len(w) < len)
      BY <1>5, <3>4 DEF AwaitsMore
    <3>6. Len(w) # len
      BY <1>5, <2>3, <3>4 DEF CompletesPacket
    <3>7. n < len
      <4>1. CASE n < 3
        BY <1>1, <3>3, <4>1
      <4>2. CASE n >= 3
        <5>1. n # 0 /\ work # <<>> /\ ~(n < 3)
          BY <1>1, <1>3, <4>2
        <5>2. Unwhiten(crc_state, work[1]) # TailMarker1
          BY <1>2, <2>1, <5>1
        <5>3. n < PacketHeader(crc_state, work).len
          BY <5>1, <5>2, FrameConstants DEF NeedsMore, n
        <5>4. PacketHeader(crc_state, work) = PacketHeader(crc_state, w)
          <6>1. SubSeq(w, 1, n) = work
            BY <1>1
          <6>2. HeaderBytes <= n /\ n <= Len(w)
            BY <1>1, <4>2, FrameConstants
          <6>3. PacketHeader(crc_state, SubSeq(w, 1, n)) = PacketHeader(crc_state, w)
            BY <1>1, <6>2, HeaderFromFront
          <6> QED  BY <6>1, <6>3
        <5> QED  BY <5>3, <5>4
      <4> QED  BY <1>1, <4>1, <4>2
    <3> HIDE DEF len
    <3> QED  BY <1>1, <3>3, <3>5, <3>6, <3>7
  <2> QED  BY <2>2, <2>3
<1> QED  BY <1>4, <1>5

(* One byte more: the parser stands where it stood, and what is left for   *)
(* it has grown by the byte.                                               *)
LEMMA RestGrows ==
  ASSUME NEW body \in Seq(Byte), NEW b \in Byte, NEW place \in Nat, place <= Len(body)
  PROVE  SubSeq(Append(body, b), place + 1, Len(Append(body, b))) =
           Append(SubSeq(body, place + 1, Len(body)), b)
<1> DEFINE n    == Len(body)
           long == Append(body, b)
           rest == SubSeq(body, place + 1, n)
           size == n - place
           one  == SubSeq(long, place + 1, n + 1)
           two  == Append(rest, b)
<1>1. n \in Nat /\ size \in Nat /\ place + 1 \in Int /\ n + 1 \in Int
  OBVIOUS
<1>2. /\ long \in Seq(Byte) /\ Len(long) = n + 1
      /\ long[n + 1] = b /\ \A i \in 1..n : long[i] = body[i]
  BY <1>1, AppendAt
<1>3. rest \in Seq(Byte) /\ Len(rest) = size /\ \A i \in 1..size : rest[i] = body[place + i]
  BY <1>1
<1> HIDE DEF long, rest
<1>4. one \in Seq(Byte) /\ Len(one) = size + 1 /\ \A i \in 1..(size + 1) : one[i] = long[place + i]
  BY <1>1, <1>2, SMTT(30)
<1>5. /\ two \in Seq(Byte) /\ Len(two) = size + 1
      /\ two[size + 1] = b /\ \A i \in 1..size : two[i] = rest[i]
  <2> HIDE DEF size
  <2> QED  BY <1>1, <1>3, AppendAt
<1> HIDE DEF one, two
<1>6. ASSUME NEW i \in 1..(size + 1) PROVE one[i] = two[i]
  <2>1. CASE i = size + 1
    <3>1. place + i = n + 1
      BY <1>1, <2>1
    <3> QED  BY <1>2, <1>4, <1>5, <2>1, <3>1
  <2>2. CASE i \in 1..size
    <3>1. place + i \in 1..n
      BY <1>1, <2>2
    <3> QED  BY <1>2, <1>3, <1>4, <1>5, <2>2, <3>1
  <2> QED  BY <1>1, <2>1, <2>2
<1>7. one = two
  <2>1. Len(one) = Len(two) /\ \A i \in 1..Len(one) : one[i] = two[i]
    BY <1>4, <1>5, <1>6
  <2> QED  BY <1>4, <1>5, <2>1, SeqEqual
<1> QED  BY <1>2, <1>7 DEF one, two, long, rest

(* The demodulator and the parser before a byte, and the parser after it.  *)
StreamContext == TypeOK /\ StreamInv /\ Locked /\ ~done

StandsAt(longer, p, w) ==
  /\ longer \in Seq(Byte) /\ w \in Seq(Byte) /\ w # <<>>
  /\ Len(delivered) \in 0..(Len(longer) + 1)
  /\ p.status = "more" /\ p.packets = delivered /\ p.state = crc_state
  /\ p.pos \in Nat /\ p.pos + Len(w) = Len(longer)
  /\ Len(longer) = byte_offset + 1
  /\ SubSeq(longer, p.pos + 1, Len(longer)) = w
  /\ crc_state \in Word

LEMMA OneMoreHeard ==
  ASSUME StreamContext, NEW byte \in Byte,
         NEW w, w = Append(work, byte),
         NEW longer, longer = Append(heard, byte),
         NEW p, p = ParseTurns(longer)[Len(delivered)]
  PROVE  StandsAt(longer, p, w)
<1> DEFINE n == Len(delivered)
<1>1. /\ heard \in Seq(Byte) /\ work \in Seq(Byte) /\ crc_state \in Word
      /\ Len(heard) \in Nat /\ Len(work) \in Nat
  BY DEF StreamContext, TypeOK
<1>2. /\ n \in 0..(Len(heard) + 1)
      /\ Reached.status = "more" /\ Reached.packets = delivered
      /\ byte_offset = Len(heard) /\ crc_state = Reached.state /\ work = Rest
  BY DEF StreamContext, StreamInv
<1>3. Reached = ParseTurns(heard)[n]
  BY DEF Reached
<1>4. longer \in Seq(Byte) /\ Begins(heard, longer) /\ Len(longer) = Len(heard) + 1
  <2>1. longer \in Seq(Byte) /\ Begins(heard, longer)
    BY <1>1, AppendBegins
  <2> QED  BY <1>1, <2>1
<1>5. w \in Seq(Byte) /\ Len(w) = Len(work) + 1 /\ w # <<>>
  BY <1>1
<1>6. n \in 0..(Len(longer) + 1)
  BY <1>1, <1>2, <1>4
<1>7. p = Reached
  <2>1. ParseTurns(heard)[n].status = "more"
    BY <1>2, <1>3
  <2> HIDE DEF n
  <2>2. ParseTurns(longer)[n] = ParseTurns(heard)[n]
    BY <1>1, <1>2, <1>4, <2>1, TurnsKeep
  <2> QED  BY <1>3, <2>2 DEF n
<1>8. Reached.pos \in Nat /\ Reached.pos <= Len(heard)
  <2>1. ParseTurns(heard)[n].status = "more"
    BY <1>2, <1>3
  <2> HIDE DEF n
  <2> QED  BY <1>1, <1>2, <1>3, <2>1, TurnsCount
<1>9. SubSeq(longer, p.pos + 1, Len(longer)) = w
  <2> DEFINE place == Reached.pos
  <2>1. work = SubSeq(heard, place + 1, Len(heard))
    BY <1>2 DEF Rest
  <2> HIDE DEF place
  <2>2. SubSeq(Append(heard, byte), place + 1, Len(Append(heard, byte))) =
          Append(SubSeq(heard, place + 1, Len(heard)), byte)
    BY <1>1, <1>8, RestGrows DEF place
  <2> QED  BY <1>7, <2>1, <2>2 DEF place
<1>10. p.pos + Len(w) = Len(longer)
  <2> DEFINE place == Reached.pos
  <2>1. work = SubSeq(heard, place + 1, Len(heard))
    BY <1>2 DEF Rest
  <2>2. place \in Nat /\ place <= Len(heard)
    BY <1>8
  <2> HIDE DEF place
  <2>3. Len(work) = Len(heard) - place
    BY <1>1, <2>1, <2>2
  <2> QED  BY <1>1, <1>4, <1>5, <1>7, <2>2, <2>3, SMTT(30) DEF place
<1> QED  BY <1>1, <1>2, <1>4, <1>5, <1>6, <1>7, <1>8, <1>9, <1>10 DEF StandsAt

(* A byte that ends no packet: awaited, the last of a tail, or rejected.   *)
LEMMA StreamRests ==
  ASSUME StreamContext, NEW byte \in Byte, heard' = Append(heard, byte),
         byte_offset' = byte_offset + 1, delivered' = delivered,
         NEW w, w = Append(work, byte),
         done' \in BOOLEAN,
         IF done'
         THEN ReadTail(crc_state, w).ok /\ tail' = ReadTail(crc_state, w).tail
         ELSE ~ReadTail(crc_state, w).ok /\ ~DecodePacket(crc_state, w).ok,
         Locked' => crc_state' = crc_state /\ work' = w /\ (~done' => NeedsMore(crc_state, w))
  PROVE  StreamInv'
<1> DEFINE longer == Append(heard, byte)
           p      == ParseTurns(longer)[Len(delivered)]
<1>0. longer = Append(heard, byte) /\ p = ParseTurns(longer)[Len(delivered)]
  OBVIOUS
<1> HIDE DEF longer, p
<1>1. /\ Len(delivered) \in 0..(Len(longer) + 1)
      /\ p.status = "more" /\ p.packets = delivered /\ p.state = crc_state
      /\ Len(longer) = byte_offset + 1
      /\ SubSeq(longer, p.pos + 1, Len(longer)) = w
  BY <1>0, OneMoreHeard DEF StandsAt
<1>2. Reached' = p
  BY <1>0 DEF Reached
<1>3. Rest' = w
  BY <1>0, <1>1, <1>2 DEF Rest
<1>4. Len(delivered') \in 0..(Len(heard') + 1) /\ byte_offset' = Len(heard')
  BY <1>0, <1>1
<1> QED  BY <1>1, <1>2, <1>3, <1>4 DEF StreamInv

(* A byte that ends a packet: the parser takes one more turn.              *)
LEMMA StreamTakesPacket ==
  ASSUME StreamContext, NEW byte \in Byte, heard' = Append(heard, byte),
         byte_offset' = byte_offset + 1,
         NEW w, w = Append(work, byte),
         NEW reply \in Reply, ByteEndsPacket(w, reply)
  PROVE  StreamInv'
<1> DEFINE longer == Append(heard, byte)
           n      == Len(delivered)
           p      == ParseTurns(longer)[n]
           rest   == SubSeq(longer, p.pos + 1, Len(longer))
           pkt    == DecodePacket(crc_state, w)
           q      == ParseTurns(longer)[n + 1]
<1>0. longer = Append(heard, byte) /\ p = ParseTurns(longer)[Len(delivered)]
  OBVIOUS
<1>1. /\ longer \in Seq(Byte) /\ w \in Seq(Byte) /\ n \in 0..(Len(longer) + 1)
      /\ p.status = "more" /\ p.packets = delivered /\ p.state = crc_state
      /\ p.pos \in Nat /\ p.pos + Len(w) = Len(longer) /\ Len(longer) = byte_offset + 1
      /\ rest = w /\ crc_state \in Word
  <2> HIDE DEF longer, p
  <2>1. StandsAt(longer, p, w)
    BY <1>0, OneMoreHeard
  <2> QED  BY <2>1 DEF StandsAt
<1>2. pkt.ok /\ Len(w) = PacketHeader(crc_state, w).len
  BY DEF ByteEndsPacket, CompletesPacket
<1>3. pkt = DecodePacket(p.state, rest) /\ p = ParseTurns(longer)[n]
  <2> HIDE DEF rest
  <2> QED  BY <1>1
<1>4. /\ n + 1 \in 0..(Len(longer) + 1) /\ q.status = "more"
      /\ q.pos = p.pos + pkt.len /\ q.state = pkt.state
      /\ q.packets = Append(p.packets, Parsed(pkt, p.pos))
  <2>1. rest = SubSeq(longer, p.pos + 1, Len(longer))
    OBVIOUS
  <2>2. q = ParseTurns(longer)[n + 1]
    OBVIOUS
  <2> HIDE DEF longer, rest, pkt, n, p, q
  <2>3. n + 1 \in 0..(Len(longer) + 1) /\ Advances(p, ParseTurns(longer)[n + 1], pkt)
    BY <1>1, <1>2, <1>3, <2>1, ParseAdvances
  <2> QED  BY <2>2, <2>3 DEF Advances
<1>5. pkt.len = Len(w)
  <2>1. pkt = ReadPacket(crc_state, w) /\ ReadPacket(crc_state, w).ok
    BY <1>2 DEF DecodePacket
  <2> HIDE DEF pkt
  <2> QED  BY <1>1, <1>2, <2>1, ReadPacketType
<1>6. /\ crc_state' = pkt.state /\ work' = <<>> /\ done' = done /\ tail' = tail
      /\ delivered' = Append(delivered, [tag |-> pkt.tag, payload |-> pkt.payload,
                                         offset |-> PacketStart(w)])
  BY DEF ByteEndsPacket
<1> HIDE DEF longer, rest, pkt, p
<1>7. PacketStart(w) = Len(Preamble) + p.pos
  <2>1. byte_offset \in Nat /\ Len(w) \in Nat
    BY <1>1 DEF StreamContext, TypeOK
  <2> DEFINE place == p.pos
  <2>2. place \in Nat /\ place + Len(w) = byte_offset + 1
    BY <1>1
  <2> HIDE DEF place
  <2>3. PacketStart(w) = Len(Preamble) + place
    BY <2>1, <2>2, FrameConstants DEF PacketStart
  <2> QED  BY <2>3 DEF place
<1>8. delivered' = q.packets
  <2>1. Parsed(pkt, p.pos) = [tag |-> pkt.tag, payload |-> pkt.payload, offset |-> PacketStart(w)]
    BY <1>7 DEF Parsed
  <2> HIDE DEF q
  <2> QED  BY <1>1, <1>4, <1>6, <2>1
<1>9. Len(delivered') = n + 1
  <2>1. delivered \in Seq(Packet)
    BY DEF StreamContext, TypeOK
  <2> DEFINE entry == [tag |-> pkt.tag, payload |-> pkt.payload, offset |-> PacketStart(w)]
  <2> HIDE DEF entry
  <2>2. delivered' = Append(delivered, entry)
    BY <1>6 DEF entry
  <2> QED  BY <2>1, <2>2
<1> HIDE DEF n
<1>10. Reached' = q
  <2>1. heard' = longer
    BY DEF longer
  <2> QED  BY <1>9, <2>1 DEF Reached, q
<1> HIDE DEF q
<1>11. Rest' = <<>>
  <2>1. Len(longer) \in Nat /\ q.pos = Len(longer) /\ heard' = longer
    BY <1>1, <1>4, <1>5, SMTT(30) DEF longer
  <2>2. SubSeq(longer, q.pos + 1, Len(longer)) = <<>>
    BY <1>1, <2>1
  <2> QED  BY <1>10, <2>1, <2>2 DEF Rest
<1>12. ~done'
  BY <1>6 DEF StreamContext
<1>13. Len(delivered') \in 0..(Len(heard') + 1) /\ byte_offset' = Len(heard')
  BY <1>1, <1>4, <1>9 DEF longer
<1> QED
  BY <1>4, <1>6, <1>8, <1>10, <1>11, <1>12, <1>13, NothingIsNoTail DEF StreamInv, NeedsMore

LEMMA StreamByte ==
  ASSUME StreamContext, WorkHasRoom, NEW byte \in Byte, heard' = Append(heard, byte),
         byte_offset' = byte_offset + 1, pushing' = pushing,
         NEW reply \in Reply, OnByte(byte, reply)
  PROVE  StreamInv'
<1> DEFINE w == Append(work, byte)
<1>1. /\ w \in Seq(Byte) /\ crc_state \in Word /\ NeedsMore(crc_state, work)
      /\ done = FALSE /\ TypeOK
  BY DEF StreamContext, StreamInv, TypeOK
<1>2. ByteAwaited(w) \/ ByteEndsTail(w) \/ ByteEndsPacket(w, reply) \/ ByteRejected(w)
  <2>1. ~(Len(work) >= WorkSize)
    BY DemodConstants DEF StreamContext, WorkHasRoom, TypeOK
  <2> QED  BY <2>1 DEF OnByte
<1>3. w = Append(work, byte)
  OBVIOUS
<1> HIDE DEF w
<1>4. CASE ByteAwaited(w)
  <2>1. /\ work' = w /\ done' = FALSE /\ delivered' = delivered /\ crc_state' = crc_state
        /\ AwaitsMore(w)
    BY <1>1, <1>4 DEF ByteAwaited
  <2>2. NeedsMore(crc_state, w)
    BY <2>1, AwaitsMoreIs
  <2>3. ~ReadTail(crc_state, w).ok /\ ~DecodePacket(crc_state, w).ok
    BY <1>1, <2>2, NeedsMoreIsNeither
  <2> QED  BY <1>3, <2>1, <2>2, <2>3, StreamRests
<1>5. CASE ByteEndsTail(w)
  <2>1. /\ work' = w /\ done' = TRUE /\ delivered' = delivered /\ crc_state' = crc_state
        /\ tail' = ReadTail(crc_state, w).tail /\ ReadTail(crc_state, w).ok
    BY <1>5 DEF ByteEndsTail, CompletesTail
  <2> QED  BY <1>3, <2>1, StreamRests
<1>6. CASE ByteEndsPacket(w, reply)
  BY <1>3, <1>6, StreamTakesPacket
<1>7. CASE ByteRejected(w)
  <2>1. /\ done' = FALSE /\ delivered' = delivered /\ synced' = FALSE /\ run_synced' = FALSE
        /\ ~AwaitsMore(w) /\ ~CompletesTail(w) /\ ~CompletesPacket(w)
    BY <1>1, <1>7 DEF ByteRejected, SetSynced
  <2>2. ~ReadTail(crc_state, w).ok /\ ~DecodePacket(crc_state, w).ok
    BY <1>1, <1>3, <2>1, RejectedIsNeither
  <2>3. ~Locked'
    BY <2>1 DEF Locked
  <2> QED  BY <1>3, <2>1, <2>2, <2>3, StreamRests
<1> QED  BY <1>2, <1>4, <1>5, <1>6, <1>7

LEMMA StreamEndByte ==
  ASSUME DemodInv, StreamInv, Locked, ~done, pushing' = pushing,
         NEW bit \in Bit, NEW reply \in Reply, EndByte(bit, reply)
  PROVE  StreamInv'
<1> DEFINE byte == current_byte + bit * Pow2[8]
<1>1. /\ bits_in_byte = 7 /\ byte_offset' = byte_offset + 1
      /\ heard' = Append(heard, byte) /\ OnByte(byte, reply)
  BY DEF EndByte
<1>2. byte \in Byte
  BY <1>1, LastBitFits
<1> HIDE DEF byte
<1> QED  BY <1>1, <1>2, StreamByte DEF StreamContext, DemodInv

LEMMA StreamPreserved == DemodInv /\ StreamInv /\ [Next]_vars => StreamInv'
<1> SUFFICES ASSUME DemodInv, StreamInv, [Next]_vars PROVE StreamInv'
  OBVIOUS
<1>1. ASSUME NEW bit \in Bit, NEW reply \in Reply, PushBit(bit, reply) PROVE StreamInv'
  <2>1. pushing /\ ~done /\ pushing' = pushing
    BY <1>1 DEF PushBit
  <2>2. CASE ~run_synced /\ (FirstWindow \/ Hunt(bit))
    BY <2>1, <2>2, StreamQuiet
       DEF FirstWindow, Hunt, Locked, byteVars, pktVars, history
  <2>3. CASE ~run_synced /\ Acquire(bit)
    BY <2>1, <2>3, StreamRestarts DEF Acquire
  <2>4. CASE run_synced /\ MidByte(bit)
    BY <2>1, <2>4, StreamQuiet DEF MidByte, Locked, pktVars, history
  <2>5. CASE run_synced /\ EndByte(bit, reply)
    BY <2>1, <2>5, StreamEndByte DEF Locked
  <2> QED  BY <1>1, <2>2, <2>3, <2>4, <2>5 DEF PushBit
<1>2. ASSUME NEW bit \in Bit, NEW reply \in Reply, Flush(bit, reply) PROVE StreamInv'
  <2>1. ~pushing /\ ~done /\ synced /\ pushing' = pushing
    BY <1>2 DEF Flush
  <2>2. CASE MidByte(bit)
    BY <2>1, <2>2, StreamQuiet DEF MidByte, Locked, pktVars, history
  <2>3. CASE EndByte(bit, reply)
    BY <2>1, <2>3, StreamEndByte DEF Locked
  <2> QED  BY <1>2, <2>2, <2>3 DEF Flush
<1>3. CASE PushBegin \/ PushEnd \/ UNCHANGED vars
  BY <1>3, StreamQuiet
     DEF PushBegin, PushEnd, vars, Locked, bitVars, byteVars, pktVars, history
<1>4. CASE Desync
  BY <1>4, StreamQuiet DEF Desync, Locked
<1>5. CASE Reinit
  BY <1>5, StreamRestarts DEF Reinit, Locked
<1> QED  BY <1>1, <1>2, <1>3, <1>4, <1>5 DEF Next

-----------------------------------------------------------------------------
(* The inductive invariant.  The properties need its other parts: offsets  *)
(* are typed only if they tile, the tiling extends only while a loss has   *)
(* unlocked the demodulator, and a stop is terminal only because a flush   *)
(* after it cannot complete a byte.                                        *)
THEOREM DemodInvariant == Spec => []DemodInv
<1>1. Init => DemodInv
  BY DemodInitHolds
<1>2. DemodInv /\ [Next]_vars => DemodInv'
  BY DemodStepPreserves
<1> QED  BY <1>1, <1>2, PTL DEF Spec

(* Every field of po32_demodulator_t holds a value of its C type.          *)
THEOREM DemodTypeCorrect == Spec => []TypeOK
<1>1. DemodInv => TypeOK
  BY DEF DemodInv
<1> QED  BY <1>1, DemodInvariant, PTL

(* The offsets handed to the callback (po32.c:1161) tile the bytes         *)
(* received since the last acquisition.                                    *)
THEOREM PacketOffsetsTile == Spec => []OffsetsTile
<1>1. DemodInv => OffsetsTile
  BY DEF DemodInv
<1> QED  BY <1>1, DemodInvariant, PTL

(* The overrun test of po32_demod_on_byte (po32.c:1110) never fires.       *)
THEOREM WorkBufferNeverFills == Spec => []WorkHasRoom
<1>1. DemodInv => WorkHasRoom
  BY DEF DemodInv
<1> QED  BY <1>1, DemodInvariant, PTL

(* The streaming decoder and po32_frame_parse agree on every stream of     *)
(* bytes since an acquisition (po32.c:1105-1178 against po32.c:231-254):   *)
(* the same packets at the same offsets, and the stream is done exactly    *)
(* when the parser finds the tail.                                         *)
THEOREM StreamIsParse == Spec => []StreamMatchesParse
<1>1. Init => StreamInv
  BY StreamStarts DEF Init, Locked
<1>2. DemodInv /\ StreamInv /\ [Next]_vars => StreamInv'
  BY StreamPreserved
<1>3. DemodInv /\ StreamInv => StreamMatchesParse
  BY StreamInvGives DEF DemodInv
<1> QED  BY <1>1, <1>2, <1>3, DemodInvariant, PTL DEF Spec

(* After a callback has asked for a stop (po32.c:1170), nothing is         *)
(* delivered and the flag stays until the demodulator is initialised.      *)
THEOREM StoppedForGood == Spec => StopIsTerminal
<1> DEFINE Kept == stopped => \/ stopped' /\ UNCHANGED <<delivered, packet_count, done, tail>>
                              \/ Reinit
<1>1. DemodInv /\ [Next]_vars => [Kept]_vars
  <2> SUFFICES ASSUME DemodInv, Next, stopped, ~Reinit
               PROVE  stopped' /\ UNCHANGED <<delivered, packet_count, done, tail>>
    OBVIOUS
  <2>1. ASSUME NEW bit \in Bit, NEW reply \in Reply, PushBit(bit, reply) PROVE FALSE
    BY <2>1 DEF PushBit
  <2>2. ASSUME NEW bit \in Bit, NEW reply \in Reply, Flush(bit, reply)
        PROVE  stopped' /\ UNCHANGED <<delivered, packet_count, done, tail>>
    <3>1. MidByte(bit)
      BY <2>2, FlushAfterStop
    <3> QED  BY <3>1 DEF MidByte, pktVars, history
  <2>3. ASSUME PushBegin \/ PushEnd
        PROVE  stopped' /\ UNCHANGED <<delivered, packet_count, done, tail>>
    BY <2>3 DEF PushBegin, PushEnd, pktVars, history
  <2>4. ASSUME Desync
        PROVE  stopped' /\ UNCHANGED <<delivered, packet_count, done, tail>>
    BY <2>4 DEF Desync
  <2> QED  BY <2>1, <2>2, <2>3, <2>4 DEF Next
<1> QED  BY <1>1, DemodInvariant, PTL DEF Spec, StopIsTerminal

(* Once sync is lost (po32.c:1097 and its callers), nothing comes out      *)
(* before the next acquisition.                                            *)
THEOREM SilentAfterLoss == Spec => NothingAfterLoss
<1> DEFINE Kept == lost # "no" /\ lost' # "no" => UNCHANGED <<delivered, done>>
<1>1. DemodInv /\ [Next]_vars => [Kept]_vars
  <2> SUFFICES ASSUME DemodInv, Next, lost # "no", lost' # "no"
               PROVE  UNCHANGED <<delivered, done>>
    OBVIOUS
  <2>1. ~Locked
    BY DEF DemodInv, LossUnlocks
  <2>2. ASSUME NEW bit \in Bit, NEW reply \in Reply, PushBit(bit, reply)
        PROVE  UNCHANGED <<delivered, done>>
    <3>1. FirstWindow \/ Hunt(bit) \/ Acquire(bit)
      BY <2>1, <2>2 DEF PushBit, Locked
    <3> QED  BY <3>1 DEF FirstWindow, Hunt, Acquire, pktVars, history
  <2>3. ASSUME NEW bit \in Bit, NEW reply \in Reply, Flush(bit, reply) PROVE FALSE
    BY <2>1, <2>3 DEF Flush, Locked
  <2>4. ASSUME PushBegin \/ PushEnd PROVE UNCHANGED <<delivered, done>>
    BY <2>4 DEF PushBegin, PushEnd, pktVars, history
  <2>5. ASSUME Desync \/ Reinit PROVE UNCHANGED <<delivered, done>>
    BY <2>5 DEF Desync, Reinit
  <2> QED  BY <2>2, <2>3, <2>4, <2>5 DEF Next
<1> QED  BY <1>1, DemodInvariant, PTL DEF Spec, NothingAfterLoss

-----------------------------------------------------------------------------
(***************************************************************************)
(* The demodulator where it is used: listening to transmissions (Po32Link) *)
(* and inside po32_decode_f32, which files what it hears into a builder    *)
(* (Po32Decode).  Both step only as the demodulator does, so they inherit  *)
(* its theorems; bytes of a transmission that arrive clean are kept; what  *)
(* the decoder reports is true; and the frame it rebuilds follows what the *)
(* demodulator has confirmed.                                              *)
(***************************************************************************)

-----------------------------------------------------------------------------
(* The bytes of a list of packets.                                         *)
Sendable == [tag : Word, payload : Seq(Byte)]

Encoded == [bytes : Seq(Byte), state : Word]

Then(before, pkt) ==
  [bytes |-> before.bytes \o WritePacket(before.state, pkt.tag, pkt.payload).bytes,
   state |-> WritePacket(before.state, pkt.tag, pkt.payload).state]

LEMMA ThenParts ==
  ASSUME NEW before, NEW pkt, NEW w, w = WritePacket(before.state, pkt.tag, pkt.payload)
  PROVE  Then(before, pkt).bytes = before.bytes \o w.bytes /\ Then(before, pkt).state = w.state
  BY DEF Then

LEMMA EncodedRunExists ==
  ASSUME NEW s \in Encoded, NEW n \in Nat, NEW G \in [1..n -> [Encoded -> Encoded]]
  PROVE  \E f \in [0..n -> Encoded] : f[0] = s /\ \A i \in 1..n : f[i] = G[i][f[i-1]]
<1> DEFINE S == Encoded
<1>1. s \in S /\ n \in Nat /\ G \in [1..n -> [S -> S]]
  BY DEF S
<1> HIDE DEF S
<1>2. \E f \in [0..n -> S] : f[0] = s /\ \A i \in 1..n : f[i] = G[i][f[i-1]]
  BY <1>1, RunExists, SMTT(60)
<1> QED  BY <1>2 DEF S

LEMMA ThenType ==
  ASSUME NEW before \in Encoded, NEW pkt \in Sendable, IsReadable(pkt)
  PROVE  Then(before, pkt) \in Encoded /\ Len(pkt.payload) <= 255
<1> DEFINE tag == pkt.tag
           payload == pkt.payload
           w == WritePacket(before.state, tag, payload)
<1>1. before.bytes \in Seq(Byte) /\ before.state \in Word
  BY DEF Encoded
<1>2. tag \in Word /\ payload \in Seq(Byte)
  BY DEF Sendable
<1>3. PayloadLenIsValid(tag, Len(payload))
  BY DEF IsReadable
<1> HIDE DEF tag, payload
<1>4. Len(payload) \in Nat
  BY <1>2
<1>5. Len(payload) <= 255
  BY <1>3, <1>4, KnownLengths
<1>6. w.bytes \in Seq(Byte) /\ w.state \in Word
  BY <1>1, <1>2, <1>5, ReadableDecodes
<1> HIDE DEF w
<1>7. [bytes |-> before.bytes \o w.bytes, state |-> w.state] \in Encoded
  <2> DEFINE more == before.bytes \o w.bytes
  <2>1. more \in Seq(Byte)
    BY <1>1, <1>6, ByteConcat
  <2> HIDE DEF more
  <2>2. [bytes |-> more, state |-> w.state] \in Encoded
    BY <1>6, <2>1 DEF Encoded
  <2> QED  BY <2>2 DEF more
<1> QED  BY <1>5, <1>7 DEF Then, w, tag, payload

LEMMA EncodingIs ==
  ASSUME NEW pkts \in Seq(Sendable), \A i \in 1..Len(pkts) : IsReadable(pkts[i])
  PROVE  LET run == Encoding(pkts)
         IN  /\ run \in [0..Len(pkts) -> Encoded]
             /\ run[0] = [bytes |-> <<>>, state |-> InitialState]
             /\ \A k \in 1..Len(pkts) : run[k] = Then(run[k-1], pkts[k])
<1> DEFINE n == Len(pkts)
           start == [bytes |-> <<>>, state |-> InitialState]
           Def(f) == f = [k \in 0..n |-> IF k = 0 THEN start ELSE Then(f[k-1], pkts[k])]
           F == Encoding(pkts)
           G == [k \in 1..n |-> [q \in Encoded |-> Then(q, pkts[k])]]
<1>1. F = CHOOSE f : Def(f)
  BY DEF Encoding, Then
<1>2. n \in Nat /\ \A k \in 1..n : pkts[k] \in Sendable /\ IsReadable(pkts[k])
  OBVIOUS
<1>3. G \in [1..n -> [Encoded -> Encoded]]
  <2> HIDE DEF n
  <2> QED  BY <1>2, ThenType
<1>s. start \in Encoded
  <2>1. <<>> \in Seq(Byte)
    OBVIOUS
  <2> QED  BY <2>1, FrameConstants DEF Encoded
<1> HIDE DEF start
<1>4. PICK f \in [0..n -> Encoded] : f[0] = start /\ \A k \in 1..n : f[k] = G[k][f[k-1]]
  <2> HIDE DEF G, n
  <2> QED  BY <1>2, <1>3, <1>s, EncodedRunExists, Zenon
<1>5. ASSUME NEW k \in 0..n
      PROVE  f[k] = IF k = 0 THEN start ELSE Then(f[k-1], pkts[k])
  <2>1. CASE k = 0
    BY <1>4, <2>1
  <2>2. CASE k \in 1..n
    <3>1. k - 1 \in 0..n
      BY <1>2, <2>2
    <3>2. f[k-1] \in Encoded
      BY <3>1
    <3>3. G[k][f[k-1]] = Then(f[k-1], pkts[k])
      BY <2>2, <3>2
    <3> QED  BY <1>4, <2>2, <3>3
  <2> QED  BY <1>2, <2>1, <2>2
<1>6. Def(f)
  BY <1>4, <1>5
<1>7. Def(F)
  <2> HIDE DEF Def, F
  <2> QED  BY <1>1, <1>6
<1>8. F[0] = start /\ \A k \in 1..n : F[k] = Then(F[k-1], pkts[k])
  <2>1. 0 \in 0..n /\ \A k \in 1..n : k \in 0..n /\ k # 0
    BY <1>2
  <2> HIDE DEF F, n
  <2>2. \A k \in 0..n : F[k] = IF k = 0 THEN start ELSE Then(F[k-1], pkts[k])
    BY <1>7, Zenon
  <2> QED  BY <2>1, <2>2
<1>9. \A k \in 0..n : F[k] \in Encoded
  <2>1. \A k \in 1..n : F[k-1] \in Encoded => F[k] \in Encoded
    BY <1>2, <1>8, ThenType
  <2> HIDE DEF F, n
  <2> QED  BY <1>2, <1>8, <1>s, <2>1, RunStaysIn
<1> QED  BY <1>7, <1>8, <1>9 DEF start

-----------------------------------------------------------------------------
(* The recording consists of bits.                                         *)
LEMMA BodyType ==
  ASSUME NEW k \in 1..Len(Broadcast)
  PROVE  /\ Broadcast[k] \in Seq(Sendable)
         /\ \A i \in 1..Len(Broadcast[k]) : IsReadable(Broadcast[k][i])
         /\ Body[k] \in Seq(Byte)
<1> DEFINE pkts == Broadcast[k]
           all  == Encoding(pkts)[Len(pkts)]
<1>1. pkts \in Seq(Sendable) /\ \A i \in 1..Len(pkts) : IsReadable(pkts[i])
  <2>1. Broadcast \in Seq(Seq(Sendable))
    BY BroadcastAssumption DEF Sendable
  <2> HIDE DEF Sendable
  <2>2. pkts \in Seq(Sendable)
    BY <2>1
  <2> QED  BY <2>2, BroadcastAssumption
<1>2. all \in Encoded
  <2> HIDE DEF pkts
  <2>1. Len(pkts) \in 0..Len(pkts)
    BY <1>1
  <2> QED  BY <1>1, <2>1, EncodingIs
<1> HIDE DEF all
<1>3. all.bytes \in Seq(Byte) /\ all.state \in Word
  BY <1>2 DEF Encoded
<1>4. all.bytes \o WriteTail(all.state).bytes \in Seq(Byte)
  <2> DEFINE last == WriteTail(all.state).bytes
             front == all.bytes
  <2>1. last \in Seq(Byte) /\ front \in Seq(Byte)
    BY <1>3, WriteTailType
  <2> HIDE DEF last, front
  <2>2. front \o last \in Seq(Byte)
    BY <2>1, ByteConcat
  <2> QED  BY <2>2 DEF last, front
<1>5. Body[k] = all.bytes \o WriteTail(all.state).bytes
  BY DEF Body, EncodeBody, all, pkts
<1> QED  BY <1>1, <1>4, <1>5 DEF pkts

LEMMA BitOfType ==
  ASSUME NEW b \in Byte, NEW i \in 0..7
  PROVE  BitOf(b, i) \in Bit
<1>1. i + 1 \in 1..8 /\ b \in Int
  BY ByteIs
<1>2. Pow2[i + 1] \in Nat /\ Pow2[i + 1] >= 1
  BY <1>1, Pow2Values, ZenonT(60)
<1> DEFINE d == Pow2[i + 1]
           x == b \div d
<1> HIDE DEF d
<1>3. x \in Int
  BY <1>1, <1>2 DEF d
<1> HIDE DEF x
<1>4. x % 2 \in {0, 1}
  BY <1>3
<1> QED  BY <1>4 DEF BitOf, Bit, x, d

LEMMA FrameBitsType ==
  ASSUME NEW bytes \in Seq(Byte)
  PROVE  FrameBits(bytes) \in Seq(Bit)
<1> DEFINE n == Len(bytes)
           Place(i) == ((i - 1) \div 8) + 1
           Bits(i) == BitOf(bytes[Place(i)], (i - 1) % 8)
<1>1. n \in Nat /\ 8 * n \in Nat
  OBVIOUS
<1>2. ASSUME NEW i \in 1..(8 * n) PROVE Bits(i) \in Bit
  <2>1. Place(i) \in 1..n /\ (i - 1) % 8 \in 0..7
    BY <1>1
  <2>2. bytes[Place(i)] \in Byte
    <3> HIDE DEF Place
    <3> QED  BY <2>1
  <2> HIDE DEF Place
  <2> QED  BY <2>1, <2>2, BitOfType
<1> HIDE DEF Bits, n, Bit
<1>3. [i \in 1..(8 * n) |-> Bits(i)] \in Seq(Bit)
  BY <1>1, <1>2
<1> QED  BY <1>3 DEF FrameBits, Bits, n

Bits == Seq(Bit)

LEMMA BitsRunExists ==
  ASSUME NEW s \in Bits, NEW n \in Nat, NEW G \in [1..n -> [Bits -> Bits]]
  PROVE  \E f \in [0..n -> Bits] : f[0] = s /\ \A i \in 1..n : f[i] = G[i][f[i-1]]
<1> DEFINE S == Bits
<1>1. s \in S /\ n \in Nat /\ G \in [1..n -> [S -> S]]
  BY DEF S
<1> HIDE DEF S
<1>2. \E f \in [0..n -> S] : f[0] = s /\ \A i \in 1..n : f[i] = G[i][f[i-1]]
  BY <1>1, RunExists, SMTT(60)
<1> QED  BY <1>2 DEF S

LEMMA RecordingType == Recording \in Bits
<1> DEFINE n == Len(Broadcast)
           Part(k) == FrameBits(Preamble \o Body[k])
           Def(f) == f = [k \in 0..n |-> IF k = 0 THEN <<>> ELSE f[k-1] \o Part(k)]
           F == RecordedUpTo
           G == [k \in 1..n |-> [q \in Bits |-> q \o Part(k)]]
<1>1. F = CHOOSE f : Def(f)
  BY DEF RecordedUpTo
<1>2. n \in Nat
  BY BroadcastAssumption
<1>3. ASSUME NEW k \in 1..n PROVE Part(k) \in Bits
  <2> DEFINE one == Body[k]
             both == Preamble \o one
  <2>1. one \in Seq(Byte)
    BY BodyType
  <2> HIDE DEF one
  <2>2. both \in Seq(Byte)
    BY <2>1, PreambleAssumption, ByteConcat
  <2> HIDE DEF both
  <2>3. FrameBits(both) \in Bits
    BY <2>2, FrameBitsType DEF Bits
  <2> QED  BY <2>3 DEF both, one
<1> HIDE DEF Part, n
<1>4. ASSUME NEW k \in 1..n, NEW q \in Bits PROVE q \o Part(k) \in Bits
  <2> DEFINE more == Part(k)
  <2>1. more \in Bits
    BY <1>3
  <2> HIDE DEF more
  <2>2. q \o more \in Bits
    BY <2>1 DEF Bits
  <2> QED  BY <2>2 DEF more
<1>5. G \in [1..n -> [Bits -> Bits]]
  BY <1>4
<1>6. <<>> \in Bits
  BY DEF Bits
<1>7. PICK f \in [0..n -> Bits] : f[0] = <<>> /\ \A k \in 1..n : f[k] = G[k][f[k-1]]
  <2> HIDE DEF G
  <2> QED  BY <1>2, <1>5, <1>6, BitsRunExists
<1>8. ASSUME NEW k \in 0..n
      PROVE  f[k] = IF k = 0 THEN <<>> ELSE f[k-1] \o Part(k)
  <2>1. CASE k = 0
    BY <1>7, <2>1
  <2>2. CASE k \in 1..n
    <3>1. k - 1 \in 0..n
      BY <1>2, <2>2
    <3>2. f[k-1] \in Bits
      BY <3>1
    <3>3. G[k][f[k-1]] = f[k-1] \o Part(k)
      BY <2>2, <3>2
    <3> HIDE DEF G
    <3> QED  BY <1>7, <2>2, <3>3
  <2> QED  BY <1>2, <2>1, <2>2
<1>9. Def(f)
  BY <1>7, <1>8
<1>10. Def(F)
  <2> HIDE DEF Def, F
  <2> QED  BY <1>1, <1>9
<1>11. F[0] = <<>> /\ \A k \in 1..n : F[k] = F[k-1] \o Part(k)
  <2>1. 0 \in 0..n /\ \A k \in 1..n : k \in 0..n /\ k # 0
    BY <1>2
  <2> HIDE DEF F
  <2>2. \A k \in 0..n : F[k] = IF k = 0 THEN <<>> ELSE F[k-1] \o Part(k)
    BY <1>10, Zenon
  <2> QED  BY <2>1, <2>2
<1>12. \A k \in 0..n : F[k] \in Bits
  <2>1. \A k \in 1..n : F[k-1] \in Bits => F[k] \in Bits
    <3> HIDE DEF F
    <3> QED  BY <1>4, <1>11
  <2> HIDE DEF F
  <2> QED  BY <1>2, <1>6, <1>11, <2>1, RunStaysIn
<1>13. n \in 0..n
  BY <1>2
<1> QED  BY <1>12, <1>13 DEF Recording, n

-----------------------------------------------------------------------------
(* The parser on a body that is written packet by packet.                  *)
AtEnd(body, n, state) ==
  LET p == ParseTurns(body)[n]
  IN  n \in 0..(Len(body) + 1) /\ p.status = "more" /\ p.state = state /\ p.pos = Len(body)

LEMMA NothingYet == AtEnd(<<>>, 0, InitialState)
<1> DEFINE e == <<>>
           p == ParseTurns(e)[0]
<1>1. e \in Seq(Byte) /\ Len(e) = 0
  OBVIOUS
<1> HIDE DEF e, p
<1>2. p = ParseStart /\ 0 \in 0..(Len(e) + 1)
  BY <1>1, NothingParsed DEF p
<1>3. p.status = "more" /\ p.state = InitialState /\ p.pos = Len(e)
  BY <1>1, <1>2 DEF ParseStart
<1>4. AtEnd(e, 0, InitialState)
  BY <1>2, <1>3 DEF AtEnd, p
<1> QED  BY <1>4 DEF e

LEMMA ReadsOn ==
  ASSUME NEW body \in Seq(Byte), NEW n \in Nat, NEW state \in Word, AtEnd(body, n, state),
         NEW tag \in Word, NEW payload \in Seq(Byte), PayloadLenIsValid(tag, Len(payload)),
         NEW w, w = WritePacket(state, tag, payload)
  PROVE  AtEnd(body \o w.bytes, n + 1, w.state)
<1> DEFINE p    == ParseTurns(body)[n]
           long == body \o w.bytes
           got  == SubSeq(long, p.pos + 1, Len(long))
           read == DecodePacket(p.state, got)
           q    == ParseTurns(long)[n + 1]
<1>1. /\ n \in 0..(Len(body) + 1) /\ p.status = "more" /\ p.state = state /\ p.pos = Len(body)
  BY DEF AtEnd
<1>2. Len(payload) <= 255
  <2>1. Len(payload) \in Int
    OBVIOUS
  <2> QED  BY <2>1, KnownLengths
<1>3. /\ w.bytes \in Seq(Byte) /\ Len(w.bytes) = 5 + Len(payload) /\ w.state \in Word
      /\ DecodePacket(state, w.bytes) =
           [ok |-> TRUE, tag |-> tag, payload |-> payload,
            len |-> OverheadBytes + Len(payload), state |-> w.state]
  BY <1>2, ReadableDecodes
<1>4. p = ParseTurns(body)[n]
  OBVIOUS
<1> HIDE DEF p
<1>5. /\ long \in Seq(Byte) /\ n \in 0..(Len(long) + 1) /\ ParseTurns(long)[n] = p
      /\ got = SubSeq(body, p.pos + 1, Len(body)) \o w.bytes
  <2>1. Undisturbed(body, w.bytes, n, p)
    BY <1>1, <1>3, <1>4, StillThere
  <2> QED  BY <2>1 DEF Undisturbed
<1>6. got = w.bytes
  <2> DEFINE size == Len(body)
  <2>1. size \in Nat /\ p.pos = size
    BY <1>1
  <2> HIDE DEF size
  <2>2. SubSeq(body, size + 1, size) = <<>>
    BY <2>1
  <2>3. got = <<>> \o w.bytes
    BY <1>5, <2>1, <2>2 DEF size
  <2> HIDE DEF got
  <2> QED  BY <1>3, <2>3
<1>7. read.ok = TRUE /\ read.len = Len(w.bytes) /\ read.state = w.state
  <2>1. read = DecodePacket(state, w.bytes)
    BY <1>1, <1>6
  <2> HIDE DEF read
  <2> QED  BY <1>3, <2>1, FrameConstants
<1>8. n + 1 \in 0..(Len(long) + 1) /\ Advances(p, q, read)
  <2>1. got = SubSeq(long, p.pos + 1, Len(long)) /\ read = DecodePacket(p.state, got)
    OBVIOUS
  <2> HIDE DEF long, got, read
  <2> QED  BY <1>1, <1>5, <1>7, <2>1, ParseAdvances
<1> HIDE DEF read, q
<1>9. q.status = "more" /\ q.pos = Len(long) /\ q.state = w.state
  <2>1. Len(long) = Len(body) + Len(w.bytes)
    BY <1>3, ByteConcat
  <2> HIDE DEF long
  <2> QED  BY <1>1, <1>7, <1>8, <2>1 DEF Advances
<1> QED  BY <1>8, <1>9 DEF AtEnd, q, long

(* A parser that has stopped has stopped for good. *)
LEMMA MoreBefore ==
  ASSUME NEW body \in Seq(Byte), NEW i \in 0..(Len(body) + 1), NEW j \in 0..(Len(body) + 1),
         i <= j, ParseTurns(body)[j].status = "more"
  PROVE  ParseTurns(body)[i].status = "more"
<1> DEFINE run == ParseTurns(body)
           m   == j - i
           T   == { k \in 0..m : run[i + k].status # "more" }
<1> SUFFICES ASSUME run[i].status # "more" PROVE FALSE
  OBVIOUS
<1>1. Len(body) \in Nat /\ i \in Nat /\ j \in Nat /\ m \in Nat
  OBVIOUS
<1>2. \A k \in 1..(Len(body) + 1) : run[k] = ParseStep(body, run[k-1])
  BY TurnsType
<1> HIDE DEF run
<1>3. 0 \in T
  BY <1>1
<1>4. ASSUME NEW k \in 1..m, k - 1 \in T PROVE k \in T
  <2> DEFINE c == i + k
  <2>1. c \in 1..(Len(body) + 1) /\ c - 1 = i + (k - 1) /\ k \in 0..m
    BY <1>1
  <2> HIDE DEF c
  <2>2. run[c - 1].status # "more"
    BY <1>4, <2>1
  <2>3. run[c] = ParseStep(body, run[c - 1])
    BY <1>2, <2>1
  <2>4. run[c].status # "more"
    BY <2>2, <2>3, TurnWhenSettled
  <2> QED  BY <2>1, <2>4 DEF c
<1>5. m \in T
  <2> HIDE DEF T, m
  <2>1. 0..m \subseteq T
    BY <1>1, <1>3, <1>4, InductionUpTo
  <2> QED  BY <1>1, <2>1
<1>6. i + m = j
  BY <1>1
<1> HIDE DEF m
<1> QED  BY <1>5, <1>6 DEF run

(* The bytes of the first packets of a list, and the rest of its body.     *)
LEMMA PrefixesRead ==
  ASSUME NEW pkts \in Seq(Sendable), \A i \in 1..Len(pkts) : IsReadable(pkts[i]),
         NEW i \in 0..Len(pkts)
  PROVE  LET e == Encoding(pkts)[i]
         IN  e.bytes \in Seq(Byte) /\ e.state \in Word /\ AtEnd(e.bytes, i, e.state)
<1> DEFINE n == Len(pkts)
           run == Encoding(pkts)
           T == { k \in 0..n : AtEnd(run[k].bytes, k, run[k].state) }
<1>1. n \in Nat /\ \A k \in 1..n : pkts[k] \in Sendable /\ IsReadable(pkts[k])
  OBVIOUS
<1>2. /\ run \in [0..n -> Encoded] /\ run[0] = [bytes |-> <<>>, state |-> InitialState]
      /\ \A k \in 1..n : run[k] = Then(run[k-1], pkts[k])
  BY EncodingIs
<1> HIDE DEF run, n
<1>3. \A k \in 0..n : run[k].bytes \in Seq(Byte) /\ run[k].state \in Word
  BY <1>2 DEF Encoded
<1>4. 0 \in T
  <2>1. run[0].bytes = <<>> /\ run[0].state = InitialState
    BY <1>2
  <2> QED  BY <1>1, <2>1, NothingYet
<1>5. ASSUME NEW k \in 1..n, k - 1 \in T PROVE k \in T
  <2> DEFINE b == run[k-1]
             pkt == pkts[k]
             w == WritePacket(b.state, pkt.tag, pkt.payload)
             m == k - 1
  <2>1. m \in 0..n /\ m \in Nat /\ m + 1 = k /\ AtEnd(b.bytes, m, b.state)
    BY <1>1, <1>5
  <2>2. b.bytes \in Seq(Byte) /\ b.state \in Word
    BY <1>3, <2>1
  <2>3. pkt.tag \in Word /\ pkt.payload \in Seq(Byte) /\ PayloadLenIsValid(pkt.tag, Len(pkt.payload))
    BY <1>1 DEF Sendable, IsReadable
  <2>4. run[k].bytes = b.bytes \o w.bytes /\ run[k].state = w.state
    <3>1. run[k] = Then(b, pkt) /\ w = WritePacket(b.state, pkt.tag, pkt.payload)
      BY <1>2
    <3> HIDE DEF b, pkt, m, w
    <3>2. /\ Then(b, pkt).bytes = b.bytes \o w.bytes
          /\ Then(b, pkt).state = w.state
      BY <3>1, ThenParts, ZenonT(30)
    <3> QED  BY <3>1, <3>2
  <2> HIDE DEF b, m
  <2> DEFINE tag == pkt.tag
             payload == pkt.payload
  <2>5. w = WritePacket(b.state, tag, payload)
    OBVIOUS
  <2> HIDE DEF pkt, w, tag, payload
  <2>6. AtEnd(b.bytes \o w.bytes, m + 1, w.state)
    BY <2>1, <2>2, <2>3, <2>5, ReadsOn DEF tag, payload
  <2>7. AtEnd(run[k].bytes, k, run[k].state)
    BY <2>1, <2>4, <2>6
  <2> QED  BY <1>1, <2>7
<1>6. 0..n \subseteq T
  <2> HIDE DEF T
  <2> QED  BY <1>1, <1>4, <1>5, InductionUpTo
<1>7. AtEnd(run[i].bytes, i, run[i].state)
  BY <1>6 DEF n
<1> QED  BY <1>3, <1>7 DEF run, n

LEMMA PrefixesBegin ==
  ASSUME NEW pkts \in Seq(Sendable), \A i \in 1..Len(pkts) : IsReadable(pkts[i]),
         NEW i \in 0..Len(pkts)
  PROVE  Begins(Encoding(pkts)[i].bytes, Encoding(pkts)[Len(pkts)].bytes)
<1> DEFINE n == Len(pkts)
           run == Encoding(pkts)
           T == { k \in 0..n : \A j \in 0..k : Begins(run[j].bytes, run[k].bytes) }
<1>1. n \in Nat /\ \A k \in 1..n : pkts[k] \in Sendable /\ IsReadable(pkts[k])
  OBVIOUS
<1>2. /\ run \in [0..n -> Encoded] /\ \A k \in 1..n : run[k] = Then(run[k-1], pkts[k])
  BY EncodingIs
<1> HIDE DEF run, n
<1>3. \A k \in 0..n : run[k].bytes \in Seq(Byte) /\ run[k].state \in Word
  BY <1>2 DEF Encoded
<1>r. ASSUME NEW k \in 0..n PROVE Begins(run[k].bytes, run[k].bytes)
  <2> DEFINE s == run[k].bytes
  <2>1. s \in Seq(Byte)
    BY <1>3
  <2> HIDE DEF s
  <2>2. Begins(s, s)
    BY <2>1 DEF Begins
  <2> QED  BY <2>2 DEF s
<1>4. 0 \in T
  BY <1>1, <1>r
<1>5. ASSUME NEW k \in 1..n, k - 1 \in T PROVE k \in T
  <2> DEFINE m == k - 1
             b == run[m]
             pkt == pkts[k]
             w == WritePacket(b.state, pkt.tag, pkt.payload)
  <2>1. m \in 0..n /\ k \in 0..n /\ m + 1 = k /\ \A j \in 0..m : Begins(run[j].bytes, b.bytes)
    BY <1>1, <1>5
  <2>2. b.bytes \in Seq(Byte) /\ b.state \in Word /\ b \in Encoded
    BY <1>2, <1>3, <2>1
  <2>3. run[k].bytes = b.bytes \o w.bytes
    <3>1. run[k] = Then(b, pkt) /\ w = WritePacket(b.state, pkt.tag, pkt.payload)
      BY <1>2
    <3> HIDE DEF b, pkt, m, w
    <3>2. /\ Then(b, pkt).bytes = b.bytes \o w.bytes
          /\ Then(b, pkt).state = w.state
      BY <3>1, ThenParts, ZenonT(30)
    <3> QED  BY <3>1, <3>2
  <2>4. w.bytes \in Seq(Byte)
    <3>1. pkt.tag \in Word /\ pkt.payload \in Seq(Byte) /\ Len(pkt.payload) <= 255
      <4>1. pkt \in Sendable /\ IsReadable(pkt)
        BY <1>1
      <4> HIDE DEF pkt, b
      <4>2. Len(pkt.payload) <= 255
        BY <2>2, <4>1, ThenType
      <4> QED  BY <4>1, <4>2 DEF Sendable
    <3> DEFINE tag == pkt.tag
               payload == pkt.payload
    <3>2. w = WritePacket(b.state, tag, payload)
      OBVIOUS
    <3> HIDE DEF w, pkt, b, tag, payload
    <3> QED  BY <2>2, <3>1, <3>2, ReadableDecodes DEF tag, payload
  <2> HIDE DEF w, b
  <2>5. Begins(b.bytes, run[k].bytes)
    <3> DEFINE one == b.bytes
               two == w.bytes
    <3>1. one \in Seq(Byte) /\ two \in Seq(Byte)
      BY <2>2, <2>4
    <3> HIDE DEF one, two
    <3>2. Begins(one, one \o two)
      BY <3>1, ConcatBegins
    <3> QED  BY <2>3, <3>2 DEF one, two
  <2>6. ASSUME NEW j \in 0..k PROVE Begins(run[j].bytes, run[k].bytes)
    <3>1. CASE j = k
      BY <1>r, <2>1, <3>1
    <3>2. CASE j # k
      <4>1. j \in 0..m /\ j \in 0..n
        BY <1>1, <2>1, <3>2
      <4> DEFINE one == run[j].bytes
                 two == b.bytes
                 three == run[k].bytes
      <4>2. one \in Seq(Byte) /\ two \in Seq(Byte) /\ three \in Seq(Byte)
        BY <1>3, <2>1, <2>2, <4>1
      <4>3. Begins(one, two) /\ Begins(two, three)
        BY <2>1, <2>5, <4>1
      <4> HIDE DEF one, two, three
      <4>4. Begins(one, three)
        BY <4>2, <4>3, BeginsBegins
      <4> QED  BY <4>4 DEF one, three
    <3> QED  BY <3>1, <3>2
  <2> QED  BY <2>1, <2>6
<1>6. 0..n \subseteq T
  <2> HIDE DEF T
  <2> QED  BY <1>1, <1>4, <1>5, InductionUpTo
<1>7. n \in 0..n
  BY <1>1
<1>8. Begins(run[i].bytes, run[n].bytes)
  BY <1>6, <1>7 DEF n
<1> QED  BY <1>8 DEF run, n

(* While the parser has read i packets of a body, what follows is the      *)
(* next packet, or the tail.                                               *)
Ahead(pkts, i, p, rest) ==
  /\ p.status = "more" /\ p.state \in Word /\ rest \in Seq(Byte)
  /\ i = Len(pkts) => rest = WriteTail(p.state).bytes
  /\ i < Len(pkts) =>
       Begins(WritePacket(p.state, pkts[i+1].tag, pkts[i+1].payload).bytes, rest)

LEMMA RestAt ==
  ASSUME NEW body \in Seq(Byte), NEW from \in Nat, from <= Len(body),
         NEW rest, rest = SubSeq(body, from + 1, Len(body))
  PROVE  /\ rest \in Seq(Byte) /\ Len(rest) = Len(body) - from
         /\ \A j \in 1..(Len(body) - from) : rest[j] = body[from + j]
  OBVIOUS

LEMMA BodyParts ==
  ASSUME NEW pkts \in Seq(Sendable), \A i \in 1..Len(pkts) : IsReadable(pkts[i]),
         NEW e, e = Encoding(pkts)[Len(pkts)],
         NEW t, t = WriteTail(e.state).bytes
  PROVE  /\ EncodeBody(pkts) = e.bytes \o t /\ EncodeBody(pkts) \in Seq(Byte)
         /\ e.bytes \in Seq(Byte) /\ e.state \in Word /\ t \in Seq(Byte)
<1>1. Len(pkts) \in 0..Len(pkts)
  OBVIOUS
<1>2. e.bytes \in Seq(Byte) /\ e.state \in Word
  BY <1>1, PrefixesRead
<1>3. t \in Seq(Byte)
  BY <1>2, WriteTailType
<1>4. EncodeBody(pkts) = e.bytes \o t
  BY DEF EncodeBody
<1> DEFINE front == e.bytes
<1>5. front \in Seq(Byte) /\ EncodeBody(pkts) = front \o t
  BY <1>2, <1>4
<1> HIDE DEF front
<1>6. front \o t \in Seq(Byte)
  BY <1>3, <1>5, ByteConcat
<1> QED  BY <1>2, <1>3, <1>4, <1>5, <1>6

LEMMA BodyAhead ==
  ASSUME NEW pkts \in Seq(Sendable), \A i \in 1..Len(pkts) : IsReadable(pkts[i]),
         NEW i \in 0..Len(pkts),
         NEW body, body = EncodeBody(pkts),
         NEW p, p = ParseTurns(body)[i],
         NEW rest, rest = SubSeq(body, p.pos + 1, Len(body))
  PROVE  i \in 0..(Len(body) + 1) /\ Ahead(pkts, i, p, rest)
<1> DEFINE n     == Len(pkts)
           run   == Encoding(pkts)
           here  == run[i].bytes
           state == run[i].state
           last  == run[n].bytes
           t     == WriteTail(run[n].state).bytes
           size  == Len(here)
<1>1. n \in Nat /\ i \in 0..n /\ \A k \in 1..n : pkts[k] \in Sendable /\ IsReadable(pkts[k])
  OBVIOUS
<1>2. here \in Seq(Byte) /\ state \in Word /\ AtEnd(here, i, state)
  BY PrefixesRead
<1>3. body = last \o t /\ body \in Seq(Byte) /\ last \in Seq(Byte) /\ t \in Seq(Byte)
  <2> DEFINE e == run[n]
  <2>1. e = Encoding(pkts)[Len(pkts)] /\ t = WriteTail(e.state).bytes
    OBVIOUS
  <2>2. /\ EncodeBody(pkts) = e.bytes \o t /\ EncodeBody(pkts) \in Seq(Byte)
        /\ e.bytes \in Seq(Byte) /\ t \in Seq(Byte)
    <3> HIDE DEF e, t
    <3> QED  BY <2>1, BodyParts
  <2> QED  BY <2>2
<1>4. Begins(here, last)
  BY PrefixesBegin
<1>w. ASSUME i < n
      PROVE  LET w == WritePacket(state, pkts[i+1].tag, pkts[i+1].payload)
             IN  w.bytes \in Seq(Byte) /\ run[i+1].bytes = here \o w.bytes
                 /\ Begins(run[i+1].bytes, last)
  <2> DEFINE pkt == pkts[i+1]
             tag == pkt.tag
             payload == pkt.payload
             w == WritePacket(state, tag, payload)
             k == i + 1
  <2>1. k \in 1..n /\ k \in 0..n /\ k - 1 = i
    BY <1>1, <1>w
  <2>2. tag \in Word /\ payload \in Seq(Byte) /\ PayloadLenIsValid(tag, Len(payload))
    BY <1>1, <2>1 DEF Sendable, IsReadable
  <2>3. run[k] = Then(run[i], pkt)
    <3>1. run[k] = Then(run[k-1], pkts[k])
      BY <2>1, EncodingIs
    <3> QED  BY <2>1, <3>1
  <2>4. Begins(run[k].bytes, last)
    <3> HIDE DEF k
    <3> QED  BY <2>1, PrefixesBegin
  <2>5. w.bytes \in Seq(Byte)
    <3>1. Len(payload) \in Int
      BY <2>2
    <3>2. w = WritePacket(state, tag, payload)
      OBVIOUS
    <3> HIDE DEF w, tag, payload, state
    <3>3. Len(payload) <= 255
      BY <2>2, <3>1, KnownLengths
    <3> QED  BY <1>2, <2>2, <3>2, <3>3, ReadableDecodes
  <2>6. run[k].bytes = here \o w.bytes
    <3> DEFINE b == run[i]
    <3>1. w = WritePacket(b.state, pkt.tag, pkt.payload)
      OBVIOUS
    <3> HIDE DEF b, pkt, w
    <3>2. Then(b, pkt).bytes = b.bytes \o w.bytes
      BY <3>1, ThenParts
    <3> HIDE DEF run
    <3> QED  BY <2>3, <3>2 DEF b
  <2> QED  BY <2>4, <2>5, <2>6
<1> HIDE DEF run, here, state, last, t
<1>5. Begins(last, body)
  BY <1>3, ConcatBegins
<1>6. Begins(here, body)
  BY <1>2, <1>3, <1>4, <1>5, BeginsBegins
<1>7. /\ i \in 0..(size + 1) /\ ParseTurns(here)[i].status = "more"
      /\ ParseTurns(here)[i].state = state /\ ParseTurns(here)[i].pos = size
  BY <1>2 DEF AtEnd
<1>8. p = ParseTurns(here)[i]
  BY <1>2, <1>3, <1>6, <1>7, TurnsKeep
<1>9. p.status = "more" /\ p.state = state /\ p.pos = size
  BY <1>7, <1>8
<1>10. size \in Nat /\ Len(body) \in Nat /\ size <= Len(body)
  BY <1>2, <1>3, <1>6 DEF Begins
<1>11. rest = SubSeq(body, size + 1, Len(body))
  BY <1>9
<1>12. /\ rest \in Seq(Byte) /\ Len(rest) = Len(body) - size
       /\ \A j \in 1..(Len(body) - size) : rest[j] = body[size + j]
  <2> HIDE DEF size
  <2> QED  BY <1>3, <1>10, <1>11, RestAt, ZenonT(90)
<1>13. ASSUME i = n PROVE rest = t
  <2>1. here = last
    BY <1>13 DEF here, last
  <2>2. SubSeq(last \o t, Len(last) + 1, Len(last) + Len(t)) = t
    BY <1>3, ConcatParts
  <2>3. Len(body) = Len(last) + Len(t)
    BY <1>3, ByteConcat
  <2> QED  BY <1>3, <1>11, <2>1, <2>2, <2>3
<1>14. ASSUME i < n
       PROVE  Begins(WritePacket(state, pkts[i+1].tag, pkts[i+1].payload).bytes, rest)
  <2> DEFINE w == WritePacket(state, pkts[i+1].tag, pkts[i+1].payload).bytes
             front == run[i+1].bytes
             m == Len(w)
  <2>1. w \in Seq(Byte) /\ front = here \o w /\ Begins(front, last)
    BY <1>14, <1>w
  <2> HIDE DEF w, front
  <2>2. front \in Seq(Byte) /\ Len(front) = size + m /\ m \in Nat
    BY <1>2, <2>1, ByteConcat
  <2>3. Begins(front, body)
    BY <1>3, <1>5, <2>1, <2>2, BeginsBegins
  <2>4. \A j \in 1..m : front[size + j] = w[j]
    BY <1>2, <2>1, ConcatAt
  <2>5. size + m <= Len(body) /\ \A j \in 1..(size + m) : body[j] = front[j]
    BY <2>2, <2>3 DEF Begins
  <2> HIDE DEF m, size
  <2>6. m <= Len(rest)
    BY <1>10, <1>12, <2>2, <2>5, SMTT(30)
  <2>7. ASSUME NEW j \in 1..m PROVE rest[j] = w[j]
    <3>1. j \in 1..(Len(body) - size) /\ size + j \in 1..(size + m)
      BY <1>10, <2>2, <2>5
    <3> QED  BY <1>12, <2>4, <2>5, <3>1
  <2>8. Begins(w, rest)
    BY <2>6, <2>7 DEF Begins, m
  <2> QED  BY <2>8 DEF w
<1>15. i \in 0..(Len(body) + 1)
  BY <1>1, <1>7, <1>10
<1>16. i = n => rest = WriteTail(state).bytes
  <2>1. i = n => t = WriteTail(state).bytes
    BY DEF t, state
  <2> QED  BY <1>13, <2>1
<1> QED  BY <1>2, <1>9, <1>12, <1>14, <1>15, <1>16 DEF Ahead

LEMMA TurnEndsThere ==
  ASSUME NEW body \in Seq(Byte), NEW p \in ParseState, p.status = "more", p.pos < Len(body),
         NEW rest, rest = SubSeq(body, p.pos + 1, Len(body)), ReadTail(p.state, rest).ok
  PROVE  ParseStep(body, p).status = "ok"
<1> DEFINE found == ReadTail(p.state, rest).tail
           q     == ParseStep(body, p)
<1>1. q = [p EXCEPT !.status = "ok", !.tail = found]
  BY TurnAtTail
<1> HIDE DEF found, q
<1>2. q.status = "ok"
  BY <1>1 DEF ParseState
<1> QED  BY <1>2 DEF q

(* After all its packets the parser accepts the body.                      *)
LEMMA BodyEnds ==
  ASSUME NEW pkts \in Seq(Sendable), \A i \in 1..Len(pkts) : IsReadable(pkts[i]),
         NEW body, body = EncodeBody(pkts)
  PROVE  /\ body \in Seq(Byte) /\ Len(pkts) + 1 \in 0..(Len(body) + 1)
         /\ ParseTurns(body)[Len(pkts) + 1].status # "more"
<1> DEFINE n    == Len(pkts)
           p    == ParseTurns(body)[n]
           rest == SubSeq(body, p.pos + 1, Len(body))
<1>1. n \in Nat /\ n \in 0..Len(pkts) /\ n = Len(pkts)
  OBVIOUS
<1>2. body \in Seq(Byte)
  <2> DEFINE e == Encoding(pkts)[n]
             t == WriteTail(e.state).bytes
  <2>1. e = Encoding(pkts)[Len(pkts)] /\ t = WriteTail(e.state).bytes
    OBVIOUS
  <2> HIDE DEF e, t
  <2> QED  BY <2>1, BodyParts
<1>3. p = ParseTurns(body)[n] /\ rest = SubSeq(body, p.pos + 1, Len(body))
  OBVIOUS
<1> HIDE DEF n, p, rest
<1>4. n \in 0..(Len(body) + 1) /\ Ahead(pkts, n, p, rest)
  BY <1>1, <1>3, BodyAhead
<1>5. p.status = "more" /\ p.state \in Word /\ rest = WriteTail(p.state).bytes
  BY <1>1, <1>4 DEF Ahead
<1>6. ReadTail(p.state, rest).ok
  BY <1>5, TailReadsBack
<1>7. /\ p \in ParseState /\ n + 1 \in 1..(Len(body) + 1)
      /\ ParseTurns(body)[n + 1] = ParseStep(body, p)
  BY <1>2, <1>3, <1>4, <1>5, NextTurn
<1>8. p.pos < Len(body)
  <2>1. p.pos \in Nat /\ Len(body) \in Nat
    BY <1>2, <1>7 DEF ParseState
  <2>2. rest # <<>>
    BY <1>6, NothingIsNoTail
  <2>3. p.pos >= Len(body) => rest = <<>>
    BY <1>2, <1>3, <2>1
  <2> QED  BY <2>1, <2>2, <2>3
<1>9. ParseStep(body, p).status = "ok"
  BY <1>2, <1>3, <1>5, <1>6, <1>7, <1>8, TurnEndsThere
<1> QED  BY <1>1, <1>2, <1>7, <1>9

(* The bytes of a body are never rejected: what has arrived of the next    *)
(* packet, or of the tail, is awaited until it is complete, and then taken. *)
LEMMA TailIsTaken ==
  ASSUME TypeOK, NEW w \in Seq(Byte), Len(w) >= 1,
         NEW t, t = WriteTail(crc_state).bytes, Begins(w, t)
  PROVE  AwaitsMore(w) \/ CompletesTail(w)
<1>1. crc_state \in Word
  BY DEF TypeOK
<1>2. t \in Seq(Byte) /\ Len(t) = 5 /\ ReadTail(crc_state, t).ok
  BY <1>1, WriteTailType, TailReadsBack, FrameConstants
<1>3. Unwhiten(crc_state, t[1]) = TailMarker1
  BY <1>1, <1>2, TailMeansMarkers
<1>4. Len(w) \in Nat /\ Len(w) <= 5 /\ \A i \in 1..Len(w) : t[i] = w[i]
  BY <1>2 DEF Begins
<1>5. t[1] = w[1]
  BY <1>4
<1>6. StartsTail(w)
  BY <1>3, <1>5 DEF StartsTail
<1>7. CASE Len(w) < 5
  BY <1>6, <1>7, FrameConstants DEF AwaitsMore
<1>8. CASE Len(w) = 5
  <2>1. w = t
    <3>1. Len(w) = Len(t) /\ \A i \in 1..Len(w) : w[i] = t[i]
      BY <1>2, <1>4, <1>8
    <3> QED  BY <1>2, <3>1, SeqEqual
  <2>2. Len(w) = TailBytes /\ ReadTail(crc_state, w).ok
    BY <1>2, <1>8, <2>1, FrameConstants
  <2> QED  BY <1>6, <2>2 DEF CompletesTail
<1>9. Len(w) < 5 \/ Len(w) = 5
  <2> DEFINE m == Len(w)
  <2>1. m \in Nat /\ m <= 5
    BY <1>4
  <2> HIDE DEF m
  <2>2. m < 5 \/ m = 5
    BY <2>1
  <2> QED  BY <2>2 DEF m
<1> QED  BY <1>7, <1>8, <1>9

LEMMA PacketIsTaken ==
  ASSUME TypeOK, NeedsMore(crc_state, work), NEW byte \in Byte, NEW w, w = Append(work, byte),
         NEW tag \in Word, NEW payload \in Seq(Byte), PayloadLenIsValid(tag, Len(payload)),
         NEW coded, coded = WritePacket(crc_state, tag, payload).bytes,
         Begins(w, coded) \/ Begins(coded, w)
  PROVE  AwaitsMore(w) \/ CompletesPacket(w)
<1> DEFINE n    == Len(work)
           size == Len(coded)
<1>1. crc_state \in Word /\ work \in Seq(Byte) /\ n \in Nat
  BY DEF TypeOK
<1>2. w \in Seq(Byte) /\ Len(w) = n + 1 /\ \A i \in 1..n : w[i] = work[i]
  BY <1>1, AppendAt
<1>3. /\ coded \in Seq(Byte) /\ size = 5 + Len(payload) /\ Len(payload) \in Nat
      /\ HeaderIsKnown(crc_state, coded) /\ DecodePacket(crc_state, coded).ok
      /\ PacketHeader(crc_state, coded).len = size
  <2>1. Len(payload) \in Nat /\ Len(payload) <= 255
    <3>1. Len(payload) \in Nat
      OBVIOUS
    <3> QED  BY <3>1, KnownLengths
  <2> DEFINE all == WritePacket(crc_state, tag, payload)
             len == PacketHeader(crc_state, coded).len
  <2>2. /\ all.bytes \in Seq(Byte) /\ Len(all.bytes) = 5 + Len(payload)
        /\ HeaderIsKnown(crc_state, all.bytes)
        /\ DecodePacket(crc_state, all.bytes) =
             [ok |-> TRUE, tag |-> tag, payload |-> payload,
              len |-> OverheadBytes + Len(payload), state |-> all.state]
    BY <1>1, <2>1, ReadableDecodes
  <2>3. PacketHeader(crc_state, all.bytes) = [tag |-> tag, len |-> OverheadBytes + Len(payload)]
    BY <1>1, <2>1, PacketReadsBack
  <2> QED  BY <2>1, <2>2, <2>3, FrameConstants
<1> HIDE DEF n, size
<1>4. size \in Nat /\ size >= 5
  BY <1>3
<1>5. n < size /\ Begins(w, coded)
  <2>1. CASE Begins(w, coded)
    BY <1>1, <1>2, <1>4, <2>1 DEF Begins, size
  <2>2. CASE Begins(coded, w)
    <3>0. size <= n + 1 /\ \A i \in 1..size : w[i] = coded[i]
      BY <1>2, <2>2 DEF Begins, size
    <3>1. n < size
      <4> SUFFICES ASSUME size <= n PROVE FALSE
        BY <1>1, <1>4
      <4>1. Begins(coded, work)
        BY <1>1, <1>2, <1>4, <3>0 DEF Begins, size, n
      <4>2. SubSeq(work, 1, size) = coded
        <5>1. /\ SubSeq(work, 1, size) \in Seq(Byte) /\ Len(SubSeq(work, 1, size)) = size
              /\ \A i \in 1..size : SubSeq(work, 1, size)[i] = work[i]
          BY <1>1, <1>4 DEF n
        <5> DEFINE s == SubSeq(work, 1, size)
        <5>2. Len(s) = Len(coded) /\ \A i \in 1..Len(s) : s[i] = coded[i]
          BY <4>1, <5>1 DEF Begins, size
        <5> HIDE DEF s
        <5>3. s \in Seq(Byte)
          BY <5>1 DEF s
        <5>4. s = coded
          BY <1>3, <5>2, <5>3, SeqEqual
        <5> QED  BY <5>4 DEF s
      <4>3. PacketHeader(crc_state, work) = PacketHeader(crc_state, coded)
        <5>1. HeaderBytes <= size /\ size <= Len(work)
          BY <1>4, FrameConstants DEF n
        <5> QED  BY <1>1, <1>4, <4>2, <5>1, HeaderFromFront, ZenonT(30)
      <4>4. Unwhiten(crc_state, coded[1]) # TailMarker1
        <5>1. Len(coded) >= HeaderBytes
          BY <1>4, FrameConstants DEF size
        <5> QED  BY <1>1, <1>3, <5>1, KnownIsNoTailStart
      <4>5. coded[1] = work[1]
        BY <1>4, <4>1 DEF Begins, size
      <4>6. work # <<>> /\ ~(Len(work) < HeaderBytes)
        BY <1>1, <1>4, FrameConstants DEF n
      <4>7. Len(work) < PacketHeader(crc_state, work).len
        BY <4>4, <4>5, <4>6 DEF NeedsMore
      <4> QED  BY <1>1, <1>3, <1>4, <4>3, <4>7 DEF n
    <3>2. Len(w) = Len(coded)
      BY <1>1, <1>2, <1>4, <3>0, <3>1 DEF size
    <3>3. Begins(w, coded)
      BY <1>2, <2>2, <3>2 DEF Begins
    <3> QED  BY <3>1, <3>3
  <2> QED  BY <2>1, <2>2
<1>6. \A i \in 1..(n + 1) : coded[i] = w[i]
  BY <1>2, <1>5 DEF Begins
<1>7. ~StartsTail(w)
  <2>1. Len(coded) >= HeaderBytes
    BY <1>4, FrameConstants DEF size
  <2>2. Unwhiten(crc_state, coded[1]) # TailMarker1
    BY <1>1, <1>3, <2>1, KnownIsNoTailStart
  <2>3. coded[1] = w[1]
    BY <1>1, <1>6, SMTT(30)
  <2> QED  BY <2>2, <2>3 DEF StartsTail
<1>8. CASE Len(w) < HeaderBytes
  BY <1>7, <1>8 DEF AwaitsMore
<1>9. CASE Len(w) >= HeaderBytes
  <2>1. w = SubSeq(coded, 1, n + 1)
    <3> DEFINE s == SubSeq(coded, 1, n + 1)
    <3>1. s \in Seq(Byte) /\ Len(s) = n + 1 /\ \A i \in 1..(n + 1) : s[i] = coded[i]
      BY <1>1, <1>3, <1>4, <1>5 DEF size
    <3> HIDE DEF s
    <3>2. Len(w) = Len(s) /\ \A i \in 1..Len(w) : w[i] = s[i]
      BY <1>2, <1>6, <3>1
    <3>3. w = s
      BY <1>2, <3>1, <3>2, SeqEqual
    <3> QED  BY <3>3 DEF s
  <2>2. PacketHeader(crc_state, w) = PacketHeader(crc_state, coded)
    <3> DEFINE m == n + 1
    <3>1. m \in Nat /\ HeaderBytes <= m /\ m <= Len(coded) /\ w = SubSeq(coded, 1, m)
      BY <1>1, <1>2, <1>4, <1>5, <1>9, <2>1 DEF size
    <3> HIDE DEF m
    <3> QED  BY <1>1, <1>3, <3>1, HeaderFromFront
  <2>3. HeaderIsKnown(crc_state, w) /\ PacketHeader(crc_state, w).len = size
    BY <1>3, <2>2 DEF HeaderIsKnown
  <2>4. HeaderFits(w)
    BY <1>1, <1>2, <1>9, <2>3, KnownFits DEF HeaderFits
  <2>5. CASE Len(w) < size
    BY <1>7, <2>3, <2>4, <2>5 DEF AwaitsMore
  <2>6. CASE Len(w) = size
    <3>1. w = coded
      <4>1. Len(w) = Len(coded) /\ \A i \in 1..Len(w) : w[i] = coded[i]
        BY <1>2, <1>6, <2>6 DEF size
      <4> QED  BY <1>2, <1>3, <4>1, SeqEqual
    <3>2. DecodePacket(crc_state, w).ok
      BY <1>3, <3>1
    <3> QED  BY <1>7, <2>3, <2>4, <2>6, <3>2 DEF CompletesPacket
  <2> QED  BY <1>1, <1>2, <1>4, <1>5, <2>5, <2>6
<1> QED  BY <1>1, <1>2, <1>8, <1>9, FrameConstants

LEMMA CleanByte ==
  ASSUME StreamContext, NEW byte \in Byte, NEW w, w = Append(work, byte),
         NEW longer, longer = Append(heard, byte),
         NEW pkts \in Seq(Sendable), \A i \in 1..Len(pkts) : IsReadable(pkts[i]),
         NEW body, body = EncodeBody(pkts), Begins(longer, body)
  PROVE  AwaitsMore(w) \/ CompletesTail(w) \/ CompletesPacket(w)
<1> DEFINE n    == Len(pkts)
           i    == Len(delivered)
           p    == ParseTurns(longer)[i]
           rest == SubSeq(body, p.pos + 1, Len(body))
<1>1. /\ TypeOK /\ crc_state \in Word /\ work \in Seq(Byte) /\ NeedsMore(crc_state, work)
  BY DEF StreamContext, StreamInv, TypeOK
<1>2. StandsAt(longer, p, w)
  BY OneMoreHeard
<1>3. /\ longer \in Seq(Byte) /\ i \in 0..(Len(longer) + 1) /\ p.status = "more"
      /\ p.state = crc_state /\ p.pos \in Nat /\ p.pos + Len(w) = Len(longer)
      /\ SubSeq(longer, p.pos + 1, Len(longer)) = w
  BY <1>2 DEF StandsAt
<1>4. /\ body \in Seq(Byte) /\ n + 1 \in 0..(Len(body) + 1)
      /\ ParseTurns(body)[n + 1].status # "more"
  BY BodyEnds
<1>5. n \in Nat /\ i \in Nat /\ Len(longer) \in Nat /\ Len(body) \in Nat /\ Len(longer) <= Len(body)
  <2>1. Len(longer) \in Nat /\ Len(body) \in Nat /\ Len(longer) <= Len(body)
    BY <1>3, <1>4, SMTT(30) DEF Begins
  <2>2. n \in Nat
    OBVIOUS
  <2>3. i \in Nat
    <3> HIDE DEF i
    <3> QED  BY <1>3, <2>1
  <2> QED  BY <2>1, <2>2, <2>3
<1>6. w \in Seq(Byte) /\ Len(w) \in Nat /\ Len(w) >= 1
  <2>1. w \in Seq(Byte) /\ w # <<>>
    BY <1>2 DEF StandsAt
  <2> QED  BY <2>1
<1> HIDE DEF i, p, n
<1>7. ParseTurns(body)[i] = p
  BY <1>3, <1>4, TurnsKeep DEF p
<1>8. i <= n
  <2> SUFFICES ASSUME n + 1 <= i PROVE FALSE
    BY <1>5
  <2> DEFINE m == n + 1
  <2>1. /\ m \in 0..(Len(body) + 1) /\ i \in 0..(Len(body) + 1) /\ m <= i
        /\ ParseTurns(body)[i].status = "more" /\ ParseTurns(body)[m].status # "more"
    BY <1>3, <1>4, <1>5, <1>7
  <2> HIDE DEF m
  <2> QED  BY <1>4, <2>1, MoreBefore
<1>9. i \in 0..Len(pkts) /\ p = ParseTurns(body)[i] /\ rest = SubSeq(body, p.pos + 1, Len(body))
  BY <1>5, <1>7, <1>8 DEF n
<1> HIDE DEF rest
<1>10. Ahead(pkts, i, p, rest)
  BY <1>9, BodyAhead
<1>11. rest \in Seq(Byte) /\ Begins(w, rest)
  <2> DEFINE at == p.pos
  <2>1. at \in Nat /\ at + Len(w) = Len(longer) /\ at <= Len(longer) /\ at <= Len(body)
    BY <1>3, <1>5, <1>6, SMTT(90)
  <2>2. rest = SubSeq(body, at + 1, Len(body)) /\ w = SubSeq(longer, at + 1, Len(longer))
    BY <1>3, <1>9
  <2> HIDE DEF at
  <2>3. /\ rest \in Seq(Byte) /\ Len(rest) = Len(body) - at
        /\ \A j \in 1..(Len(body) - at) : rest[j] = body[at + j]
    BY <1>4, <2>1, <2>2, RestAt, SMTT(30)
  <2>4. \A j \in 1..(Len(longer) - at) : w[j] = longer[at + j]
    BY <1>3, <2>1, <2>2, RestAt, ZenonT(30)
  <2>5. Len(w) <= Len(rest)
    BY <1>5, <1>6, <2>1, <2>3
  <2>6. ASSUME NEW j \in 1..Len(w) PROVE rest[j] = w[j]
    <3>1. /\ j \in 1..(Len(body) - at) /\ j \in 1..(Len(longer) - at)
          /\ at + j \in 1..Len(longer)
      BY <1>5, <1>6, <2>1
    <3>2. body[at + j] = longer[at + j]
      BY <3>1 DEF Begins
    <3> QED  BY <2>3, <2>4, <3>1, <3>2
  <2> QED  BY <2>3, <2>5, <2>6 DEF Begins
<1>12. CASE i = n
  <2>1. rest = WriteTail(crc_state).bytes
    BY <1>3, <1>10, <1>12 DEF Ahead, n
  <2> QED  BY <1>1, <1>6, <1>11, <2>1, TailIsTaken
<1>13. CASE i < n
  <2> DEFINE pkt     == pkts[i+1]
             tag     == pkt.tag
             payload == pkt.payload
             coded   == WritePacket(crc_state, tag, payload).bytes
  <2>1. i + 1 \in 1..Len(pkts)
    BY <1>5, <1>13 DEF n
  <2>2. tag \in Word /\ payload \in Seq(Byte) /\ PayloadLenIsValid(tag, Len(payload))
    <3>1. pkt \in Sendable /\ IsReadable(pkt)
      BY <2>1
    <3> HIDE DEF pkt
    <3> QED  BY <3>1 DEF Sendable, IsReadable
  <2>3. Begins(coded, rest)
    BY <1>3, <1>10, <1>13 DEF Ahead, n
  <2>4. coded = WritePacket(crc_state, tag, payload).bytes
    OBVIOUS
  <2> HIDE DEF pkt, tag, payload, coded
  <2>5. coded \in Seq(Byte)
    <3>1. Len(payload) \in Int
      BY <2>2
    <3>2. Len(payload) <= 255
      BY <2>2, <3>1, KnownLengths
    <3> QED  BY <1>1, <2>2, <2>4, <3>2, ReadableDecodes
  <2>6. Begins(w, coded) \/ Begins(coded, w)
    <3> DEFINE a == Len(w)
               b == Len(coded)
    <3>1. a \in Nat /\ b \in Nat
      BY <1>6, <2>5
    <3> HIDE DEF a, b
    <3>2. CASE a <= b
      <4>1. \A j \in 1..a : j \in 1..b
        BY <3>1, <3>2
      <4> QED  BY <1>11, <2>3, <3>2, <4>1 DEF Begins, a, b
    <3>3. CASE b <= a
      <4>1. \A j \in 1..b : j \in 1..a
        BY <3>1, <3>3
      <4> QED  BY <1>11, <2>3, <3>3, <4>1 DEF Begins, a, b
    <3> QED  BY <3>1, <3>2, <3>3
  <2> QED  BY <1>1, <2>2, <2>4, <2>6, PacketIsTaken
<1> QED  BY <1>5, <1>8, <1>12, <1>13

(* Nobody sent these bytes. *)
Unsent(bytes) ==
  \A k \in 1..Len(Broadcast) :
    ~(Len(bytes) <= Len(Body[k]) /\ bytes = SubSeq(Body[k], 1, Len(bytes)))

LEMMA RejectedIsUnsent ==
  ASSUME StreamContext, NEW byte \in Byte, NEW w, w = Append(work, byte),
         ~AwaitsMore(w), ~CompletesTail(w), ~CompletesPacket(w)
  PROVE  Unsent(Append(heard, byte))
<1> DEFINE longer == Append(heard, byte)
<1>1. heard \in Seq(Byte)
  BY DEF StreamContext, TypeOK
<1>2. longer \in Seq(Byte) /\ longer = Append(heard, byte)
  BY <1>1
<1> HIDE DEF longer
<1>3. ASSUME NEW k \in 1..Len(Broadcast),
             Len(longer) <= Len(Body[k]), longer = SubSeq(Body[k], 1, Len(longer))
      PROVE  FALSE
  <2> DEFINE pkts == Broadcast[k]
             body == Body[k]
  <2>1. /\ pkts \in Seq(Sendable) /\ \A i \in 1..Len(pkts) : IsReadable(pkts[i])
        /\ body \in Seq(Byte)
    BY BodyType
  <2>2. body = EncodeBody(pkts)
    BY DEF Body
  <2>3. Len(longer) <= Len(body) /\ longer = SubSeq(body, 1, Len(longer))
    BY <1>3
  <2> HIDE DEF pkts, body
  <2>4. Begins(longer, body)
    <3> DEFINE m == Len(longer)
    <3>1. m \in Nat /\ m <= Len(body) /\ Len(body) \in Nat
      BY <1>2, <2>1, <2>3
    <3> HIDE DEF m
    <3>2. \A i \in 1..m : SubSeq(body, 1, m)[i] = body[i]
      BY <2>1, <3>1
    <3> QED  BY <2>3, <3>1, <3>2 DEF Begins, m
  <2> QED  BY <1>2, <2>1, <2>2, <2>4, CleanByte
<1> QED  BY <1>3 DEF Unsent, longer

LEMMA CleanEndByte ==
  ASSUME DemodInv, StreamInv, Locked, ~done,
         NEW bit \in Bit, NEW reply \in Reply, EndByte(bit, reply), lost' = "rejected"
  PROVE  Unsent(heard')
<1> DEFINE byte == current_byte + bit * Pow2[8]
           w    == Append(work, byte)
<1>1. bits_in_byte = 7 /\ heard' = Append(heard, byte) /\ OnByte(byte, reply)
  BY DEF EndByte
<1>2. byte \in Byte
  BY <1>1, LastBitFits
<1>3. lost = "no"
  BY DEF DemodInv, LossUnlocks
<1> HIDE DEF byte
<1>4. w = Append(work, byte)
  OBVIOUS
<1>5. ByteAwaited(w) \/ ByteEndsTail(w) \/ ByteEndsPacket(w, reply) \/ ByteRejected(w)
  <2>1. ~(Len(work) >= WorkSize)
    BY DemodConstants DEF DemodInv, WorkHasRoom, TypeOK
  <2> QED  BY <1>1, <2>1 DEF OnByte
<1> HIDE DEF w
<1>6. ~ByteAwaited(w) /\ ~ByteEndsTail(w)
  BY <1>3 DEF ByteAwaited, ByteEndsTail
<1>7. ~ByteEndsPacket(w, reply)
  <2> SUFFICES ASSUME ByteEndsPacket(w, reply) PROVE FALSE
    OBVIOUS
  <2>1. lost' = IF reply.desync THEN "asked" ELSE lost
    BY DEF ByteEndsPacket
  <2> QED  BY <1>3, <2>1
<1>8. ~AwaitsMore(w) /\ ~CompletesTail(w) /\ ~CompletesPacket(w)
  BY <1>5, <1>6, <1>7 DEF ByteRejected
<1>9. StreamContext
  BY DEF StreamContext, DemodInv
<1>10. Unsent(Append(heard, byte))
  BY <1>2, <1>4, <1>8, <1>9, RejectedIsUnsent
<1> QED  BY <1>1, <1>10

(* The step: only a rejected byte loses the lock that way, and on it the   *)
(* bytes heard are nobody's.                                               *)
LEMMA CleanStep ==
  DemodInv /\ StreamInv /\ CleanBytesKeepSync /\ [Next]_vars => CleanBytesKeepSync'
<1> SUFFICES ASSUME DemodInv, StreamInv, CleanBytesKeepSync, [Next]_vars, lost' = "rejected"
             PROVE  Unsent(heard')
  BY DEF CleanBytesKeepSync, Unsent
<1>0. lost = "rejected" => Unsent(heard)
  BY DEF CleanBytesKeepSync, Unsent
<1>1. ASSUME NEW bit \in Bit, NEW reply \in Reply, PushBit(bit, reply) PROVE Unsent(heard')
  <2>1. pushing /\ ~done
    BY <1>1 DEF PushBit
  <2>2. CASE ~run_synced /\ (FirstWindow \/ Hunt(bit))
    BY <1>0, <2>2 DEF FirstWindow, Hunt, history
  <2>3. CASE ~run_synced /\ Acquire(bit)
    BY <2>3 DEF Acquire
  <2>4. CASE run_synced /\ MidByte(bit)
    BY <1>0, <2>4 DEF MidByte, history
  <2>5. CASE run_synced /\ EndByte(bit, reply)
    BY <2>1, <2>5, CleanEndByte DEF Locked
  <2> QED  BY <1>1, <2>2, <2>3, <2>4, <2>5 DEF PushBit
<1>2. ASSUME NEW bit \in Bit, NEW reply \in Reply, Flush(bit, reply) PROVE Unsent(heard')
  <2>1. ~pushing /\ ~done /\ synced
    BY <1>2 DEF Flush
  <2>2. CASE MidByte(bit)
    BY <1>0, <2>2 DEF MidByte, history
  <2>3. CASE EndByte(bit, reply)
    BY <2>1, <2>3, CleanEndByte DEF Locked
  <2> QED  BY <1>2, <2>2, <2>3 DEF Flush
<1>3. CASE PushBegin \/ PushEnd \/ UNCHANGED vars
  BY <1>0, <1>3 DEF PushBegin, PushEnd, vars, history
<1>4. CASE Desync
  <2>1. heard' = heard /\ lost' = IF synced THEN "asked" ELSE lost
    BY <1>4 DEF Desync
  <2> QED  BY <1>0, <2>1
<1>5. CASE Reinit
  BY <1>5 DEF Reinit
<1> QED  BY <1>1, <1>2, <1>3, <1>4, <1>5 DEF Next

-----------------------------------------------------------------------------
(* A demodulator that listens to a recording is a demodulator.             *)
LinkInv == pos \in Nat /\ pos >= 1

LEMMA LinkInitIs == LinkInit => Init /\ LinkInv
  BY DEF LinkInit, LinkInv

LEMMA RecordedBit ==
  ASSUME LinkInv, Playing
  PROVE  Recording[pos] \in Bit /\ 1 - Recording[pos] \in Bit
<1>1. Recording \in Seq(Bit)
  BY RecordingType DEF Bits
<1>2. pos \in 1..Len(Recording)
  BY <1>1 DEF LinkInv, Playing
<1> DEFINE r == Recording
<1> HIDE DEF r
<1>3. r[pos] \in Bit
  BY <1>1, <1>2 DEF r
<1>4. Recording[pos] \in {0, 1}
  BY <1>3 DEF r, Bit
<1> QED  BY <1>4 DEF Bit

LEMMA LinkStepIs ==
  LinkInv /\ [LinkNext]_linkVars => LinkInv' /\ [Next]_vars
<1> SUFFICES ASSUME LinkInv, [LinkNext]_linkVars PROVE LinkInv' /\ [Next]_vars
  OBVIOUS
<1>1. pos' = pos \/ pos' = pos + 1 \/ pos' = Len(Recording) + 1
  BY DEF LinkNext, linkVars, ChunkBegins, ChunkEnds, CallerDesyncs, Reuse, Miss, Hear,
         HearWrong, HearExtra, FinalFlush
<1>2. LinkInv'
  <2>1. Len(Recording) \in Nat
    BY RecordingType DEF Bits
  <2> DEFINE size == Len(Recording)
  <2> HIDE DEF size
  <2> QED  BY <1>1, <2>1 DEF LinkInv, size
<1>3. ASSUME NEW reply \in Replies,
             \/ Hear(reply) \/ HearWrong(reply) \/ FinalFlush(reply)
             \/ \E bit \in Bit : HearExtra(bit, reply)
      PROVE  Next
  <2>1. reply \in Reply
    BY RepliesAssumption
  <2>2. CASE Hear(reply)
    BY <2>1, <2>2, RecordedBit DEF Hear, Next
  <2>3. CASE HearWrong(reply)
    BY <2>1, <2>3, RecordedBit DEF HearWrong, Faulty, Next
  <2>4. CASE FinalFlush(reply)
    <3>1. (IF Playing THEN Recording[pos] ELSE 1) \in Bit
      BY RecordedBit DEF Bit
    <3> QED  BY <2>1, <2>4, <3>1 DEF FinalFlush, Next
  <2>5. CASE \E bit \in Bit : HearExtra(bit, reply)
    BY <2>1, <2>5 DEF HearExtra, Next
  <2> QED  BY <1>3, <2>2, <2>3, <2>4, <2>5
<1>4. ASSUME ChunkBegins \/ ChunkEnds \/ CallerDesyncs \/ Reuse PROVE Next
  BY <1>4 DEF ChunkBegins, ChunkEnds, CallerDesyncs, Reuse, Next
<1>5. ASSUME Miss \/ UNCHANGED linkVars PROVE UNCHANGED vars
  BY <1>5 DEF Miss, linkVars
<1> QED  BY <1>2, <1>3, <1>4, <1>5 DEF LinkNext

(* Refinement: whatever the channel and the caller do, the listener's      *)
(* steps are steps of the demodulator (module Po32Demod) or leave it       *)
(* alone, so that everything proved of Spec holds on the air.  This needs  *)
(* that the recording consists of bits.                                    *)
THEOREM LinkIsDemod == LinkSpec => Spec
<1>1. LinkInit => Init /\ LinkInv
  BY LinkInitIs
<1>2. LinkInv /\ [LinkNext]_linkVars => LinkInv' /\ [Next]_vars
  BY LinkStepIs
<1> QED  BY <1>1, <1>2, PTL DEF LinkSpec, Spec

(* What the demodulator has heard since the preamble is rejected only if   *)
(* nobody sent it (po32.c:1080-1147): while it is the beginning of some    *)
(* transmission, every byte is awaited or completes a packet or the tail.  *)
(* It holds of every stream of bits, hence on the air.                     *)
THEOREM CleanBytesAreKept == LinkSpec => []CleanBytesKeepSync
<1>1. Init => DemodInv /\ StreamInv /\ CleanBytesKeepSync
  <2>1. Init => DemodInv
    BY DemodInitHolds
  <2>2. Init => StreamInv
    BY StreamStarts DEF Init, Locked
  <2>3. Init => CleanBytesKeepSync
    BY DEF Init, CleanBytesKeepSync
  <2> QED  BY <2>1, <2>2, <2>3
<1>2. DemodInv /\ StreamInv /\ CleanBytesKeepSync /\ [Next]_vars
        => DemodInv' /\ StreamInv' /\ CleanBytesKeepSync'
  BY DemodStepPreserves, StreamPreserved, CleanStep
<1>3. Spec => []CleanBytesKeepSync
  BY <1>1, <1>2, PTL DEF Spec
<1> QED  BY <1>3, LinkIsDemod, PTL

(* The properties of the demodulator, on the air. *)
THEOREM LinkKeepsOffsets == LinkSpec => []OffsetsTile /\ []StreamMatchesParse
  BY LinkIsDemod, PacketOffsetsTile, StreamIsParse, PTL

-----------------------------------------------------------------------------
(* po32_decode_f32.  Its callback files what the demodulator delivers, and *)
(* that are packets the parser knows.                                      *)
AllReadable(pkts) == \A i \in 1..Len(pkts) : IsReadable(pkts[i])

LEMMA ReadableAppends ==
  ASSUME NEW S, NEW pkts \in Seq(S), AllReadable(pkts), NEW pkt \in S, IsReadable(pkt)
  PROVE  AllReadable(Append(pkts, pkt))
<1> DEFINE more == Append(pkts, pkt)
<1>1. /\ Len(pkts) \in Nat /\ Len(more) = Len(pkts) + 1 /\ more[Len(pkts) + 1] = pkt
      /\ \A i \in 1..Len(pkts) : more[i] = pkts[i]
  OBVIOUS
<1> HIDE DEF more
<1>2. ASSUME NEW i \in 1..Len(more) PROVE IsReadable(more[i])
  <2>1. CASE i = Len(pkts) + 1
    BY <1>1, <2>1
  <2>2. CASE i # Len(pkts) + 1
    <3>1. i \in 1..Len(pkts)
      BY <1>1, <2>2
    <3> QED  BY <1>1, <3>1 DEF AllReadable
  <2> QED  BY <2>1, <2>2
<1> QED  BY <1>2 DEF AllReadable, more

LEMMA DeliversReadable ==
  DemodInv /\ AllReadable(delivered) /\ [Next]_vars => AllReadable(delivered')
<1> SUFFICES ASSUME DemodInv, AllReadable(delivered), [Next]_vars PROVE AllReadable(delivered')
  OBVIOUS
<1>1. ASSUME NEW byte \in Byte, NEW reply \in Reply, OnByte(byte, reply)
      PROVE  AllReadable(delivered')
  <2> DEFINE w == Append(work, byte)
             pkt == DecodePacket(crc_state, w)
             entry == [tag |-> pkt.tag, payload |-> pkt.payload, offset |-> PacketStart(w)]
  <2>1. \/ UNCHANGED delivered
        \/ ByteEndsPacket(w, reply)
    BY <1>1 DEF OnByte, BufferOverrun, ByteAwaited, ByteEndsTail, ByteRejected
  <2>2. CASE ByteEndsPacket(w, reply)
    <3>1. crc_state \in Word /\ work \in Seq(Byte) /\ delivered \in Seq(Packet)
      BY DEF DemodInv, TypeOK
    <3>2. w \in Seq(Byte)
      BY <3>1
    <3>3. delivered' = Append(delivered, entry) /\ pkt.ok /\ CompletesPacket(w)
      BY <2>2 DEF ByteEndsPacket, CompletesPacket
    <3> HIDE DEF w
    <3>4. /\ pkt.tag = PacketHeader(crc_state, w).tag
          /\ PacketHeader(crc_state, w).len = OverheadBytes + Len(pkt.payload)
          /\ Len(pkt.payload) \in Nat /\ HeaderIsKnown(crc_state, w)
      <4>1. /\ pkt = ReadPacket(crc_state, w) /\ HeaderIsKnown(crc_state, w)
            /\ pkt.len = OverheadBytes + Len(pkt.payload) /\ pkt.payload \in Seq(Byte)
        BY <3>1, <3>2, <3>3, DecodePacketType
      <4>2. pkt.tag = PacketHeader(crc_state, w).tag /\ pkt.len = PacketHeader(crc_state, w).len
        <5> DEFINE read == ReadPacket(crc_state, w)
        <5>1. read.ok
          BY <3>3, <4>1
        <5>2. read.tag = PacketHeader(crc_state, w).tag /\ read.len = PacketHeader(crc_state, w).len
          BY <5>1 DEF ReadPacket
        <5> HIDE DEF read, pkt
        <5> QED  BY <4>1, <5>2 DEF read
      <4> QED  BY <4>1, <4>2
    <3>5. PayloadLenIsValid(pkt.tag, Len(pkt.payload))
      <4> DEFINE len == PacketHeader(crc_state, w).len
                 size == Len(pkt.payload)
      <4>1. PayloadLenIsValid(pkt.tag, len - OverheadBytes)
        BY <3>4 DEF HeaderIsKnown
      <4>2. len = OverheadBytes + size /\ size \in Nat
        BY <3>4
      <4> HIDE DEF len, size
      <4>3. len - OverheadBytes = size
        BY <4>2, FrameConstants
      <4> QED  BY <4>1, <4>3 DEF size
    <3>6. IsReadable(entry)
      BY <3>5 DEF IsReadable
    <3>7. entry \in Packet
      <4>1. delivered' \in Seq(Packet)
        BY DemodStepPreserves DEF DemodInv, TypeOK
      <4>2. Len(delivered') = Len(delivered) + 1 /\ delivered'[Len(delivered) + 1] = entry
        <5> HIDE DEF entry, Packet
        <5> QED  BY <3>1, <3>3
      <4> HIDE DEF entry, Packet
      <4>3. Len(delivered) \in Nat
        BY <3>1
      <4> QED  BY <4>1, <4>2, <4>3
    <3> HIDE DEF entry, Packet
    <3> QED  BY <3>1, <3>3, <3>6, <3>7, ReadableAppends
  <2> QED  BY <2>1, <2>2
<1>2. ASSUME NEW bit \in Bit, NEW reply \in Reply, EndByte(bit, reply)
      PROVE  AllReadable(delivered')
  <2> DEFINE byte == current_byte + bit * Pow2[8]
  <2>1. bits_in_byte = 7 /\ OnByte(byte, reply)
    BY <1>2 DEF EndByte
  <2>2. byte \in Byte
    BY <2>1, LastBitFits DEF DemodInv
  <2> HIDE DEF byte
  <2> QED  BY <1>1, <2>1, <2>2
<1>3. ASSUME NEW bit \in Bit, NEW reply \in Reply, PushBit(bit, reply) \/ Flush(bit, reply)
      PROVE  AllReadable(delivered')
  <2>1. CASE EndByte(bit, reply)
    BY <1>2, <2>1
  <2>2. CASE Acquire(bit)
    BY <2>2 DEF Acquire, AllReadable
  <2>3. CASE FirstWindow \/ Hunt(bit) \/ MidByte(bit)
    BY <2>3 DEF FirstWindow, Hunt, MidByte, history
  <2> QED  BY <1>3, <2>1, <2>2, <2>3 DEF PushBit, Flush
<1>4. CASE PushBegin \/ PushEnd \/ Desync \/ UNCHANGED vars
  BY <1>4 DEF PushBegin, PushEnd, Desync, vars, history
<1>5. CASE Reinit
  BY <1>5 DEF Reinit, AllReadable
<1> QED  BY <1>3, <1>4, <1>5 DEF Next

(* The call.  Until it returns, the frame is open and nothing is reported. *)
DecodeInv ==
  /\ LinkInv /\ DemodInv /\ AllReadable(delivered)
  /\ BuilderInv /\ BackInv /\ AllReadable(appended)
  /\ ctx_status \in Status
  /\ stage # "returned" => finished = FALSE /\ out_len = 0 /\ result = ClearResult
  /\ ReportIsTrue

LEMMA DecodeInitHolds == DecodeInit => DecodeInv
<1> SUFFICES ASSUME DecodeInit PROVE DecodeInv
  OBVIOUS
<1>1. LinkInit /\ BuilderInit /\ ctx_status = "OK" /\ result = ClearResult /\ stage = "prepare"
  BY DEF DecodeInit
<1>2. Init /\ LinkInv /\ DemodInv
  BY <1>1, LinkInitIs, DemodInitHolds
<1>3. AllReadable(delivered)
  BY <1>2 DEF Init, AllReadable
<1>4. BuilderInv /\ BackInv
  BY <1>1, BuilderInitHolds, BackInit
<1>5. AllReadable(appended) /\ finished = FALSE /\ out_len = 0
  BY <1>1 DEF BuilderInit, AllReadable
<1>6. ReportIsTrue
  BY <1>1 DEF ReportIsTrue, SuccessParses, FailureReportsNothing, Returned
<1> QED  BY <1>1, <1>2, <1>3, <1>4, <1>5, <1>6 DEF DecodeInv, Status

(* Every step of the call is, of its demodulator, a step of the listener   *)
(* or none, and keeps what holds of it.                                    *)
LEMMA ListenerStep ==
  DecodeInv /\ [DecodeNext]_decodeVars => LinkInv' /\ [Next]_vars
<1> SUFFICES ASSUME DecodeInv, [DecodeNext]_decodeVars PROVE LinkInv' /\ [Next]_vars
  OBVIOUS
<1>0. LinkInv
  BY DEF DecodeInv
<1>1. ASSUME [LinkNext]_linkVars PROVE LinkInv' /\ [Next]_vars
  BY <1>0, <1>1, LinkStepIs
<1>2. CASE Prepare
  BY <1>1, <1>2 DEF Prepare, LinkNext
<1>3. CASE Listen
  BY <1>1, <1>3 DEF Listen, LinkNext
<1>4. CASE LoseSymbol
  BY <1>1, <1>4 DEF LoseSymbol, LinkNext
<1>5. CASE RecordingEnds
  BY <1>0, <1>5 DEF RecordingEnds, LinkInv, Next
<1>6. CASE FlushDecides
  <2>1. PICK reply \in Replies : Flush(IF Playing THEN Recording[pos] ELSE 1, reply)
    BY <1>6 DEF FlushDecides
  <2>2. (IF Playing THEN Recording[pos] ELSE 1) \in Bit /\ reply \in Reply
    BY <1>0, RecordedBit, RepliesAssumption DEF Bit
  <2>3. pos' = pos
    BY <1>6 DEF FlushDecides
  <2> QED  BY <1>0, <2>1, <2>2, <2>3 DEF LinkInv, Next
<1>7. CASE \/ PrepareRefused \/ FlushIdles \/ FilingFailed \/ NoTailHeard \/ CloseFrame
           \/ UNCHANGED decodeVars
  <2>1. UNCHANGED linkVars
    BY <1>7 DEF PrepareRefused, FlushIdles, FilingFailed, NoTailHeard, CloseFrame, decodeVars
  <2> QED  BY <1>1, <2>1
<1> QED  BY <1>2, <1>3, <1>4, <1>5, <1>6, <1>7 DEF DecodeNext

LEMMA ListenerKeeps ==
  DecodeInv /\ [DecodeNext]_decodeVars => LinkInv' /\ DemodInv' /\ AllReadable(delivered')
<1> SUFFICES ASSUME DecodeInv, [DecodeNext]_decodeVars
             PROVE  LinkInv' /\ DemodInv' /\ AllReadable(delivered')
  OBVIOUS
<1>1. LinkInv' /\ [Next]_vars
  BY ListenerStep
<1>2. DemodInv /\ AllReadable(delivered)
  BY DEF DecodeInv
<1> QED  BY <1>1, <1>2, DemodStepPreserves, DeliversReadable

(* The callback files a packet or refuses it.                              *)
LEMMA CollectKeeps ==
  ASSUME DecodeInv, stage # "returned", NEW reply, Collect(reply),
         DemodInv', AllReadable(delivered')
  PROVE  /\ BuilderInv' /\ BackInv' /\ AllReadable(appended') /\ ctx_status' \in Status
         /\ finished' = FALSE /\ out_len' = 0
<1>0. /\ BuilderInv /\ BackInv /\ AllReadable(appended) /\ ctx_status \in Status
      /\ finished = FALSE /\ out_len = 0
  BY DEF DecodeInv
<1>1. CASE ~Delivers /\ UNCHANGED <<capacity, fileVars>>
  <2>1. UNCHANGED <<capacity, buffer, builder_state, finished, status, out_len, appended,
                    ctx_status>>
    BY <1>1 DEF fileVars
  <2>2. BuilderInv'
    BY <1>0, <2>1 DEF BuilderInv, BuilderTypeOK, BufferFits
  <2>3. BackInv'
    BY <1>0, <2>1, RefuseKeepsBack
  <2> QED  BY <1>0, <2>1, <2>2, <2>3
<1>2. CASE Delivers /\ ~(~Delivers /\ UNCHANGED <<capacity, fileVars>>)
  <2> DEFINE pkt == delivered'[Len(delivered')]
             tag == pkt.tag
             payload == pkt.payload
  <2>1. AppendPacket(tag, payload) /\ ctx_status' = status'
    BY <1>2 DEF Collect
  <2>2. pkt \in Packet /\ IsReadable(pkt)
    <3>1. delivered' \in Seq(Packet) /\ delivered \in Seq(Packet)
      BY DEF DecodeInv, DemodInv, TypeOK
    <3>2. Len(delivered') \in 1..Len(delivered')
      BY <1>2, <3>1 DEF Delivers
    <3> HIDE DEF Packet
    <3> QED  BY <3>1, <3>2 DEF AllReadable
  <2>3. tag \in Word /\ payload \in Seq(Byte)
    <3> HIDE DEF pkt
    <3> QED  BY <2>2 DEF Packet
  <2> HIDE DEF tag, payload, pkt
  <2>4. BuilderInv' /\ BackInv'
    BY <1>0, <2>1, <2>3, AppendPreserves, AppendKeepsBack
  <2>5. finished' = FALSE /\ out_len' = 0
    BY <1>0, <2>1 DEF AppendPacket, Refuse
  <2>6. status' \in Status
    BY <2>4 DEF BuilderInv, BuilderTypeOK
  <2>7. AllReadable(appended')
    <3> DEFINE entry == [tag |-> tag, payload |-> payload, offset |-> Len(buffer)]
    <3>1. appended' = appended \/ appended' = Append(appended, entry)
      BY <2>1 DEF AppendPacket, Refuse
    <3>2. appended \in Seq(Entry) /\ buffer \in Seq(Byte)
      BY <1>0 DEF BuilderInv, BuilderTypeOK, Entry
    <3>3. entry \in Entry /\ IsReadable(entry)
      BY <2>2, <2>3, <3>2 DEF Entry, IsReadable, tag, payload
    <3> HIDE DEF entry
    <3>4. AllReadable(Append(appended, entry))
      BY <1>0, <3>2, <3>3, ReadableAppends
    <3> QED  BY <1>0, <3>1, <3>4
  <2> QED  BY <2>1, <2>4, <2>5, <2>6, <2>7
<1> QED  BY <1>1, <1>2 DEF Collect
(* A frame closed over packets the parser knows holds exactly these.       *)
ClosedFrame ==
  finished => /\ ParseFrame(buffer).status = "ok"
              /\ ParseFrame(buffer).packets = appended

LEMMA ReadableFrames == BuilderInv /\ BackInv /\ AllReadable(appended) => ClosedFrame
<1> SUFFICES ASSUME BuilderInv, BackInv, AllReadable(appended), finished
             PROVE  ClosedFrame
  BY DEF ClosedFrame
<1> DEFINE parsed == ParseFrame(buffer)
<1>1. ReadsBack
  BY BackImpliesReadsBack
<1>2. PICK n \in ReadablePart :
        /\ parsed.packets = SubSeq(appended, 1, n)
        /\ parsed.status =
             IF n = Len(appended) \/ LooksLikeTail(appended[n + 1]) THEN "ok" ELSE "bad"
  BY <1>1 DEF ReadsBack
<1> HIDE DEF parsed
<1>3. appended \in Seq(Entry)
  BY DEF BuilderInv, BuilderTypeOK, Entry
<1>4. n \in 0..Len(appended) /\ (n < Len(appended) => ~IsReadable(appended[n + 1]))
  BY <1>2 DEF ReadablePart
<1>5. n = Len(appended)
  <2>1. ASSUME n < Len(appended) PROVE FALSE
    <3>1. n + 1 \in 1..Len(appended)
      BY <1>3, <1>4, <2>1
    <3> QED  BY <1>4, <2>1, <3>1 DEF AllReadable
  <2>2. Len(appended) \in Nat
    BY <1>3
  <2> QED  BY <1>4, <2>1, <2>2
<1>6. SubSeq(appended, 1, Len(appended)) = appended
  <2> HIDE DEF Entry
  <2> QED  BY <1>3
<1> QED  BY <1>2, <1>5, <1>6 DEF ClosedFrame, parsed

LEMMA ReadableFramesNext == BuilderInv' /\ BackInv' /\ AllReadable(appended)' => ClosedFrame'
  BY ReadableFrames, PTL

(* The steps on which the call returns.                                    *)
LEMMA ReturnKeeps ==
  ASSUME DecodeInv, NEW answer \in Status \ {"OK"}, stage = "finalize" \/ stage = "prepare",
         Return(answer), result'.done = FALSE, result'.tail = NoTail, ctx_status' = ctx_status
  PROVE  /\ BuilderInv' /\ BackInv' /\ AllReadable(appended)' /\ ctx_status' \in Status
         /\ stage' = "returned" /\ ReportIsTrue'
<1>1. /\ BuilderInv /\ BackInv /\ AllReadable(appended) /\ ctx_status \in Status
      /\ out_len = 0
  BY DEF DecodeInv
<1>2. /\ UNCHANGED <<capacity, buffer, builder_state, finished, out_len, appended>>
      /\ status' = answer /\ stage' = "returned"
  BY DEF Return
<1>3. BuilderInv'
  BY <1>1, <1>2 DEF BuilderInv, BuilderTypeOK, BufferFits
<1>4. BackInv'
  BY <1>1, <1>2, RefuseKeepsBack
<1>5. FailureReportsNothing'
  BY <1>1, <1>2 DEF FailureReportsNothing
<1>6. SuccessParses'
  BY <1>2 DEF SuccessParses
<1> QED  BY <1>1, <1>2, <1>3, <1>4, <1>5, <1>6 DEF ReportIsTrue

LEMMA CloseKeeps ==
  ASSUME DecodeInv, CloseFrame
  PROVE  /\ BuilderInv' /\ BackInv' /\ AllReadable(appended)' /\ ctx_status' \in Status
         /\ stage' = "returned" /\ ReportIsTrue'
<1>1. /\ BuilderInv /\ BackInv /\ AllReadable(appended) /\ ctx_status \in Status
      /\ out_len = 0 /\ finished = FALSE /\ result = ClearResult
  BY DEF DecodeInv, CloseFrame
<1>2. /\ Finish /\ stage' = "returned" /\ ctx_status' = ctx_status
      /\ status' # "OK" => result' = result
  BY DEF CloseFrame
<1>3. BuilderInv' /\ BackInv'
  BY <1>1, <1>2, FinishPreserves, FinishKeepsBack
<1>4. appended' = appended
  BY <1>2 DEF Finish, FinishAgain, FinishFrame, FinishRefused, Refuse
<1>5. AllReadable(appended)'
  BY <1>1, <1>4 DEF AllReadable
<1>6. CASE FinishFrame
  <2>1. finished' /\ status' = "OK" /\ out_len' = Len(buffer')
    <3> DEFINE more == WriteTail(builder_state).bytes
    <3>1. /\ buffer' = buffer \o more /\ out_len' = Len(buffer) + 5
          /\ finished' = TRUE /\ status' = "OK"
      BY <1>6, FrameConstants DEF FinishFrame
    <3>2. buffer \in Seq(Byte) /\ builder_state \in Word
      BY <1>1 DEF BuilderInv, BuilderTypeOK
    <3>3. more \in Seq(Byte) /\ Len(more) = 5
      BY <3>2, WriteTailType, FrameConstants
    <3> HIDE DEF more
    <3>4. Len(buffer \o more) = Len(buffer) + Len(more)
      BY <3>2, <3>3, ByteConcat
    <3> QED  BY <3>1, <3>3, <3>4
  <2>2. ClosedFrame'
    BY <1>3, <1>5, ReadableFramesNext
  <2>3. ParseFrame(buffer').status = "ok" /\ ParseFrame(buffer').packets = appended'
    BY <2>1, <2>2 DEF ClosedFrame
  <2>4. out_len' <= capacity'
    BY <1>3, <2>1 DEF BuilderInv, BufferFits
  <2>5. SuccessParses' /\ FailureReportsNothing'
    BY <2>1, <2>3, <2>4 DEF SuccessParses, FailureReportsNothing
  <2> QED  BY <1>1, <1>2, <1>3, <1>5, <2>5 DEF ReportIsTrue
<1>7. CASE FinishRefused
  <2>1. status' # "OK" /\ out_len' = 0
    BY <1>1, <1>7 DEF FinishRefused, Refuse
  <2>2. result'.done = FALSE /\ result'.tail = NoTail
    BY <1>1, <1>2, <2>1 DEF ClearResult
  <2>3. SuccessParses' /\ FailureReportsNothing'
    BY <2>1, <2>2 DEF SuccessParses, FailureReportsNothing
  <2> QED  BY <1>1, <1>2, <1>3, <1>5, <2>3 DEF ReportIsTrue
<1>8. ~FinishAgain
  BY <1>1 DEF FinishAgain
<1> QED  BY <1>2, <1>6, <1>7, <1>8 DEF Finish

LEMMA DecodeStep == DecodeInv /\ [DecodeNext]_decodeVars => DecodeInv'
<1> SUFFICES ASSUME DecodeInv, [DecodeNext]_decodeVars PROVE DecodeInv'
  OBVIOUS
<1>1. LinkInv' /\ DemodInv' /\ AllReadable(delivered')
  BY ListenerKeeps
<1>2. /\ BuilderInv /\ BackInv /\ AllReadable(appended) /\ ctx_status \in Status
      /\ ReportIsTrue
      /\ stage # "returned" => finished = FALSE /\ out_len = 0 /\ result = ClearResult
  BY DEF DecodeInv
<1>3. ASSUME BuilderInv', BackInv', AllReadable(appended)', ctx_status' \in Status,
             stage' = "returned", ReportIsTrue'
      PROVE  DecodeInv'
  BY <1>1, <1>3 DEF DecodeInv
<1>4. ASSUME BuilderInv', BackInv', AllReadable(appended'), ctx_status' \in Status,
             stage' # "returned", finished' = FALSE, out_len' = 0, result' = ClearResult
      PROVE  DecodeInv'
  <2>1. ReportIsTrue'
    BY <1>4 DEF ReportIsTrue, SuccessParses, FailureReportsNothing, Returned
  <2> QED  BY <1>1, <1>4, <2>1 DEF DecodeInv
<1>5. ASSUME UNCHANGED <<capacity, buffer, builder_state, finished, status, out_len, appended,
                         ctx_status>>
      PROVE  BuilderInv' /\ BackInv' /\ AllReadable(appended') /\ ctx_status' \in Status
  <2>1. BuilderInv'
    BY <1>2, <1>5 DEF BuilderInv, BuilderTypeOK, BufferFits
  <2>2. BackInv'
    BY <1>2, <1>5, RefuseKeepsBack
  <2> QED  BY <1>2, <1>5, <2>1, <2>2
<1>6. result = ClearResult => result.done = FALSE /\ result.tail = NoTail
  BY DEF ClearResult
<1>7. CASE PrepareRefused
  <2>1. /\ stage = "prepare" /\ Return("BUFFER_TOO_SMALL") /\ ctx_status' = ctx_status
        /\ result' = result
    BY <1>7 DEF PrepareRefused
  <2> QED  BY <1>2, <1>3, <1>6, <2>1, ReturnKeeps DEF Status
<1>8. CASE FilingFailed
  <2>1. /\ stage = "finalize" /\ Return(ctx_status) /\ ctx_status' = ctx_status
        /\ result' = result /\ ctx_status # "OK"
    BY <1>8 DEF FilingFailed
  <2> QED  BY <1>2, <1>3, <1>6, <2>1, ReturnKeeps
<1>9. CASE NoTailHeard
  <2>1. /\ stage = "finalize" /\ Return("FRAME") /\ ctx_status' = ctx_status
        /\ result' = [packet_count |-> packet_count, done |-> FALSE, tail |-> result.tail]
    BY <1>9 DEF NoTailHeard
  <2>2. result'.done = FALSE /\ result'.tail = NoTail
    BY <1>2, <1>6, <2>1
  <2> QED  BY <1>3, <2>1, <2>2, ReturnKeeps DEF Status
<1>10. CASE CloseFrame
  BY <1>3, <1>10, CloseKeeps
<1>11. CASE Prepare \/ LoseSymbol \/ RecordingEnds \/ FlushIdles
  <2>1. /\ UNCHANGED <<capacity, buffer, builder_state, finished, status, out_len, appended,
                       ctx_status>>
        /\ result' = result /\ stage # "returned" /\ stage' # "returned"
    BY <1>11 DEF Prepare, LoseSymbol, RecordingEnds, FlushIdles, fileVars
  <2> QED  BY <1>2, <1>4, <1>5, <2>1
<1>12. CASE Listen \/ FlushDecides
  <2>1. PICK reply \in Replies : Collect(reply)
    BY <1>12 DEF Listen, FlushDecides
  <2>2. stage # "returned" /\ stage' # "returned" /\ result' = result
    BY <1>12 DEF Listen, FlushDecides
  <2>3. /\ BuilderInv' /\ BackInv' /\ AllReadable(appended') /\ ctx_status' \in Status
        /\ finished' = FALSE /\ out_len' = 0
    BY <1>1, <2>1, <2>2, CollectKeeps
  <2> QED  BY <1>2, <1>4, <2>2, <2>3
<1>13. CASE UNCHANGED decodeVars
  <2>1. UNCHANGED <<capacity, buffer, builder_state, finished, status, out_len, appended,
                    ctx_status, stage, result>>
    BY <1>13 DEF decodeVars, fileVars
  <2>2. ReportIsTrue'
    BY <1>2, <2>1 DEF ReportIsTrue, SuccessParses, FailureReportsNothing, Returned
  <2> QED  BY <1>1, <1>2, <1>5, <2>1, <2>2 DEF DecodeInv
<1> QED  BY <1>7, <1>8, <1>9, <1>10, <1>11, <1>12, <1>13 DEF DecodeNext

(* What po32_decode_f32 reports is so (po32.c:1429-1503).  Success means   *)
(* out_frame holds a frame that fits it, that po32_frame_parse accepts and *)
(* in which it finds exactly the packets the callback filed, at the        *)
(* offsets the builder gave; any other answer leaves *out_len at zero and  *)
(* reports no completion.  For every broadcast, every loss and wrong       *)
(* symbol, every buffer size, wherever the recording ends: a check value   *)
(* that matches by chance cannot make the call report what is not there.   *)
THEOREM ReportsAreTrue == DecodeSpec => []ReportIsTrue
<1>1. DecodeInv => ReportIsTrue
  BY DEF DecodeInv
<1> QED  BY <1>1, DecodeInitHolds, DecodeStep, PTL DEF DecodeSpec

(* The decoder's demodulator is the demodulator: what holds of one holds   *)
(* of the other, the packets' offsets among it.                            *)
THEOREM DecodeIsDemod == DecodeSpec => Spec
<1>1. DecodeInit => Init
  BY LinkInitIs DEF DecodeInit
<1> QED  BY <1>1, DecodeInitHolds, DecodeStep, ListenerStep, PTL DEF DecodeSpec, Spec
-----------------------------------------------------------------------------
(* The rebuilt frame is a copy.  On the first lock of the call the builder *)
(* stands where the demodulator stands: what was heard is what has been    *)
(* written after the preamble, and then the packet being received.  A      *)
(* packet that could not be filed ends the push, so the two part only      *)
(* where nothing more is heard.                                            *)
Together ==
  /\ heard = Written(buffer) \o work
  /\ builder_state = crc_state
  /\ byte_offset = Len(heard)

FollowInv ==
  /\ attempts \in Nat
  /\ stage = "prepare" =>
       /\ ~pushing /\ ~synced /\ attempts = 0 /\ ctx_status = "OK"
       /\ buffer = Fresh(capacity) /\ builder_state = InitialState
  /\ stage = "push" =>
       /\ pushing
       /\ Begins(Preamble, buffer)
       /\ ctx_status # "OK" => stopped
       /\ attempts = 0 => ~run_synced /\ buffer = Preamble /\ builder_state = InitialState
       /\ attempts = 1 /\ run_synced /\ ctx_status = "OK" => Together

LEMMA ConcatNothing ==
  ASSUME NEW s \in Seq(Byte)
  PROVE  s \o <<>> = s /\ <<>> \in Seq(Byte) /\ Len(s) \in Nat
  OBVIOUS

LEMMA ConcatAppend ==
  ASSUME NEW s \in Seq(Byte), NEW t \in Seq(Byte), NEW b \in Byte
  PROVE  /\ Append(s \o t, b) = s \o Append(t, b)
         /\ Len(Append(s \o t, b)) = Len(s \o t) + 1
  BY SMTT(30)

LEMMA PreambleWritten ==
  /\ Begins(Preamble, Preamble) /\ Written(Preamble) = <<>>
  /\ Preamble \in Seq(Byte)
<1>1. Preamble \in Seq(Byte) /\ Len(Preamble) \in Nat
  BY PreambleAssumption
<1>2. SubSeq(Preamble, 1, Len(Preamble)) = Preamble
  BY <1>1
<1>3. SubSeq(Preamble, Len(Preamble) + 1, Len(Preamble)) = <<>>
  BY <1>1
<1> QED  BY <1>1, <1>2, <1>3 DEF Begins, Written

LEMMA FollowGives == DemodInv /\ BuilderInv /\ FollowInv => BuilderFollows
<1> SUFFICES ASSUME DemodInv, BuilderInv, FollowInv,
                    stage = "push", attempts = 1, Locked, ctx_status = "OK"
             PROVE  /\ Len(buffer) = Len(Preamble) + byte_offset - Len(work)
                    /\ builder_state = crc_state
                    /\ SubSeq(buffer, Len(Preamble) + 1, Len(buffer))
                         = SubSeq(heard, 1, Len(heard) - Len(work))
  BY DEF BuilderFollows
<1>1. Together /\ Begins(Preamble, buffer)
  BY DEF FollowInv, Locked
<1>2. /\ buffer \in Seq(Byte) /\ work \in Seq(Byte) /\ heard \in Seq(Byte) /\ <<>> \in Seq(Byte)
      /\ Preamble \in Seq(Byte)
  BY PreambleAssumption DEF BuilderInv, BuilderTypeOK, DemodInv, TypeOK
<1> DEFINE body == Written(buffer)
<1>3. body \in Seq(Byte) /\ Len(body) = Len(buffer) - Len(Preamble)
  BY <1>1, <1>2, WrittenGrows
<1>4. heard = body \o work /\ builder_state = crc_state /\ byte_offset = Len(heard)
  BY <1>1 DEF Together
<1> HIDE DEF body
<1>5. Len(heard) = Len(body) + Len(work) /\ SubSeq(heard, 1, Len(body)) = body
  BY <1>2, <1>3, <1>4, ByteConcat, ConcatParts
<1>6. /\ Len(buffer) \in Nat /\ Len(work) \in Nat /\ Len(body) \in Nat /\ Len(Preamble) \in Nat
  BY <1>2, <1>3
<1>7. Len(heard) - Len(work) = Len(body)
  BY <1>5, <1>6
<1>8. Len(buffer) = Len(Preamble) + byte_offset - Len(work)
  BY <1>3, <1>4, <1>5, <1>6
<1> QED  BY <1>4, <1>5, <1>7, <1>8 DEF body, Written

(* What is filed is, byte for byte, what was read.                         *)
LEMMA FiledIsRead ==
  ASSUME NEW state \in Word, NEW w \in Seq(Byte),
         DecodePacket(state, w).ok, PacketHeader(state, w).len = Len(w)
  PROVE  LET pkt == DecodePacket(state, w)
         IN  WritePacket(state, pkt.tag, pkt.payload) = [bytes |-> w, state |-> pkt.state]
<1> DEFINE pkt == DecodePacket(state, w)
<1>1. pkt = ReadPacket(state, w)
  BY DecodePacketType
<1>2. ReadPacket(state, w).ok
  BY <1>1
<1> HIDE DEF pkt
<1>3. WritePacket(state, ReadPacket(state, w).tag, ReadPacket(state, w).payload)
        = [bytes |-> w, state |-> ReadPacket(state, w).state]
  BY <1>2, PacketWritesBack
<1> QED  BY <1>1, <1>3 DEF pkt

LEMMA TogetherOnPacket ==
  ASSUME DemodInv, BuilderInv, Together, Begins(Preamble, buffer), NEW byte \in Byte, NEW reply,
         ByteEndsPacket(Append(work, byte), reply), heard' = Append(heard, byte),
         byte_offset' = byte_offset + 1,
         AppendPacket(delivered'[Len(delivered')].tag, delivered'[Len(delivered')].payload),
         status' = "OK"
  PROVE  Together' /\ Begins(Preamble, buffer')
<1> DEFINE w   == Append(work, byte)
           pkt == DecodePacket(crc_state, w)
           body == Written(buffer)
           entry == [tag |-> pkt.tag, payload |-> pkt.payload, offset |-> PacketStart(w)]
<1>1. /\ buffer \in Seq(Byte) /\ work \in Seq(Byte) /\ heard \in Seq(Byte) /\ crc_state \in Word
      /\ delivered \in Seq(Packet) /\ byte_offset \in Nat
  BY DEF BuilderInv, BuilderTypeOK, DemodInv, TypeOK
<1>2. w \in Seq(Byte)
  BY <1>1
<1>3. /\ delivered' = Append(delivered, entry) /\ crc_state' = pkt.state /\ work' = <<>>
      /\ pkt.ok /\ PacketHeader(crc_state, w).len = Len(w)
  BY DEF ByteEndsPacket, CompletesPacket
<1>4. delivered'[Len(delivered')] = entry
  <2> HIDE DEF entry, Packet
  <2> QED  BY <1>1, <1>3
<1>5. AppendPacket(pkt.tag, pkt.payload)
  BY <1>4
<1> HIDE DEF entry, w
<1>6. WritePacket(crc_state, pkt.tag, pkt.payload) = [bytes |-> w, state |-> pkt.state]
  BY <1>1, <1>2, <1>3, FiledIsRead
<1>7. builder_state = crc_state /\ heard = body \o work /\ byte_offset = Len(heard)
  BY DEF Together
<1> DEFINE written == WritePacket(builder_state, pkt.tag, pkt.payload)
           objection == AppendObjection(Len(pkt.payload))
<1>8. /\ buffer' = buffer \o written.bytes /\ builder_state' = written.state
  <2>1. \/ objection # "OK" /\ Refuse(objection)
        \/ buffer' = buffer \o written.bytes /\ builder_state' = written.state
    BY <1>5 DEF AppendPacket
  <2>2. objection # "OK" /\ Refuse(objection) => status' # "OK"
    BY DEF Refuse
  <2> QED  BY <2>1, <2>2
<1>9. written.bytes = w /\ written.state = pkt.state
  BY <1>6, <1>7
<1> HIDE DEF written, pkt
<1>10. buffer' = buffer \o w /\ builder_state' = crc_state'
  BY <1>3, <1>8, <1>9
<1>11. /\ body \in Seq(Byte) /\ Written(buffer \o w) = body \o w /\ Begins(Preamble, buffer \o w)
  BY <1>1, <1>2, WrittenGrows
<1> HIDE DEF body
<1>12. heard' = body \o w /\ Len(heard') = Len(heard) + 1
  BY <1>1, <1>7, <1>11, ConcatAppend DEF w
<1>13. heard' = Written(buffer') \o work'
  <2>1. body \o w \in Seq(Byte)
    BY <1>2, <1>11, ByteConcat
  <2> QED  BY <1>3, <1>10, <1>11, <1>12, <2>1, ConcatNothing
<1> QED  BY <1>7, <1>10, <1>11, <1>12, <1>13 DEF Together

LEMMA FollowListens ==
  ASSUME DecodeInv, FollowInv, Listen
  PROVE  FollowInv'
<1>0. DemodInv /\ BuilderInv
  BY DEF DecodeInv
<1>1. PICK reply \in Replies, bit \in Bit : PushBit(bit, reply) /\ Collect(reply)
  <2>1. PICK reply \in Replies :
          /\ \/ Hear(reply) \/ HearWrong(reply)
             \/ \E bit \in Bit : HearExtra(bit, reply)
          /\ Collect(reply)
    BY DEF Listen
  <2>2. CASE Hear(reply) \/ HearWrong(reply)
    <3>1. Recording[pos] \in Bit /\ 1 - Recording[pos] \in Bit
      BY <2>2, RecordedBit DEF Hear, HearWrong, Faulty, DecodeInv, Bit
    <3> QED  BY <2>1, <2>2, <3>1 DEF Hear, HearWrong
  <2>3. CASE \E bit \in Bit : HearExtra(bit, reply)
    BY <2>1, <2>3 DEF HearExtra
  <2> QED  BY <2>1, <2>2, <2>3
<1>2. /\ stage = "push" /\ stage' = "push"
      /\ attempts' = IF ~run_synced /\ run_synced' THEN attempts + 1 ELSE attempts
  BY DEF Listen
<1>3. /\ pushing /\ pushing' = pushing /\ ~stopped /\ ctx_status = "OK"
      /\ attempts \in Nat /\ Begins(Preamble, buffer)
      /\ attempts = 0 => ~run_synced /\ buffer = Preamble /\ builder_state = InitialState
      /\ attempts = 1 /\ run_synced => Together
  BY <1>1, <1>2 DEF FollowInv, PushBit
<1>4. delivered \in Seq(Packet) /\ Len(delivered) \in Nat
  BY <1>0 DEF DemodInv, TypeOK
<1>5. ASSUME ~Delivers PROVE UNCHANGED <<capacity, buffer, builder_state, ctx_status>>
  BY <1>1, <1>5 DEF Collect, fileVars
<1>6. ASSUME UNCHANGED delivered PROVE ~Delivers
  BY <1>4, <1>6 DEF Delivers
<1>7. ASSUME UNCHANGED <<buffer, builder_state, ctx_status>>, attempts' = attempts,
             run_synced' => run_synced,
             attempts = 1 /\ run_synced /\ run_synced' => Together'
      PROVE  FollowInv'
  BY <1>2, <1>3, <1>7 DEF FollowInv
<1>8. CASE ~run_synced /\ (FirstWindow \/ Hunt(bit))
  <2>1. run_synced' = run_synced /\ UNCHANGED delivered
    BY <1>8 DEF FirstWindow, Hunt, history
  <2> QED  BY <1>2, <1>5, <1>6, <1>7, <1>8, <2>1
<1>9. CASE ~run_synced /\ Acquire(bit)
  <2>1. /\ run_synced' = TRUE /\ crc_state' = InitialState /\ byte_offset' = 0
        /\ work' = <<>> /\ heard' = <<>> /\ delivered' = <<>>
    BY <1>9 DEF Acquire
  <2>2. ~Delivers
    BY <1>4, <2>1 DEF Delivers
  <2>3. attempts' = attempts + 1 /\ UNCHANGED <<buffer, builder_state, ctx_status>>
    BY <1>2, <1>5, <1>9, <2>1, <2>2
  <2>4. ASSUME attempts' = 1 PROVE Together'
    <3>1. attempts = 0
      BY <1>3, <2>3, <2>4
    <3>2. buffer' = Preamble /\ builder_state' = InitialState
      BY <1>3, <2>3, <3>1
    <3>3. <<>> \o <<>> = <<>> /\ Len(<<>>) = 0
      BY ConcatNothing
    <3> QED  BY <2>1, <3>2, <3>3, PreambleWritten DEF Together
  <2> QED  BY <1>2, <1>3, <2>1, <2>3, <2>4 DEF FollowInv
<1>10. CASE run_synced /\ MidByte(bit)
  <2>1. UNCHANGED <<run_synced, delivered, heard, work, crc_state, byte_offset>>
    BY <1>10 DEF MidByte, history, pktVars
  <2>2. UNCHANGED <<buffer, builder_state, ctx_status>> /\ attempts' = attempts
    BY <1>2, <1>5, <1>6, <2>1
  <2>3. Together => Together'
    BY <2>1, <2>2 DEF Together, Written
  <2> QED  BY <1>3, <1>7, <2>1, <2>2, <2>3
<1>11. CASE run_synced /\ EndByte(bit, reply)
  <2> DEFINE byte == current_byte + bit * Pow2[8]
             w    == Append(work, byte)
  <2>1. /\ heard' = Append(heard, byte) /\ byte_offset' = byte_offset + 1 /\ OnByte(byte, reply)
        /\ bits_in_byte = 7
    BY <1>11 DEF EndByte
  <2>2. byte \in Byte
    BY <1>0, <2>1, LastBitFits DEF DemodInv
  <2> HIDE DEF byte
  <2>3. attempts' = attempts
    BY <1>2, <1>11
  <2>4. \/ BufferOverrun \/ ByteRejected(w) \/ ByteAwaited(w) \/ ByteEndsTail(w)
        \/ ByteEndsPacket(w, reply)
    BY <2>1 DEF OnByte
  <2>5. CASE BufferOverrun \/ ByteRejected(w)
    <3>1. run_synced' = FALSE /\ UNCHANGED delivered
      BY <2>5 DEF BufferOverrun, ByteRejected, SetSynced
    <3> QED  BY <1>5, <1>6, <1>7, <2>3, <3>1
  <2>6. CASE ByteAwaited(w) \/ ByteEndsTail(w)
    <3>1. work' = w /\ run_synced' = TRUE /\ UNCHANGED <<delivered, crc_state>>
      BY <2>6 DEF ByteAwaited, ByteEndsTail, SetSynced
    <3>2. UNCHANGED <<buffer, builder_state, ctx_status>>
      BY <1>5, <1>6, <3>1
    <3>3. ASSUME Together PROVE Together'
      <4>1. buffer \in Seq(Byte) /\ work \in Seq(Byte) /\ <<>> \in Seq(Byte)
        BY <1>0 DEF BuilderInv, BuilderTypeOK, DemodInv, TypeOK
      <4> DEFINE body == Written(buffer)
      <4>2. body \in Seq(Byte)
        BY <1>3, <4>1, WrittenGrows
      <4>3. heard = body \o work /\ builder_state = crc_state /\ byte_offset = Len(heard)
        BY <3>3 DEF Together
      <4>4. Written(buffer') = body
        BY <3>2 DEF Written
      <4> HIDE DEF body
      <4>5. heard' = body \o w /\ Len(heard') = Len(heard) + 1
        BY <2>1, <2>2, <4>1, <4>2, <4>3, ConcatAppend
      <4> QED  BY <2>1, <3>1, <3>2, <4>3, <4>4, <4>5 DEF Together
    <3> QED  BY <1>3, <1>7, <1>11, <2>3, <3>1, <3>2, <3>3
  <2>7. CASE ByteEndsPacket(w, reply)
    <3> DEFINE pkt == delivered'[Len(delivered')]
    <3>1. CASE Delivers
      <4>1. \/ /\ AppendPacket(pkt.tag, pkt.payload)
               /\ ctx_status' = status' /\ reply.stop = (status' # "OK")
            \/ ~Delivers
        BY <1>1 DEF Collect
      <4>2. /\ AppendPacket(pkt.tag, pkt.payload)
            /\ ctx_status' = status' /\ reply.stop = (status' # "OK")
        BY <3>1, <4>1
      <4>3. stopped' = reply.stop
        BY <2>7 DEF ByteEndsPacket
      <4>4. attempts # 0
        BY <1>3, <1>11
      <4>5. Begins(Preamble, buffer')
        <5> HIDE DEF pkt
        <5>1. buffer' = buffer \/ \E more \in Seq(Byte) : buffer' = buffer \o more
          <6> DEFINE written == WritePacket(builder_state, pkt.tag, pkt.payload)
          <6>1. pkt \in Packet
            <7>1. delivered' \in Seq(Packet)
              BY ListenerKeeps DEF DecodeNext, DemodInv, TypeOK
            <7>2. Len(delivered') \in 1..Len(delivered')
              BY <1>4, <3>1, <7>1 DEF Delivers
            <7> HIDE DEF Packet
            <7> QED  BY <7>1, <7>2 DEF pkt
          <6>2. pkt.tag \in Word /\ pkt.payload \in Seq(Byte) /\ builder_state \in Word
            BY <1>0, <6>1 DEF Packet, BuilderInv, BuilderTypeOK
          <6> DEFINE objection == AppendObjection(Len(pkt.payload))
          <6>3. \/ Refuse(objection)
                \/ objection = "OK" /\ buffer' = buffer \o written.bytes
            BY <4>2 DEF AppendPacket
          <6>4. CASE objection = "OK" /\ buffer' = buffer \o written.bytes
            <7>1. Len(pkt.payload) <= 255
              BY <6>2, <6>4 DEF AppendObjection, MaxPayload
            <7>2. written.bytes \in Seq(Byte)
              BY <6>2, <7>1, WritePacketType
            <7> QED  BY <6>4, <7>2
          <6> QED  BY <6>3, <6>4 DEF Refuse
        <5>2. buffer \in Seq(Byte)
          BY <1>0 DEF BuilderInv, BuilderTypeOK
        <5> QED  BY <1>3, <5>1, <5>2, WrittenGrows
      <4>6. ASSUME attempts = 1, status' = "OK" PROVE Together'
        <5>1. Together
          BY <1>3, <1>11, <4>6
        <5> QED  BY <1>0, <1>3, <2>1, <2>2, <2>7, <4>2, <4>6, <5>1, TogetherOnPacket
      <4> QED  BY <1>2, <1>3, <2>3, <4>2, <4>3, <4>4, <4>5, <4>6 DEF FollowInv
    <3>2. Delivers
      <4> DEFINE entry == [tag |-> DecodePacket(crc_state, w).tag,
                           payload |-> DecodePacket(crc_state, w).payload,
                           offset |-> PacketStart(w)]
      <4>1. delivered' = Append(delivered, entry)
        BY <2>7 DEF ByteEndsPacket
      <4> HIDE DEF entry, Packet
      <4> QED  BY <1>4, <4>1 DEF Delivers
    <3> QED  BY <3>1, <3>2
  <2> QED  BY <2>4, <2>5, <2>6, <2>7
<1> QED  BY <1>1, <1>8, <1>9, <1>10, <1>11 DEF PushBit

LEMMA FollowStep == DecodeInv /\ FollowInv /\ [DecodeNext]_decodeVars => FollowInv'
<1> SUFFICES ASSUME DecodeInv, FollowInv, [DecodeNext]_decodeVars PROVE FollowInv'
  OBVIOUS
<1>1. CASE Prepare
  <2>1. /\ stage' = "push" /\ pushing' = TRUE /\ run_synced' = synced /\ stage = "prepare"
        /\ UNCHANGED <<capacity, buffer, builder_state, ctx_status, attempts>>
        /\ Len(buffer) >= Len(Preamble)
    BY <1>1 DEF Prepare, ChunkBegins, PushBegin, fileVars
  <2>2. /\ ~synced /\ attempts = 0 /\ ctx_status = "OK" /\ buffer = Fresh(capacity)
        /\ builder_state = InitialState
    BY <2>1 DEF FollowInv
  <2>3. buffer = Preamble
    <3>1. capacity \in Nat /\ Len(Preamble) \in Nat /\ Len(<<>>) = 0
      BY FrameConstants DEF DecodeInv, BuilderInv, BuilderTypeOK
    <3> QED  BY <2>1, <2>2, <3>1 DEF Fresh
  <2> QED  BY <2>1, <2>2, <2>3, PreambleWritten DEF FollowInv
<1>2. CASE Listen
  BY <1>2, FollowListens
<1>3. CASE LoseSymbol \/ UNCHANGED decodeVars
  <2>1. /\ UNCHANGED <<stage, capacity, buffer, builder_state, ctx_status, attempts>>
        /\ UNCHANGED <<pushing, run_synced, synced, stopped, heard, work, crc_state, byte_offset>>
    BY <1>3 DEF LoseSymbol, Miss, decodeVars, linkVars, fileVars, vars, byteVars, pktVars, history
  <2> QED  BY <2>1 DEF FollowInv, Together, Written
<1>4. CASE \/ PrepareRefused \/ RecordingEnds \/ FlushDecides \/ FlushIdles \/ FilingFailed
           \/ NoTailHeard \/ CloseFrame
  <2>1. stage' # "prepare" /\ stage' # "push" /\ attempts' = attempts
    BY <1>4 DEF PrepareRefused, RecordingEnds, FlushDecides, FlushIdles, FilingFailed,
                NoTailHeard, CloseFrame, Return
  <2> QED  BY <2>1 DEF FollowInv
<1> QED  BY <1>1, <1>2, <1>3, <1>4 DEF DecodeNext

(* The frame po32_decode_f32 rebuilds is an exact copy of what its         *)
(* demodulator has confirmed, byte for byte and state for state, as long   *)
(* as the call is on its first lock (po32_decode_collect_packet, po32.c,   *)
(* over po32_demod_on_byte).  It rests on encoding and decoding being      *)
(* inverse both ways: PacketReadsBack and PacketWritesBack.                *)
THEOREM TheBuilderFollows == DecodeSpec => []BuilderFollows
<1>1. DecodeInit => FollowInv
  BY DEF DecodeInit, LinkInit, Init, BuilderInit, FollowInv
<1>2. DecodeInv /\ FollowInv => BuilderFollows
  BY FollowGives DEF DecodeInv
<1> QED  BY <1>1, <1>2, DecodeInitHolds, DecodeStep, FollowStep, PTL DEF DecodeSpec

=============================================================================
