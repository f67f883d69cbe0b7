--------------------------- MODULE PoFrames_proofs ---------------------------
(***************************************************************************)
(* The frames of the PO-33 and the PO-35 read back.                        *)
(*                                                                         *)
(* The inductive invariant says how a buffer is laid out: behind the       *)
(* counter each packet begins where the one before it ended and consists   *)
(* of what po_wire_write_packet writes from the running state after that   *)
(* one; a finished PO-35 frame then ends with the tail.  From the layout   *)
(* follows where the parser stands after each of its rounds, over any      *)
(* bytes that agree with the buffer as far as it has read: over the buffer *)
(* cut short, and over the buffer with other bytes behind it.              *)
(***************************************************************************)
EXTENDS PoFrames, POWire_proofs

LEMMA FrameConstants ==
  /\ OverheadBytes = 5 /\ HeaderBytes = 3 /\ TrailerBytes = 2 /\ TailBytes = 5
  /\ InitialState \in Word /\ TagBegin \in Word /\ TagEnd \in Word /\ TagBegin # TagEnd
  /\ TailTag = TailMarker1 + 256 * TailMarker2
  /\ MaxPayload = 255
<1>1. InitialState \in Word /\ TagBegin \in Word /\ TagEnd \in Word /\ TagBegin # TagEnd
  BY WordIs DEF InitialState, TagBegin, TagEnd
<1> QED
  BY <1>1 DEF OverheadBytes, HeaderBytes, TrailerBytes, TailBytes, TailTag, MaxPayload

LEMMA PreambleType ==
  CounterPreamble \in Seq(Byte) /\ Len(CounterPreamble) = CounterBytes + 4
<1> DEFINE ramp == [i \in 1..CounterBytes |-> (i - 1) % 256]
           sync == <<77, 184, 22, 93>>
<1>1. CounterBytes \in Nat
  BY FramesAssumption
<1>2. ramp \in Seq(Byte) /\ Len(ramp) = CounterBytes
  <2>1. \A i \in 1..CounterBytes : (i - 1) % 256 \in Byte
    BY <1>1, ByteIs
  <2> HIDE DEF Byte
  <2> QED  BY <1>1, <2>1
<1>3. sync \in Seq(Byte) /\ Len(sync) = 4
  BY ByteIs
<1> HIDE DEF ramp, sync
<1>4. ramp \o sync \in Seq(Byte) /\ Len(ramp \o sync) = CounterBytes + 4
  BY <1>2, <1>3, ByteConcat
<1> QED  BY <1>4 DEF CounterPreamble, ramp, sync

-----------------------------------------------------------------------------
(***************************************************************************)
(* The parser, round by round.                                             *)
(***************************************************************************)
Entry == [tag : Word, payload : Seq(Byte), offset : Nat]

FrameParser ==
  [pos : Nat, state : Word, packets : Seq(Entry), status : {"more", "done", "bad", "stopped"}]

LEMMA NewParseType ==
  NewParse \in FrameParser
<1>1. Len(CounterPreamble) \in Nat /\ <<>> \in Seq(Entry)
  BY PreambleType, FramesAssumption
<1> QED  BY <1>1, FrameConstants DEF NewParse, FrameParser

LEMMA TakenType ==
  ASSUME NEW p \in FrameParser, NEW rest \in Seq(Byte), ReadPacket(p.state, rest).ok
  PROVE  Taken(p, ReadPacket(p.state, rest)) \in FrameParser
<1> DEFINE read == ReadPacket(p.state, rest)
           entry == Placed(read.tag, read.payload, p.pos)
           packets == Append(p.packets, entry)
           pos == p.pos + read.len
<1>1. p.pos \in Nat /\ p.state \in Word /\ p.packets \in Seq(Entry)
  BY DEF FrameParser
<1>2. read.len \in Nat /\ read.tag \in Word /\ read.payload \in Seq(Byte) /\ read.state \in Word
  BY <1>1, ReadPacketType
<1> HIDE DEF read
<1>3. entry \in Entry
  BY <1>1, <1>2 DEF Placed, Entry
<1> HIDE DEF entry
<1>4. packets \in Seq(Entry) /\ pos \in Nat
  BY <1>1, <1>2, <1>3
<1>5. Taken(p, read) = [p EXCEPT !.packets = packets, !.pos = pos, !.state = read.state]
  BY DEF Taken, entry
<1> HIDE DEF packets, pos
<1>6. Taken(p, read) \in FrameParser
  BY <1>2, <1>4, <1>5 DEF FrameParser
<1> QED  BY <1>6 DEF read

LEMMA WithStatus ==
  ASSUME NEW p \in FrameParser, NEW s \in {"more", "done", "bad", "stopped"}
  PROVE  [p EXCEPT !.status = s] \in FrameParser
  BY DEF FrameParser

LEMMA TailKept ==
  ASSUME NEW state \in Word, NEW rest \in Seq(Byte), Len(rest) >= 5, ReadTail(state, rest).ok
  PROVE  ReadTail(state, rest).tail.final \in Word
<1> DEFINE front == SubSeq(rest, 1, TailBytes)
<1>1. front \in Seq(Byte) /\ Len(front) = TailBytes
  BY FrameConstants, ByteSlice
<1>2. ReadTail(state, front) = ReadTail(state, rest)
  BY FrameConstants, TailFromFront
<1> HIDE DEF front
<1>3. ReadTail(state, front).tail \in [before : Word, after : Word, final : Word]
  BY <1>1, <1>2, ReadTailType
<1> QED  BY <1>2, <1>3

LEMMA StepType ==
  ASSUME NEW for, NEW p \in FrameParser, NEW rest \in Seq(Byte), Len(rest) >= 5
  PROVE  Step(for, p, rest) \in FrameParser
<1> DEFINE read == ReadPacket(p.state, rest)
           tail == ReadTail(p.state, rest)
           bad  == [p EXCEPT !.status = "bad"]
<1>1. p.state \in Word /\ p.pos \in Nat /\ bad \in FrameParser
  BY WithStatus DEF FrameParser
<1>2. read.ok => Taken(p, read) \in FrameParser
  BY TakenType
<1> HIDE DEF bad, read
<1>3. ASSUME read.ok, NEW s \in {"more", "done"}
      PROVE  [Taken(p, read) EXCEPT !.status = s] \in FrameParser
  BY <1>2, <1>3, WithStatus
<1>4. Step33(p, rest) \in FrameParser
  <2>1. Step33(p, rest) =
          IF ~read.ok \/ Misplaced(p, read) THEN bad
          ELSE [Taken(p, read) EXCEPT !.status = IF read.tag = TagEnd THEN "done" ELSE "more"]
    BY DEF Step33, bad, read
  <2> QED  BY <1>1, <1>3, <2>1
<1>5. Step35(p, rest) \in FrameParser
  <2>1. Step35(p, rest) =
          IF tail.ok
          THEN [p EXCEPT !.pos = @ + TailBytes, !.state = tail.tail.final, !.status = "done"]
          ELSE IF ~read.ok \/ read.tag = TailTag THEN bad ELSE Taken(p, read)
    BY DEF Step35, bad, read
  <2>2. ASSUME tail.ok
        PROVE  [p EXCEPT !.pos = @ + TailBytes, !.state = tail.tail.final, !.status = "done"]
                 \in FrameParser
    <3>1. tail.tail.final \in Word
      BY <1>1, <2>2, TailKept
    <3> HIDE DEF tail
    <3>2. p.pos + TailBytes \in Nat
      BY <1>1, FrameConstants
    <3> QED  BY <3>1, <3>2 DEF FrameParser
  <2> HIDE DEF tail
  <2> QED  BY <1>1, <1>2, <2>1, <2>2
<1> QED  BY <1>4, <1>5 DEF Step

LEMMA RoundSettled ==
  ASSUME NEW for, NEW F, NEW stop, NEW p, p.status # "more"
  PROVE  Round(for, F, stop, p) = p
  BY DEF Round

LEMMA RoundType ==
  ASSUME NEW for, NEW F \in Seq(Byte), NEW stop, NEW p \in FrameParser
  PROVE  Round(for, F, stop, p) \in FrameParser
<1> DEFINE rest == SubSeq(F, p.pos + 1, Len(F))
           step == Step(for, p, rest)
<1>1. p.pos \in Nat /\ Len(F) \in Nat
  BY DEF FrameParser
<1>2. CASE p.status # "more"
  BY <1>2, RoundSettled
<1>3. CASE p.status = "more" /\ Len(F) - p.pos < 5
  BY <1>3, FrameConstants, WithStatus DEF Round
<1>4. CASE p.status = "more" /\ ~(Len(F) - p.pos < 5)
  <2>1. rest \in Seq(Byte) /\ Len(rest) >= 5
    BY <1>1, <1>4
  <2> HIDE DEF rest
  <2>2. step \in FrameParser
    BY <2>1, StepType
  <2>3. Round(for, F, stop, p) = Stopping(step, stop)
    BY <1>4, FrameConstants DEF Round, rest
  <2> HIDE DEF step
  <2> QED  BY <2>2, <2>3, WithStatus DEF Stopping
<1> QED  BY <1>2, <1>3, <1>4

LEMMA ParserRunExists ==
  ASSUME NEW s \in FrameParser, NEW n \in Nat, NEW G \in [1..n -> [FrameParser -> FrameParser]]
  PROVE  \E f \in [0..n -> FrameParser] : f[0] = s /\ \A i \in 1..n : f[i] = G[i][f[i-1]]
  BY RunExists, SMT

LEMMA RoundsRun ==
  ASSUME NEW for, NEW F \in Seq(Byte), NEW stop, Len(F) >= Len(CounterPreamble)
  PROVE  LET run == Rounds(for, F, stop)
         IN  /\ LastRound(F) \in Nat
             /\ run[0] = NewParse
             /\ \A k \in 1..LastRound(F) : run[k] = Round(for, F, stop, run[k-1])
<1> DEFINE n == LastRound(F)
           Def(f) == f = [k \in 0..n |-> IF k = 0 THEN NewParse ELSE Round(for, F, stop, f[k-1])]
           R == Rounds(for, F, stop)
           G == [k \in 1..n |-> [q \in FrameParser |-> Round(for, F, stop, q)]]
<1>1. R = CHOOSE f : Def(f)
  BY DEF Rounds
<1>2. n \in Nat
  <2>1. Len(F) \in Nat /\ Len(CounterPreamble) \in Nat
    BY PreambleType
  <2> QED  BY <2>1, FrameConstants DEF LastRound
<1>3. G \in [1..n -> [FrameParser -> FrameParser]]
  BY RoundType
<1>4. PICK f \in [0..n -> FrameParser] : f[0] = NewParse /\ \A k \in 1..n : f[k] = G[k][f[k-1]]
  <2> HIDE DEF G, n
  <2> QED  BY <1>2, <1>3, NewParseType, ParserRunExists
<1>5. ASSUME NEW k \in 0..n
      PROVE  f[k] = IF k = 0 THEN NewParse ELSE Round(for, F, stop, f[k-1])
  <2>1. CASE k = 0
    BY <1>4, <2>1
  <2>2. CASE k \in 1..n
    <3>1. k - 1 \in 0..n
      BY <1>2, <2>2
    <3>2. f[k-1] \in FrameParser
      BY <3>1
    <3>3. G[k][f[k-1]] = Round(for, F, stop, f[k-1])
      BY <2>2, <3>2
    <3> QED  BY <1>4, <2>2, <3>3
  <2> QED  BY <1>2, <2>1, <2>2
<1>6. Def(f)
  BY <1>4, <1>5
<1>7. Def(R)
  <2> HIDE DEF Def, R
  <2> QED  BY <1>1, <1>6
<1>8. R[0] = NewParse /\ \A k \in 1..n : R[k] = Round(for, F, stop, R[k-1])
  <2>1. 0 \in 0..n /\ \A k \in 1..n : k \in 0..n /\ k # 0
    BY <1>2
  <2> HIDE DEF R, n
  <2>2. \A k \in 0..n : R[k] = IF k = 0 THEN NewParse ELSE Round(for, F, stop, R[k-1])
    BY <1>7, Zenon
  <2> QED  BY <2>1, <2>2
<1> QED  BY <1>2, <1>8

(* Once a round does not go on, what it left is what the parser reports.   *)
LEMMA RunSettles ==
  ASSUME NEW for, NEW F \in Seq(Byte), NEW stop, Begins(CounterPreamble, F),
         NEW n \in 0..LastRound(F), Rounds(for, F, stop)[n].status # "more"
  PROVE  Parse(for, F, stop) = Rounds(for, F, stop)[n]
<1> DEFINE run  == Rounds(for, F, stop)
           last == LastRound(F)
           q    == run[n]
           m    == last - n
           T    == { i \in 0..m : run[n + i] = q }
<1>1. Len(F) >= Len(CounterPreamble) /\ Len(F) \in Nat /\ Len(CounterPreamble) \in Nat
  BY PreambleType DEF Begins
<1>2. last \in Nat /\ \A k \in 1..last : run[k] = Round(for, F, stop, run[k-1])
  BY <1>1, RoundsRun
<1>3. Round(for, F, stop, q) = q
  BY RoundSettled
<1> HIDE DEF run, last
<1>4. n \in Nat /\ n <= last /\ m \in Nat
  BY <1>2 DEF last
<1> HIDE DEF q
<1>5. 0 \in T
  BY <1>4 DEF q
<1>6. ASSUME NEW i \in 1..m, i - 1 \in T PROVE i \in T
  <2>1. n + i \in 1..last /\ (n + i) - 1 = n + (i - 1) /\ i \in 0..m
    BY <1>2, <1>4
  <2>2. run[n + (i - 1)] = q
    BY <1>6
  <2>3. run[n + i] = Round(for, F, stop, run[(n + i) - 1])
    <3> DEFINE j == n + i
    <3>1. j \in 1..last
      BY <2>1
    <3> HIDE DEF j
    <3>2. run[j] = Round(for, F, stop, run[j - 1])
      BY <1>2, <3>1
    <3> QED  BY <3>2 DEF j
  <2>4. run[n + i] = q
    BY <1>3, <2>1, <2>2, <2>3
  <2> QED  BY <2>1, <2>4
<1>7. m \in T
  <2>1. 0..m \subseteq T
    <3> HIDE DEF T, m
    <3> QED  BY <1>4, <1>5, <1>6, InductionUpTo
  <2> HIDE DEF T
  <2> QED  BY <1>4, <2>1
<1>8. run[last] = q
  <2>1. n + m = last
    BY <1>2, <1>4
  <2>2. run[n + m] = q
    BY <1>7
  <2> QED  BY <2>1, <2>2
<1>9. IsPrefix(CounterPreamble, F)
  <2> DEFINE c == CounterPreamble
             l == Len(c)
             a == 1
  <2>1. c \in Seq(Byte) /\ Begins(c, F) /\ l \in Nat /\ l <= Len(F)
    BY <1>1, PreambleType
  <2>2. a \in Nat /\ a <= l + 1 /\ l <= Len(c) /\ 1 <= a
    <3> HIDE DEF c
    <3> QED  BY <2>1
  <2>3. SubSeq(F, a, l) = SubSeq(c, a, l)
    <3> HIDE DEF c, l
    <3>1. l <= Len(c)
      BY <2>2
    <3> HIDE DEF a
    <3>2. 1 <= a
      BY <2>2
    <3> QED  BY <2>1, <2>2, <3>1, <3>2, SliceOfBeginning, ZenonT(60)
  <2> QED  BY <2>1, <2>3 DEF IsPrefix
<1>10. Parse(for, F, stop) = run[last]
  BY <1>9 DEF Parse, run, last
<1> QED  BY <1>8, <1>10 DEF q, run

-----------------------------------------------------------------------------
(***************************************************************************)
(* The layout of a buffer.                                                 *)
(***************************************************************************)
(* Where the first k packets end.                                          *)
End(pk, k) ==
  IF k = 0 THEN Len(CounterPreamble) ELSE pk[k].offset + OverheadBytes + Len(pk[k].payload)

(* The packets follow one another from the counter on, each written from   *)
(* the state st[k-1] that the one before it led to.                        *)
LaidAt(bf, pk, st, k) ==
  LET w == WritePacket(st[k-1], pk[k].tag, pk[k].payload)
  IN  /\ Len(pk[k].payload) <= 255
      /\ pk[k].offset = End(pk, k-1)
      /\ End(pk, k) <= Len(bf)
      /\ SubSeq(bf, End(pk, k-1) + 1, End(pk, k)) = w.bytes
      /\ st[k] = w.state

Laid(bf, pk, st) ==
  /\ st \in [0..Len(pk) -> Word] /\ st[0] = InitialState
  /\ Begins(CounterPreamble, bf)
  /\ \A k \in 1..Len(pk) : LaidAt(bf, pk, st, k)

(* F is like bf as far as e.                                               *)
Shares(F, bf, e) == e <= Len(F) /\ e <= Len(bf) /\ \A i \in 1..e : F[i] = bf[i]

LEMMA SharedSlice ==
  ASSUME NEW F \in Seq(Byte), NEW bf \in Seq(Byte), NEW e \in Nat, Shares(F, bf, e),
         NEW m \in Nat, NEW n \in Nat, 1 <= m, m <= n + 1, n <= e
  PROVE  SubSeq(F, m, n) = SubSeq(bf, m, n)
<1> DEFINE one == SubSeq(F, m, n)
           two == SubSeq(bf, m, n)
<1>1. m \in Int /\ n \in Int /\ n <= Len(F) /\ n <= Len(bf) /\ Len(F) \in Nat /\ Len(bf) \in Nat
  BY DEF Shares
<1>2. /\ one \in Seq(Byte) /\ Len(one) = n - m + 1
      /\ \A i \in 1..(n - m + 1) : one[i] = F[m + i - 1]
  BY <1>1, ByteSlice, SliceAt
<1>3. /\ two \in Seq(Byte) /\ Len(two) = n - m + 1
      /\ \A i \in 1..(n - m + 1) : two[i] = bf[m + i - 1]
  BY <1>1, ByteSlice, SliceAt
<1>4. \A i \in 1..(n - m + 1) : m + i - 1 \in 1..e
  BY <1>1
<1>5. \A i \in 1..Len(one) : one[i] = two[i]
  <2> HIDE DEF one, two
  <2> QED  BY <1>2, <1>3, <1>4 DEF Shares
<1> HIDE DEF one, two
<1> QED  BY <1>2, <1>3, <1>5, SeqEqual DEF one, two

LEMMA EndOfNext ==
  ASSUME NEW bf \in Seq(Byte), NEW pk \in Seq(Entry), NEW st, Laid(bf, pk, st),
         NEW k \in 1..Len(pk)
  PROVE  /\ pk[k].tag \in Word /\ pk[k].payload \in Seq(Byte) /\ Len(pk[k].payload) <= 255
         /\ Len(pk[k].payload) \in Nat /\ pk[k].offset \in Nat
         /\ st[k-1] \in Word /\ st[k] \in Word
         /\ End(pk, k-1) \in Nat /\ End(pk, k) \in Nat
         /\ pk[k].offset = End(pk, k-1)
         /\ End(pk, k) = End(pk, k-1) + 5 + Len(pk[k].payload)
         /\ End(pk, k) <= Len(bf)
<1>1. Len(pk) \in Nat /\ k \in 0..Len(pk) /\ k - 1 \in 0..Len(pk) /\ k # 0
  OBVIOUS
<1>2. pk[k] \in Entry
  OBVIOUS
<1>3. pk[k].tag \in Word /\ pk[k].payload \in Seq(Byte) /\ pk[k].offset \in Nat
  BY <1>2 DEF Entry
<1>4. Len(pk[k].payload) \in Nat
  BY <1>3
<1>5. /\ Len(pk[k].payload) <= 255 /\ pk[k].offset = End(pk, k-1) /\ End(pk, k) <= Len(bf)
      /\ st \in [0..Len(pk) -> Word]
  BY DEF Laid, LaidAt
<1>6. End(pk, k) = pk[k].offset + 5 + Len(pk[k].payload)
  BY <1>1, FrameConstants DEF End
<1>7. st[k-1] \in Word /\ st[k] \in Word
  BY <1>1, <1>5
<1> QED  BY <1>3, <1>4, <1>5, <1>6, <1>7

LEMMA EndType ==
  ASSUME NEW bf \in Seq(Byte), NEW pk \in Seq(Entry), NEW st, Laid(bf, pk, st),
         NEW k \in 0..Len(pk)
  PROVE  End(pk, k) \in Nat /\ End(pk, k) <= Len(bf) /\ st[k] \in Word
<1>1. CASE k = 0
  <2>1. End(pk, 0) = Len(CounterPreamble) /\ Len(CounterPreamble) \in Nat
    BY PreambleType, FramesAssumption DEF End
  <2> QED  BY <1>1, <2>1 DEF Laid, LaidAt, Begins
<1>2. CASE k \in 1..Len(pk)
  BY <1>2, EndOfNext
<1> QED  BY <1>1, <1>2

(* Every packet takes five bytes or more.                                  *)
LEMMA EndGrows ==
  ASSUME NEW bf \in Seq(Byte), NEW pk \in Seq(Entry), NEW st, Laid(bf, pk, st),
         NEW i \in 0..Len(pk), NEW k \in 0..Len(pk), i <= k
  PROVE  End(pk, i) + 5 * (k - i) <= End(pk, k)
<1> DEFINE T == { j \in 0..(k - i) : End(pk, i) + 5 * j <= End(pk, i + j) }
           n == k - i
<1>1. n \in Nat /\ i \in Nat /\ k \in Nat /\ Len(pk) \in Nat
  OBVIOUS
<1>2. 0 \in T
  <2>1. End(pk, i) \in Nat
    BY EndType
  <2> QED  BY <1>1, <2>1
<1>3. ASSUME NEW j \in 1..n, j - 1 \in T PROVE j \in T
  <2> DEFINE l == i + j
  <2>1. l \in 1..Len(pk) /\ l - 1 = i + (j - 1) /\ j \in 0..n
    BY <1>1
  <2>2. End(pk, i) + 5 * (j - 1) <= End(pk, l - 1)
    BY <1>3, <2>1
  <2> HIDE DEF l
  <2>3. /\ End(pk, l - 1) \in Nat /\ End(pk, l) = End(pk, l - 1) + 5 + Len(pk[l].payload)
        /\ Len(pk[l].payload) \in Nat /\ End(pk, i) \in Nat
    BY <2>1, EndOfNext, EndType
  <2>4. End(pk, i) + 5 * j <= End(pk, l)
    BY <1>1, <2>2, <2>3, SMTT(30)
  <2> QED  BY <2>1, <2>4 DEF l
<1>4. n \in T
  <2>1. 0..n \subseteq T
    <3> HIDE DEF T, n
    <3> QED  BY <1>1, <1>2, <1>3, InductionUpTo
  <2> HIDE DEF T
  <2> QED  BY <1>1, <2>1
<1>5. i + n = k
  BY <1>1
<1> QED  BY <1>4, <1>5

(* What the reader makes of a packet, and what stands at the front.        *)
Found(tag, payload, state) ==
  [ok |-> TRUE, tag |-> tag, payload |-> payload, len |-> 5 + Len(payload), state |-> state]

FirstBytes(rest, n) == SubSeq(rest, 1, n)

(* A packet that is all there reads back, whatever follows it, and one     *)
(* that is cut is no packet; neither is a tail.                            *)
LEMMA FirstBytesRead ==
  ASSUME NEW state \in Word, NEW tag \in Word, NEW payload \in Seq(Byte), Len(payload) <= 255,
         NEW w, w = WritePacket(state, tag, payload),
         NEW rest \in Seq(Byte), NEW n \in Nat, n = 5 + Len(payload), n <= Len(rest),
         FirstBytes(rest, n) = w.bytes
  PROVE  /\ ReadPacket(state, rest) = Found(tag, payload, w.state)
         /\ tag # TailTag => ~ReadTail(state, rest).ok
<1> DEFINE found == [ok |-> TRUE, tag |-> tag, payload |-> payload, len |-> n, state |-> w.state]
           bytes == w.bytes
<1>1. bytes \in Seq(Byte) /\ Len(bytes) = n
  BY WritePacketType, FrameConstants
<1>2. ReadPacket(state, bytes) = found
  <2>1. ReadPacket(state, bytes) =
          [ok |-> TRUE, tag |-> tag, payload |-> payload, len |-> OverheadBytes + Len(payload),
           state |-> w.state]
    BY PacketReadsBack
  <2>2. OverheadBytes + Len(payload) = n
    BY FrameConstants
  <2> QED  BY <2>1, <2>2
<1>3. found.ok
  OBVIOUS
<1>4. ReadTail(state, bytes).ok => tag = TailTag
  BY PacketAsTail, FrameConstants
<1> HIDE DEF found, bytes
<1>10. SubSeq(rest, 1, n) = bytes
  BY DEF bytes, FirstBytes
<1>5. ReadPacket(state, SubSeq(rest, 1, n)) = found
  BY <1>2, <1>10
<1>6. ReadPacket(state, SubSeq(rest, 1, n)).ok
  BY <1>3, <1>5
<1>7. ReadPacket(state, rest) = found
  BY <1>5, <1>6, PacketFromFront
<1>8. ReadTail(state, rest) = ReadTail(state, bytes)
  <2>1. Len(payload) \in Nat /\ Len(rest) \in Nat
    OBVIOUS
  <2>2. Len(bytes) >= TailBytes /\ Len(rest) >= TailBytes /\ 5 <= n
    BY <1>1, <2>1, FrameConstants
  <2>3. /\ ReadTail(state, SubSeq(rest, 1, TailBytes)) = ReadTail(state, rest)
        /\ ReadTail(state, SubSeq(bytes, 1, TailBytes)) = ReadTail(state, bytes)
    BY <1>1, <2>2, TailFromFront
  <2>4. SubSeq(SubSeq(rest, 1, n), 1, 5) = SubSeq(rest, 1, 5)
    BY <2>2, SliceOfFront
  <2> QED  BY <1>10, <2>3, <2>4, FrameConstants
<1> QED  BY <1>4, <1>7, <1>8 DEF found, Found

LEMMA CutReads ==
  ASSUME NEW state \in Word, NEW tag \in Word, NEW payload \in Seq(Byte), Len(payload) <= 255,
         NEW w, w = WritePacket(state, tag, payload),
         NEW m \in Nat, 5 <= m, m < 5 + Len(payload),
         NEW rest, rest = SubSeq(w.bytes, 1, m)
  PROVE  /\ ~ReadPacket(state, rest).ok
         /\ tag # TailTag => ~ReadTail(state, rest).ok
<1> DEFINE n == 5 + Len(payload)
           bytes == w.bytes
<1>1. bytes \in Seq(Byte) /\ Len(bytes) = n
  BY WritePacketType, FrameConstants
<1>2. PacketHeader(state, bytes) = [tag |-> tag, len |-> n]
  <2>1. PacketHeader(state, bytes) = [tag |-> tag, len |-> OverheadBytes + Len(payload)]
    BY PacketReadsBack
  <2>2. OverheadBytes + Len(payload) = n
    BY FrameConstants
  <2> QED  BY <2>1, <2>2
<1>3. ReadTail(state, bytes).ok => tag = TailTag
  BY PacketAsTail, FrameConstants
<1>4. n \in Nat /\ m < n
  OBVIOUS
<1>11. rest = SubSeq(bytes, 1, m)
  OBVIOUS
<1> HIDE DEF n, bytes
<1>5. PacketHeader(state, bytes).len = n
  BY <1>2
<1>6. rest \in Seq(Byte) /\ Len(rest) = m
  BY <1>1, <1>4, <1>11
<1>7. HeaderBytes <= m /\ m <= Len(bytes) /\ Len(bytes) >= TailBytes /\ Len(rest) >= TailBytes
  BY <1>1, <1>4, <1>6, FrameConstants
<1>8. PacketHeader(state, rest).len = n
  <2>1. PacketHeader(state, SubSeq(bytes, 1, m)) = PacketHeader(state, bytes)
    BY <1>1, <1>7, HeaderFromFront
  <2> QED  BY <1>5, <1>11, <2>1
<1>9. ~ReadPacket(state, rest).ok
  <2>1. ~(PacketHeader(state, rest).len <= Len(rest))
    BY <1>4, <1>6, <1>8
  <2> QED  BY <2>1 DEF ReadPacket
<1>10. ReadTail(state, rest) = ReadTail(state, bytes)
  <2>1. /\ ReadTail(state, SubSeq(rest, 1, TailBytes)) = ReadTail(state, rest)
        /\ ReadTail(state, SubSeq(bytes, 1, TailBytes)) = ReadTail(state, bytes)
    BY <1>1, <1>6, <1>7, TailFromFront
  <2>2. SubSeq(SubSeq(bytes, 1, m), 1, 5) = SubSeq(bytes, 1, 5)
    BY <1>1, <1>7, SliceOfFront
  <2> QED  BY <1>11, <2>1, <2>2, FrameConstants
<1> QED  BY <1>3, <1>9, <1>10

(* The same of the packets of a buffer.                                    *)
LEMMA RestReads ==
  ASSUME NEW bf \in Seq(Byte), NEW pk \in Seq(Entry), NEW st, Laid(bf, pk, st),
         NEW k \in 1..Len(pk), NEW F \in Seq(Byte), Shares(F, bf, End(pk, k))
  PROVE  LET rest == SubSeq(F, End(pk, k-1) + 1, Len(F))
         IN  /\ ReadPacket(st[k-1], rest) = Found(pk[k].tag, pk[k].payload, st[k])
             /\ pk[k].tag # TailTag => ~ReadTail(st[k-1], rest).ok
<1> DEFINE w    == WritePacket(st[k-1], pk[k].tag, pk[k].payload)
           a    == End(pk, k-1)
           n    == 5 + Len(pk[k].payload)
           rest == SubSeq(F, a + 1, Len(F))
<1> HIDE DEF w, a, n, rest
<1>1. /\ pk[k].tag \in Word /\ pk[k].payload \in Seq(Byte) /\ Len(pk[k].payload) <= 255
      /\ st[k-1] \in Word /\ a \in Nat /\ n \in Nat /\ n = 5 + Len(pk[k].payload)
      /\ End(pk, k) = a + n
  <2>1. /\ pk[k].tag \in Word /\ pk[k].payload \in Seq(Byte) /\ Len(pk[k].payload) <= 255
        /\ Len(pk[k].payload) \in Nat /\ st[k-1] \in Word /\ End(pk, k-1) \in Nat
        /\ End(pk, k) = End(pk, k-1) + 5 + Len(pk[k].payload)
    BY EndOfNext, SMTT(30)
  <2> QED  BY <2>1 DEF a, n
<1>2. SubSeq(bf, a + 1, a + n) = w.bytes /\ st[k] = w.state
  BY <1>1 DEF Laid, LaidAt, w, a
<1>3. Len(F) \in Nat /\ a + n <= Len(F) /\ Shares(F, bf, a + n)
  BY <1>1 DEF Shares
<1>4. SubSeq(F, a + 1, a + n) = SubSeq(bf, a + 1, a + n)
  <2> DEFINE b == a + 1
             e == a + n
  <2>1. b \in Nat /\ e \in Nat /\ 1 <= b /\ b <= e + 1 /\ e <= e
    BY <1>1
  <2>2. Shares(F, bf, e)
    BY <1>3
  <2> HIDE DEF b, e
  <2>3. SubSeq(F, b, e) = SubSeq(bf, b, e)
    BY <2>1, <2>2, SharedSlice, ZenonT(60)
  <2> QED  BY <2>3 DEF b, e
<1>5. SubSeq(rest, 1, n) = w.bytes
  BY <1>1, <1>2, <1>3, <1>4, SliceOfRest DEF rest
<1>6. rest \in Seq(Byte) /\ Len(rest) >= n
  BY <1>1, <1>3 DEF rest
<1>7. w = WritePacket(st[k-1], pk[k].tag, pk[k].payload)
  BY DEF w
<1>8. /\ ReadPacket(st[k-1], rest) = Found(pk[k].tag, pk[k].payload, w.state)
      /\ pk[k].tag # TailTag => ~ReadTail(st[k-1], rest).ok
  <2> DEFINE state   == st[k-1]
             tag     == pk[k].tag
             payload == pk[k].payload
  <2>1. /\ w = WritePacket(state, tag, payload) /\ rest \in Seq(Byte) /\ n \in Nat
        /\ n = 5 + Len(payload) /\ n <= Len(rest) /\ FirstBytes(rest, n) = w.bytes
        /\ state \in Word /\ tag \in Word /\ payload \in Seq(Byte) /\ Len(payload) <= 255
    BY <1>1, <1>5, <1>6, <1>7 DEF FirstBytes
  <2> HIDE DEF state, tag, payload
  <2>2. /\ ReadPacket(state, rest) = Found(tag, payload, w.state)
        /\ tag # TailTag => ~ReadTail(state, rest).ok
    BY <2>1, FirstBytesRead
  <2> QED  BY <2>2 DEF state, tag, payload
<1> QED  BY <1>2, <1>8 DEF rest, a

LEMMA RestCut ==
  ASSUME NEW bf \in Seq(Byte), NEW pk \in Seq(Entry), NEW st, Laid(bf, pk, st),
         NEW k \in 1..Len(pk), NEW F \in Seq(Byte), Shares(F, bf, Len(F)),
         End(pk, k-1) + 5 <= Len(F), Len(F) < End(pk, k)
  PROVE  LET rest == SubSeq(F, End(pk, k-1) + 1, Len(F))
         IN  /\ ~ReadPacket(st[k-1], rest).ok
             /\ pk[k].tag # TailTag => ~ReadTail(st[k-1], rest).ok
<1> DEFINE w    == WritePacket(st[k-1], pk[k].tag, pk[k].payload)
           a    == End(pk, k-1)
           n    == 5 + Len(pk[k].payload)
           rest == SubSeq(F, a + 1, Len(F))
           m    == Len(F) - a
<1> HIDE DEF w, a, n, m, rest
<1>1. /\ pk[k].tag \in Word /\ pk[k].payload \in Seq(Byte) /\ Len(pk[k].payload) <= 255
      /\ st[k-1] \in Word /\ a \in Nat /\ n \in Nat /\ n = 5 + Len(pk[k].payload)
      /\ End(pk, k) = a + n /\ a + n <= Len(bf)
  <2>1. /\ pk[k].tag \in Word /\ pk[k].payload \in Seq(Byte) /\ Len(pk[k].payload) <= 255
        /\ Len(pk[k].payload) \in Nat /\ st[k-1] \in Word /\ End(pk, k-1) \in Nat
        /\ End(pk, k) = End(pk, k-1) + 5 + Len(pk[k].payload) /\ End(pk, k) <= Len(bf)
    BY EndOfNext
  <2> QED  BY <2>1 DEF a, n
<1>2. SubSeq(bf, a + 1, a + n) = w.bytes
  BY <1>1 DEF Laid, LaidAt, w, a
<1>3. w = WritePacket(st[k-1], pk[k].tag, pk[k].payload)
  BY DEF w
<1>4. m \in Nat /\ 5 <= m /\ m < n /\ Len(F) = a + m
  <2>1. Len(F) \in Nat /\ a + 5 <= Len(F) /\ Len(F) < a + n
    BY <1>1 DEF a
  <2> QED  BY <1>1, <2>1 DEF m
<1>5. rest = SubSeq(bf, a + 1, a + m)
  <2>1. /\ a + m \in Nat /\ a + 1 \in Nat /\ 1 <= a + 1 /\ a + 1 <= (a + m) + 1 /\ a + m <= Len(F)
        /\ Len(F) \in Nat
    BY <1>1, <1>4
  <2>2. SubSeq(F, a + 1, a + m) = SubSeq(bf, a + 1, a + m)
    <3> DEFINE b == a + 1
               e == a + m
    <3>1. /\ b \in Nat /\ e \in Nat /\ 1 <= b /\ b <= e + 1 /\ e <= e /\ e = Len(F)
      BY <1>4, <2>1
    <3> HIDE DEF b, e
    <3>2. Shares(F, bf, e)
      BY <3>1
    <3>3. SubSeq(F, b, e) = SubSeq(bf, b, e)
      BY <3>1, <3>2, SharedSlice, ZenonT(60)
    <3> QED  BY <3>3 DEF b, e
  <2> QED  BY <1>4, <2>2 DEF rest
<1>6. rest = SubSeq(w.bytes, 1, m)
  <2>1. Len(bf) \in Nat /\ a + m <= Len(bf)
    <3>1. Len(bf) \in Nat
      OBVIOUS
    <3>2. a \in Nat /\ n \in Nat /\ m \in Nat /\ a + n <= Len(bf) /\ m < n
      BY <1>1, <1>4, Zenon
    <3> QED  BY <3>1, <3>2
  <2> DEFINE long == SubSeq(bf, a + 1, a + n)
             one  == SubSeq(long, 1, m)
             two  == SubSeq(bf, a + 1, a + m)
  <2>2. /\ long \in Seq(Byte) /\ Len(long) = n /\ \A i \in 1..n : long[i] = bf[a + i]
    <3> DEFINE b == a + 1
               e == a + n
    <3>1. /\ b \in Int /\ e \in Int /\ 1 <= b /\ b <= e + 1 /\ e <= Len(bf)
          /\ (e - b) + 1 = n /\ \A i \in 1..n : (b + i) - 1 = a + i
      BY <1>1
    <3> HIDE DEF b, e
    <3>2. SubSeq(bf, b, e) \in Seq(Byte) /\ Len(SubSeq(bf, b, e)) = (e - b) + 1
      BY <3>1, ByteSlice
    <3>3. \A i \in 1..((e - b) + 1) : SubSeq(bf, b, e)[i] = bf[(b + i) - 1]
      BY <3>1, SliceAt
    <3>4. long = SubSeq(bf, b, e)
      BY DEF b, e
    <3> HIDE DEF long
    <3> QED  BY <3>1, <3>2, <3>3, <3>4
  <2> HIDE DEF long
  <2>3. one \in Seq(Byte) /\ Len(one) = m /\ \A i \in 1..m : one[i] = long[i]
    <3>1. 1 \in Int /\ m \in Int /\ 1 <= 1 /\ 1 <= m + 1 /\ m <= Len(long)
      BY <1>1, <1>4, <2>2
    <3>2. one \in Seq(Byte) /\ Len(one) = m - 1 + 1
      BY <2>2, <3>1, ByteSlice
    <3>3. \A i \in 1..(m - 1 + 1) : one[i] = long[1 + i - 1]
      BY <2>2, <3>1, SliceAt
    <3>4. m - 1 + 1 = m /\ \A i \in 1..m : 1 + i - 1 = i
      BY <1>4
    <3> HIDE DEF one
    <3> QED  BY <3>2, <3>3, <3>4
  <2>4. two \in Seq(Byte) /\ Len(two) = m /\ \A i \in 1..m : two[i] = bf[a + i]
    BY <1>1, <1>4, <2>1, SMTT(30)
  <2>5. \A i \in 1..m : i \in 1..n
    BY <1>1, <1>4
  <2> HIDE DEF one, two
  <2>6. \A i \in 1..Len(one) : one[i] = two[i]
    BY <2>2, <2>3, <2>4, <2>5
  <2>7. one = two
    BY <2>3, <2>4, <2>6, SeqEqual
  <2> QED  BY <1>2, <1>5, <2>7 DEF one, two, long
<1>7. m < 5 + Len(pk[k].payload)
  BY <1>1, <1>4
<1>8. /\ ~ReadPacket(st[k-1], rest).ok
      /\ pk[k].tag # TailTag => ~ReadTail(st[k-1], rest).ok
  BY <1>1, <1>3, <1>4, <1>6, <1>7, CutReads
<1> QED  BY <1>8 DEF rest, a

(* The tail reads back, whatever follows it.                               *)
LEMMA RestTail ==
  ASSUME NEW bf \in Seq(Byte), NEW a \in Nat, NEW state \in Word, Len(bf) = a + 5,
         SubSeq(bf, a + 1, a + 5) = WriteTail(state).bytes,
         NEW F \in Seq(Byte), Shares(F, bf, a + 5)
  PROVE  LET tail == ReadTail(state, SubSeq(F, a + 1, Len(F)))
         IN  tail.ok /\ tail.tail.final = WriteTail(state).state
<1> DEFINE w    == WriteTail(state)
           rest == SubSeq(F, a + 1, Len(F))
<1>1. ReadTail(state, w.bytes).ok /\ ReadTail(state, w.bytes).tail.final = w.state
  BY TailReadsBack
<1> HIDE DEF w
<1>2. SubSeq(F, a + 1, a + 5) = SubSeq(bf, a + 1, a + 5)
  <2>1. a + 5 \in Nat /\ a + 1 \in Nat /\ 1 <= a + 1 /\ a + 1 <= (a + 5) + 1 /\ a + 5 <= a + 5
    OBVIOUS
  <2> QED  BY <2>1, SharedSlice, ZenonT(60)
<1>3. Len(F) \in Nat /\ a + 5 <= Len(F)
  BY DEF Shares
<1>4. SubSeq(rest, 1, 5) = w.bytes
  <2>1. 5 \in Nat
    OBVIOUS
  <2> QED  BY <1>2, <1>3, <2>1, SliceOfRest DEF w
<1>5. rest \in Seq(Byte) /\ Len(rest) >= 5
  BY <1>3
<1> HIDE DEF rest
<1>6. ReadTail(state, SubSeq(rest, 1, 5)) = ReadTail(state, rest)
  BY <1>5, TailFromFront, FrameConstants
<1> QED  BY <1>1, <1>4, <1>6 DEF rest, w

-----------------------------------------------------------------------------
(***************************************************************************)
(* Where the parser stands.                                                *)
(***************************************************************************)
Firsts(pk, k) == SubSeq(pk, 1, k)

Stand(pk, st, k, s) ==
  [pos |-> End(pk, k), state |-> st[k], packets |-> Firsts(pk, k), status |-> s]

(* Which packets a frame may hold: the brackets where they belong and      *)
(* nowhere else, no tail.                                                  *)
Suits(for, pk, fin) ==
  /\ for \in {"po33", "po35"}
  /\ for = "po33" =>
       /\ Len(pk) >= 1
       /\ \A k \in 1..Len(pk) :
            /\ pk[k].tag = TagBegin <=> k = 1
            /\ pk[k].tag = TagEnd <=> fin /\ k = Len(pk)
            /\ pk[k].tag \in {TagBegin, TagEnd} => pk[k].payload = <<>>
  /\ for = "po35" => \A k \in 1..Len(pk) : pk[k].tag # TailTag

(* What stands behind the last packet, and the state reached.              *)
Ended(for, bf, pk, st, fin, c) ==
  LET e == End(pk, Len(pk))
      w == WriteTail(st[Len(pk)])
  IN  IF for = "po35" /\ fin
      THEN Len(bf) = e + 5 /\ SubSeq(bf, e + 1, e + 5) = w.bytes /\ c = w.state
      ELSE Len(bf) = e /\ c = st[Len(pk)]

LEMMA FirstsType ==
  ASSUME NEW pk \in Seq(Entry), NEW k \in 0..Len(pk)
  PROVE  /\ Firsts(pk, k) \in Seq(Entry) /\ Len(Firsts(pk, k)) = k
         /\ Firsts(pk, k) = <<>> <=> k = 0
         /\ \A i \in 1..k : Firsts(pk, k)[i] = pk[i]
<1> DEFINE one == SubSeq(pk, 1, k)
<1>1. k \in Nat /\ k <= Len(pk) /\ Len(pk) \in Nat
  OBVIOUS
<1>2. one \in Seq(Entry) /\ Len(one) = k /\ \A i \in 1..k : one[i] = pk[i]
  BY <1>1
<1> HIDE DEF one
<1>3. one = <<>> <=> k = 0
  BY <1>2
<1> QED  BY <1>2, <1>3 DEF one, Firsts

LEMMA FirstsGrow ==
  ASSUME NEW pk \in Seq(Entry), NEW k \in 1..Len(pk)
  PROVE  Append(Firsts(pk, k-1), pk[k]) = Firsts(pk, k)
<1> DEFINE short == Firsts(pk, k-1)
           one == Append(short, pk[k])
           two == Firsts(pk, k)
<1>1. k - 1 \in 0..Len(pk) /\ k \in 0..Len(pk) /\ pk[k] \in Entry
  OBVIOUS
<1>2. short \in Seq(Entry) /\ Len(short) = k - 1 /\ \A i \in 1..(k-1) : short[i] = pk[i]
  BY <1>1, FirstsType
<1>3. two \in Seq(Entry) /\ Len(two) = k /\ \A i \in 1..k : two[i] = pk[i]
  BY <1>1, FirstsType
<1> HIDE DEF short, two
<1>4. one \in Seq(Entry) /\ Len(one) = k /\ \A i \in 1..k : one[i] = pk[i]
  BY <1>1, <1>2
<1> HIDE DEF one
<1>5. one = two
  BY <1>3, <1>4
<1> QED  BY <1>5 DEF one, short, two

LEMMA PlacedEntry ==
  ASSUME NEW e \in Entry
  PROVE  Placed(e.tag, e.payload, e.offset) = e
  BY DEF Placed, Entry

LEMMA FirstsOfAll ==
  ASSUME NEW pk \in Seq(Entry)
  PROVE  Firsts(pk, Len(pk)) = pk
<1> DEFINE one == Firsts(pk, Len(pk))
<1>1. one \in Seq(Entry) /\ Len(one) = Len(pk) /\ \A i \in 1..Len(pk) : one[i] = pk[i]
  BY FirstsType
<1> HIDE DEF one
<1>2. one = pk
  BY <1>1
<1> QED  BY <1>2 DEF one

At(pos, state, packets) == [pos |-> pos, state |-> state, packets |-> packets, status |-> "more"]

Got(tag, payload, len, state) ==
  [ok |-> TRUE, tag |-> tag, payload |-> payload, len |-> len, state |-> state]

LEMMA TakenIs ==
  ASSUME NEW a \in Nat, NEW n \in Nat, NEW before, NEW after, NEW short, NEW tag, NEW payload
  PROVE  Taken(At(a, before, short), Got(tag, payload, n, after))
           = At(a + n, after, Append(short, Placed(tag, payload, a)))
<1> DEFINE p == [pos |-> a, state |-> before, packets |-> short, status |-> "more"]
           r == [ok |-> TRUE, tag |-> tag, payload |-> payload, len |-> n, state |-> after]
           more == Append(short, Placed(tag, payload, a))
           pos == a + n
<1>1. /\ p.pos = a /\ p.packets = short /\ r.tag = tag /\ r.payload = payload /\ r.len = n
      /\ r.state = after
  OBVIOUS
<1> HIDE DEF r
<1>2. Append(p.packets, Placed(r.tag, r.payload, p.pos)) = more /\ p.pos + r.len = pos
  BY <1>1
<1>3. Taken(p, r) = [p EXCEPT !.packets = more, !.pos = pos, !.state = after]
  <2> HIDE DEF more, pos, p
  <2> QED  BY <1>1, <1>2 DEF Taken
<1>4. [p EXCEPT !.packets = more, !.pos = pos, !.state = after]
        = [pos |-> pos, state |-> after, packets |-> more, status |-> "more"]
  <2> DEFINE R == [pos : {a, pos}, state : {before, after}, packets : {short, more},
                   status : {"more"}]
             one == [p EXCEPT !.packets = more, !.pos = pos, !.state = after]
             two == [pos |-> pos, state |-> after, packets |-> more, status |-> "more"]
  <2> HIDE DEF more, pos
  <2>1. p \in R /\ two \in R
    OBVIOUS
  <2> HIDE DEF p
  <2>2. /\ one \in R /\ one.pos = pos /\ one.state = after /\ one.packets = more
    BY <2>1
  <2>3. /\ two.pos = pos /\ two.state = after /\ two.packets = more
    OBVIOUS
  <2>4. one.status = "more" /\ two.status = "more"
    BY <2>1, <2>2
  <2> HIDE DEF one, two
  <2>5. one = two
    BY <2>1, <2>2, <2>3, <2>4
  <2> QED  BY <2>5 DEF one, two
<1> HIDE DEF more, pos
<1> HIDE DEF p
<1>5. Taken(p, r) = [pos |-> pos, state |-> after, packets |-> more, status |-> "more"]
  BY <1>3, <1>4
<1> QED  BY <1>5 DEF p, r, more, pos, At, Got

(* Taking packet k moves the parser from behind packet k-1 to behind it.   *)
LEMMA Takes ==
  ASSUME NEW bf \in Seq(Byte), NEW pk \in Seq(Entry), NEW st, Laid(bf, pk, st),
         NEW k \in 1..Len(pk)
  PROVE  Taken(Stand(pk, st, k-1, "more"), Found(pk[k].tag, pk[k].payload, st[k]))
           = Stand(pk, st, k, "more")
<1> DEFINE p == Stand(pk, st, k-1, "more")
           r == Found(pk[k].tag, pk[k].payload, st[k])
           short == Firsts(pk, k-1)
           full == Firsts(pk, k)
           a == End(pk, k-1)
           e == End(pk, k)
           n == 5 + Len(pk[k].payload)
<1> HIDE DEF p, r, short, full, a, n, e
<1>1. e = a + n /\ pk[k].offset = a /\ a \in Nat /\ n \in Nat
  <2>1. /\ pk[k].payload \in Seq(Byte) /\ Len(pk[k].payload) \in Nat /\ End(pk, k-1) \in Nat /\ pk[k].offset = End(pk, k-1)
        /\ End(pk, k) = End(pk, k-1) + 5 + Len(pk[k].payload)
    BY EndOfNext
  <2>2. e = a + n /\ a \in Nat /\ n \in Nat
    <3> DEFINE l == Len(pk[k].payload)
    <3>1. l \in Nat /\ a \in Nat /\ e = a + 5 + l /\ n = 5 + l
      BY <2>1, Zenon DEF a, n, e
    <3> HIDE DEF l
    <3> QED  BY <3>1
  <2>3. pk[k].offset = a
    BY <2>1, Zenon DEF a
  <2> QED  BY <2>2, <2>3
<1>2. pk[k] \in Entry
  OBVIOUS
<1>3. Placed(pk[k].tag, pk[k].payload, a) = pk[k]
  BY <1>1, <1>2, PlacedEntry
<1>4. Append(short, pk[k]) = full
  BY FirstsGrow DEF short, full
<1>5. /\ p = [pos |-> a, state |-> st[k-1], packets |-> short, status |-> "more"]
      /\ r = [ok |-> TRUE, tag |-> pk[k].tag, payload |-> pk[k].payload, len |-> n, state |-> st[k]]
  BY DEF Stand, Found, p, r, short, a, n
<1>6. Taken(p, r) = [pos |-> a + n, state |-> st[k],
                     packets |-> Append(short, Placed(pk[k].tag, pk[k].payload, a)),
                     status |-> "more"]
  <2> DEFINE before == st[k-1]
             after == st[k]
             tag == pk[k].tag
             payload == pk[k].payload
  <2>1. p = At(a, before, short) /\ r = Got(tag, payload, n, after)
    BY <1>5 DEF At, Got
  <2> HIDE DEF before, after, tag, payload
  <2>2. Taken(At(a, before, short), Got(tag, payload, n, after))
          = At(a + n, after, Append(short, Placed(tag, payload, a)))
    BY <1>1, TakenIs
  <2>3. Taken(p, r) = At(a + n, after, Append(short, Placed(tag, payload, a)))
    BY <2>1, <2>2
  <2> QED  BY <2>3 DEF after, tag, payload, At
<1>7. Taken(p, r) = [pos |-> e, state |-> st[k], packets |-> full, status |-> "more"]
  BY <1>1, <1>3, <1>4, <1>6
<1> QED  BY <1>7 DEF Stand, p, r, full, e

LEMMA StandFields ==
  ASSUME NEW pk, NEW st, NEW k, NEW s
  PROVE  /\ Stand(pk, st, k, s).pos = End(pk, k) /\ Stand(pk, st, k, s).state = st[k]
         /\ Stand(pk, st, k, s).packets = Firsts(pk, k) /\ Stand(pk, st, k, s).status = s
  BY DEF Stand

LEMMA Restand ==
  ASSUME NEW pk, NEW st, NEW k, NEW s, NEW t
  PROVE  [Stand(pk, st, k, s) EXCEPT !.status = t] = Stand(pk, st, k, t)
<1> DEFINE e == End(pk, k)
           c == st[k]
           f == Firsts(pk, k)
           p == Stand(pk, st, k, s)
           q == Stand(pk, st, k, t)
           R == [pos : {e}, state : {c}, packets : {f}, status : {s, t}]
           one == [p EXCEPT !.status = t]
<1> HIDE DEF e, c, f
<1>1. p = [pos |-> e, state |-> c, packets |-> f, status |-> s]
  BY DEF Stand, e, c, f
<1>2. q = [pos |-> e, state |-> c, packets |-> f, status |-> t]
  BY DEF Stand, e, c, f
<1> HIDE DEF p, q
<1>3. p \in R /\ q \in R /\ q.status = t
  BY <1>1, <1>2
<1>4. one \in R /\ one.status = t
  BY <1>3
<1> HIDE DEF one
<1>5. /\ one.pos = e /\ one.state = c /\ one.packets = f
      /\ q.pos = e /\ q.state = c /\ q.packets = f
  BY <1>3, <1>4
<1>6. one = q
  BY <1>3, <1>4, <1>5
<1> QED  BY <1>6 DEF one, p, q

(* What a packet that is taken makes of the parse.                         *)
Verdict(for, pk, k) == IF for = "po33" /\ pk[k].tag = TagEnd THEN "done" ELSE "more"

LEMMA StepTakes ==
  ASSUME NEW bf \in Seq(Byte), NEW pk \in Seq(Entry), NEW st, Laid(bf, pk, st),
         NEW for, NEW fin, Suits(for, pk, fin),
         NEW k \in 1..Len(pk), NEW F \in Seq(Byte), Shares(F, bf, End(pk, k))
  PROVE  Step(for, Stand(pk, st, k-1, "more"), SubSeq(F, End(pk, k-1) + 1, Len(F)))
           = Stand(pk, st, k, Verdict(for, pk, k))
<1> DEFINE p == Stand(pk, st, k-1, "more")
           q == Stand(pk, st, k, "more")
           rest == SubSeq(F, End(pk, k-1) + 1, Len(F))
           read == Found(pk[k].tag, pk[k].payload, st[k])
<1>1. ReadPacket(st[k-1], rest) = read /\ (pk[k].tag # TailTag => ~ReadTail(st[k-1], rest).ok)
  BY RestReads
<1>2. p.state = st[k-1] /\ p.packets = Firsts(pk, k-1)
  BY StandFields
<1>3. Taken(p, read) = q
  BY Takes
<1>4. read.ok /\ read.tag = pk[k].tag /\ read.payload = pk[k].payload
  BY DEF Found
<1>5. [q EXCEPT !.status = "done"] = Stand(pk, st, k, "done")
      /\ [q EXCEPT !.status = "more"] = q
  BY Restand
<1>6. p.packets = <<>> <=> k = 1
  <2>1. k - 1 \in 0..Len(pk) /\ (k - 1 = 0 <=> k = 1)
    OBVIOUS
  <2> QED  BY <1>2, <2>1, FirstsType
<1> HIDE DEF p, q, rest, read
<1>7. CASE for = "po33"
  <2>1. ~Misplaced(p, read)
    BY <1>4, <1>6, <1>7 DEF Misplaced, Suits
  <2>2. Step33(p, rest) = [q EXCEPT !.status = IF pk[k].tag = TagEnd THEN "done" ELSE "more"]
    BY <1>1, <1>2, <1>3, <1>4, <2>1 DEF Step33
  <2>3. Step(for, p, rest) = Step33(p, rest)
    BY <1>7 DEF Step
  <2>4. CASE pk[k].tag = TagEnd
    BY <1>5, <1>7, <2>2, <2>3, <2>4 DEF Verdict, p, rest
  <2>5. CASE pk[k].tag # TagEnd
    <3>1. Step(for, p, rest) = q
      BY <1>5, <2>2, <2>3, <2>5
    <3> QED  BY <1>7, <2>5, <3>1 DEF Verdict, p, q, rest
  <2> QED  BY <2>4, <2>5
<1>8. CASE for = "po35"
  <2>1. pk[k].tag # TailTag
    BY <1>8 DEF Suits
  <2>2. Step35(p, rest) = q
    BY <1>1, <1>2, <1>3, <1>4, <2>1 DEF Step35
  <2>3. Step(for, p, rest) = q
    BY <1>8, <2>2 DEF Step
  <2> QED  BY <1>8, <2>3 DEF Verdict, p, q, rest
<1> QED  BY <1>7, <1>8 DEF Suits

LEMMA RoundTakes ==
  ASSUME NEW bf \in Seq(Byte), NEW pk \in Seq(Entry), NEW st, Laid(bf, pk, st),
         NEW for, NEW fin, Suits(for, pk, fin), NEW stop,
         NEW k \in 1..Len(pk), NEW F \in Seq(Byte), Shares(F, bf, End(pk, k)),
         NEW s, s = IF k = stop THEN "stopped" ELSE Verdict(for, pk, k)
  PROVE  Round(for, F, stop, Stand(pk, st, k-1, "more")) = Stand(pk, st, k, s)
<1> DEFINE p == Stand(pk, st, k-1, "more")
           v == Verdict(for, pk, k)
           q == Stand(pk, st, k, v)
           rest == SubSeq(F, End(pk, k-1) + 1, Len(F))
<1>1. p.status = "more" /\ p.pos = End(pk, k-1)
  BY StandFields
<1>2. ~(Len(F) - p.pos < OverheadBytes)
  <2> DEFINE l == Len(pk[k].payload)
             a == End(pk, k-1)
             e == End(pk, k)
  <2>1. l \in Nat /\ a \in Nat /\ e = a + 5 + l
    BY EndOfNext
  <2>2. Len(F) \in Nat /\ e <= Len(F)
    BY DEF Shares
  <2> HIDE DEF l, a, e, p
  <2>3. ~(Len(F) - a < 5)
    BY <2>1, <2>2
  <2> QED  BY <1>1, <2>3, FrameConstants DEF a
<1>3. Step(for, p, rest) = q
  BY StepTakes
<1>4. q.status = v /\ q.packets = Firsts(pk, k) /\ [q EXCEPT !.status = "stopped"]
        = Stand(pk, st, k, "stopped")
  BY StandFields, Restand
<1>5. v # "bad"
  BY DEF Verdict
<1>6. Len(Firsts(pk, k)) = k
  <2>1. k \in 0..Len(pk)
    OBVIOUS
  <2> QED  BY <2>1, FirstsType
<1> HIDE DEF v, q
<1>7. Round(for, F, stop, p) = Stopping(q, stop)
  <2> HIDE DEF p
  <2> QED  BY <1>1, <1>2, <1>3 DEF Round, rest
<1>8. Stopping(q, stop) = IF k = stop THEN Stand(pk, st, k, "stopped") ELSE q
  BY <1>4, <1>5, <1>6 DEF Stopping
<1> HIDE DEF p
<1>9. CASE k = stop
  BY <1>7, <1>8, <1>9 DEF p
<1>10. CASE k # stop
  <2>1. Round(for, F, stop, p) = q
    BY <1>7, <1>8, <1>10
  <2> QED  BY <1>10, <2>1 DEF p, q, v
<1> QED  BY <1>9, <1>10

(* Bytes that are like the buffer's as far as packet n have room for a     *)
(* round behind that packet.                                               *)
LEMMA RunReaches ==
  ASSUME NEW bf \in Seq(Byte), NEW pk \in Seq(Entry), NEW st, Laid(bf, pk, st),
         NEW F \in Seq(Byte), NEW n \in 0..Len(pk), Shares(F, bf, End(pk, n))
  PROVE  /\ Len(F) >= Len(CounterPreamble)
         /\ LastRound(F) \in Nat
         /\ n + 1 <= LastRound(F)
<1> DEFINE last == LastRound(F)
<1>1. /\ Len(F) \in Nat /\ Len(CounterPreamble) \in Nat /\ End(pk, 0) = Len(CounterPreamble)
      /\ End(pk, n) \in Nat /\ End(pk, n) <= Len(F) /\ n \in Nat /\ Len(pk) \in Nat
  BY PreambleType, EndType, FramesAssumption DEF Shares, End
<1>2. Len(CounterPreamble) + 5 * n <= Len(F)
  <2>1. 0 \in 0..Len(pk) /\ 0 <= n
    BY <1>1
  <2>2. End(pk, 0) + 5 * (n - 0) <= End(pk, n)
    BY <2>1, EndGrows
  <2> QED  BY <1>1, <2>2
<1>3. last \in Nat /\ n + 1 <= last
  <2> DEFINE a == Len(CounterPreamble)
             l == Len(F)
  <2>1. last = (l - a) \div 5 + 1
    BY FrameConstants DEF LastRound
  <2>2. a \in Nat /\ l \in Nat /\ a + 5 * n <= l
    BY <1>1, <1>2
  <2> DEFINE d == (l - a) \div 5
  <2> HIDE DEF a, l, last
  <2>3. d \in Int /\ d >= n
    BY <1>1, <2>2
  <2>4. last = d + 1
    BY <2>1
  <2> HIDE DEF d
  <2> QED  BY <1>1, <2>3, <2>4
<1> QED  BY <1>1, <1>2, <1>3

(* A parse of bytes that are like the buffer's as far as packet n, with    *)
(* nothing before it that ends the parse, comes to stand behind packet n.  *)
LEMMA RunTakes ==
  ASSUME NEW bf \in Seq(Byte), NEW pk \in Seq(Entry), NEW st, Laid(bf, pk, st),
         NEW for, NEW fin, Suits(for, pk, fin), NEW stop,
         NEW F \in Seq(Byte), NEW n \in 0..Len(pk), Shares(F, bf, End(pk, n)),
         \A k \in 1..n : k # stop /\ Verdict(for, pk, k) = "more"
  PROVE  Rounds(for, F, stop)[n + 1] = Round(for, F, stop, Stand(pk, st, n, "more"))
<1> DEFINE run == Rounds(for, F, stop)
           last == LastRound(F)
           T == { k \in 0..n : run[k] = Stand(pk, st, k, "more") }
<1>1. n \in Nat /\ Len(pk) \in Nat /\ Len(F) \in Nat /\ End(pk, n) \in Nat /\ End(pk, n) <= Len(F)
  BY EndType DEF Shares
<1>2. Len(F) >= Len(CounterPreamble) /\ last \in Nat /\ n + 1 <= last
  BY RunReaches
<1>3. n + 1 \in 1..last
  <2> HIDE DEF last
  <2> QED  BY <1>1, <1>2
<1>4. run[0] = NewParse /\ \A k \in 1..last : run[k] = Round(for, F, stop, run[k-1])
  BY <1>2, RoundsRun
<1> HIDE DEF run, last
<1>5. 0 \in T
  <2>1. Stand(pk, st, 0, "more") = NewParse
    <3>1. st[0] = InitialState
      BY DEF Laid, LaidAt
    <3>2. Firsts(pk, 0) = <<>>
      <4>1. 0 \in 0..Len(pk)
        BY <1>1
      <4> QED  BY <4>1, FirstsType
    <3>3. End(pk, 0) = Len(CounterPreamble)
      BY DEF End
    <3> QED  BY <3>1, <3>2, <3>3 DEF Stand, NewParse
  <2>2. 0 \in 0..n
    BY <1>1
  <2> QED  BY <1>4, <2>1, <2>2
<1>6. ASSUME NEW k \in 1..n, k - 1 \in T PROVE k \in T
  <2>1. k \in 1..Len(pk) /\ k \in 1..last /\ k \in 0..n
    <3>1. last \in Nat
      BY <1>2
    <3> QED  BY <1>1, <1>3, <3>1
  <2>2. Shares(F, bf, End(pk, k))
    <3>1. k \in 0..Len(pk) /\ k <= n /\ n - k \in Nat
      BY <1>1
    <3>2. End(pk, k) + 5 * (n - k) <= End(pk, n) /\ End(pk, k) \in Nat
      BY <3>1, EndGrows, EndType
    <3>3. End(pk, k) <= End(pk, n)
      BY <1>1, <3>1, <3>2
    <3> QED  BY <1>1, <3>2, <3>3 DEF Shares
  <2>3. run[k] = Round(for, F, stop, Stand(pk, st, k-1, "more"))
    BY <1>4, <1>6, <2>1
  <2>4. Round(for, F, stop, Stand(pk, st, k-1, "more"))
          = Stand(pk, st, k, IF k = stop THEN "stopped" ELSE Verdict(for, pk, k))
    BY <2>1, <2>2, RoundTakes
  <2>5. run[k] = Stand(pk, st, k, "more")
    BY <2>3, <2>4
  <2> QED  BY <2>1, <2>5
<1>7. n \in T
  <2>1. 0..n \subseteq T
    <3> HIDE DEF T
    <3> QED  BY <1>1, <1>5, <1>6, InductionUpTo
  <2> QED  BY <1>1, <2>1
<1>8. run[n] = Stand(pk, st, n, "more")
  BY <1>7
<1>9. run[n + 1] = Round(for, F, stop, run[n])
  <2>1. (n + 1) - 1 = n
    BY <1>1
  <2> QED  BY <1>3, <1>4, <2>1
<1> QED  BY <1>3, <1>8, <1>9 DEF run, last

(* Where the round behind packet n does not go on, the parse ends there.   *)
LEMMA RunEnds ==
  ASSUME NEW bf \in Seq(Byte), NEW pk \in Seq(Entry), NEW st, Laid(bf, pk, st),
         NEW for, NEW fin, Suits(for, pk, fin), NEW stop,
         NEW F \in Seq(Byte), NEW n \in 0..Len(pk), Shares(F, bf, End(pk, n)),
         \A k \in 1..n : k # stop /\ Verdict(for, pk, k) = "more",
         NEW q, q = Round(for, F, stop, Stand(pk, st, n, "more")), q.status # "more"
  PROVE  Parse(for, F, stop) = q
<1> DEFINE run == Rounds(for, F, stop)
           m == n + 1
<1>1. m \in 1..LastRound(F) /\ run[m] = q
  <2>1. LastRound(F) \in Nat /\ n + 1 <= LastRound(F)
    BY RunReaches
  <2>2. m \in 1..LastRound(F)
    BY <2>1
  <2>3. run[m] = Round(for, F, stop, Stand(pk, st, n, "more"))
    BY RunTakes
  <2> QED  BY <2>2, <2>3
<1>2. Begins(CounterPreamble, F)
  <2> DEFINE a == Len(CounterPreamble)
             e == End(pk, n)
  <2>1. a \in Nat /\ e \in Nat /\ a <= e
    <3>1. 0 \in 0..Len(pk) /\ 0 <= n /\ n \in Nat
      OBVIOUS
    <3>2. End(pk, 0) + 5 * (n - 0) <= End(pk, n) /\ End(pk, 0) \in Nat /\ End(pk, n) \in Nat
      BY <3>1, EndGrows, EndType
    <3>3. End(pk, 0) = a
      BY DEF End
    <3> HIDE DEF a
    <3> QED  BY <3>1, <3>2, <3>3
  <2>2. e <= Len(F) /\ e <= Len(bf) /\ \A i \in 1..e : F[i] = bf[i]
    BY DEF Shares
  <2>3. a <= Len(bf) /\ \A i \in 1..a : bf[i] = CounterPreamble[i]
    BY DEF Laid, LaidAt, Begins
  <2>4. Len(F) \in Nat
    OBVIOUS
  <2> HIDE DEF e
  <2>5. \A i \in 1..a : i \in 1..e
    BY <2>1
  <2>6. a <= Len(F)
    <3> HIDE DEF a
    <3> QED  BY <2>1, <2>2, <2>4
  <2>7. \A i \in 1..a : F[i] = CounterPreamble[i]
    <3> HIDE DEF a
    <3> QED  BY <2>2, <2>3, <2>5, ZenonT(60)
  <2> QED  BY <2>6, <2>7 DEF Begins
<1>3. m \in 0..LastRound(F)
  BY <1>1
<1>4. run[m].status # "more"
  BY <1>1
<1> HIDE DEF m
<1>5. Parse(for, F, stop) = run[m]
  BY <1>2, <1>3, <1>4, RunSettles
<1> QED  BY <1>1, <1>5

-----------------------------------------------------------------------------
(***************************************************************************)
(* What a parse of the buffer returns.                                     *)
(***************************************************************************)
Framed(for, bf, pk, st, fin, c) ==
  Laid(bf, pk, st) /\ Suits(for, pk, fin) /\ Ended(for, bf, pk, st, fin, c)

Complete(for, bf, pk, st, c) == Framed(for, bf, pk, st, TRUE, c)

LEMMA SharesLess ==
  ASSUME NEW F \in Seq(Byte), NEW bf \in Seq(Byte), NEW e \in Nat, Shares(F, bf, e),
         NEW d \in Nat, d <= e
  PROVE  Shares(F, bf, d)
<1>1. Len(F) \in Nat /\ Len(bf) \in Nat
  OBVIOUS
<1> QED  BY <1>1 DEF Shares

(* The callback's packet is where it stops.                                *)
LEMMA StopsAt ==
  ASSUME NEW bf \in Seq(Byte), NEW pk \in Seq(Entry), NEW st,
         NEW for, NEW fin, NEW c, Framed(for, bf, pk, st, fin, c),
         NEW F \in Seq(Byte), Shares(F, bf, Len(bf)), NEW n \in 1..Len(pk)
  PROVE  Parse(for, F, n) = Stand(pk, st, n, "stopped")
<1> DEFINE m == n - 1
           q == Stand(pk, st, n, "stopped")
<1>1. Laid(bf, pk, st) /\ Suits(for, pk, fin)
  BY DEF Framed
<1>2. m \in 0..Len(pk) /\ m + 1 = n /\ m = n - 1 /\ n \in 0..Len(pk)
  OBVIOUS
<1>3. /\ End(pk, m) \in Nat /\ End(pk, m) <= Len(bf) /\ End(pk, n) \in Nat /\ End(pk, n) <= Len(bf)
      /\ Len(bf) \in Nat
  BY <1>1, <1>2, EndType
<1>4. Shares(F, bf, End(pk, m)) /\ Shares(F, bf, End(pk, n))
  BY <1>3, SharesLess
<1>5. \A k \in 1..m : k # n /\ Verdict(for, pk, k) = "more"
  <2> SUFFICES ASSUME NEW k \in 1..m PROVE k # n /\ Verdict(for, pk, k) = "more"
    OBVIOUS
  <2>1. k \in 1..Len(pk) /\ k # n /\ k # Len(pk)
    OBVIOUS
  <2> QED  BY <1>1, <2>1 DEF Suits, Verdict
<1>6. Round(for, F, n, Stand(pk, st, m, "more")) = q
  BY <1>1, <1>4, RoundTakes
<1>7. q.status # "more"
  BY StandFields
<1> HIDE DEF m, q
<1>8. Parse(for, F, n) = q
  BY <1>1, <1>2, <1>4, <1>5, <1>6, <1>7, RunEnds
<1> QED  BY <1>8 DEF q

(* A finished frame is done at its end, in the state the builder reached.  *)
Done(bf, pk, c) == [pos |-> Len(bf), state |-> c, packets |-> pk, status |-> "done"]

LEMMA Finishes33 ==
  ASSUME NEW bf \in Seq(Byte), NEW pk \in Seq(Entry), NEW st,
         NEW c, Complete("po33", bf, pk, st, c),
         NEW F \in Seq(Byte), Shares(F, bf, Len(bf))
  PROVE  Parse("po33", F, -1) = Done(bf, pk, c)
<1> DEFINE n == Len(pk)
           m == n - 1
           q == Stand(pk, st, n, "done")
<1>1. Laid(bf, pk, st) /\ Suits("po33", pk, TRUE) /\ Len(bf) = End(pk, n) /\ c = st[n]
  BY DEF Complete, Framed, Ended
<1>2. n >= 1 /\ pk[n].tag = TagEnd
  <2>1. Len(pk) >= 1
    BY <1>1 DEF Suits
  <2>2. n \in 1..Len(pk)
    BY <2>1
  <2> QED  BY <1>1, <2>1, <2>2 DEF Suits
<1>3. n \in 1..Len(pk) /\ m \in 0..Len(pk) /\ m + 1 = n /\ m = n - 1 /\ n \in 0..Len(pk) /\ n # -1
  BY <1>2
<1>4. End(pk, m) \in Nat /\ End(pk, m) <= Len(bf) /\ Len(bf) \in Nat
  BY <1>1, <1>3, EndType
<1>5. Shares(F, bf, End(pk, m)) /\ Shares(F, bf, End(pk, n))
  BY <1>1, <1>4, SharesLess
<1>6. \A k \in 1..m : k # -1 /\ Verdict("po33", pk, k) = "more"
  <2> SUFFICES ASSUME NEW k \in 1..m PROVE k # -1 /\ Verdict("po33", pk, k) = "more"
    OBVIOUS
  <2>1. k \in 1..Len(pk) /\ k # -1 /\ k # Len(pk)
    OBVIOUS
  <2> QED  BY <1>1, <2>1 DEF Suits, Verdict
<1>7. Verdict("po33", pk, n) = "done"
  BY <1>2 DEF Verdict
<1>8. Round("po33", F, -1, Stand(pk, st, m, "more")) = q
  <2> DEFINE never == -1
             for == "po33"
             done == "done"
             fin == TRUE
  <2>1. /\ Suits(for, pk, fin) /\ done = IF n = never THEN "stopped" ELSE Verdict(for, pk, n)
        /\ Laid(bf, pk, st) /\ n \in 1..Len(pk) /\ Shares(F, bf, End(pk, n))
    BY <1>1, <1>3, <1>5, <1>7
  <2> HIDE DEF n, never, for, done, fin
  <2>2. Round(for, F, never, Stand(pk, st, n-1, "more")) = Stand(pk, st, n, done)
    BY <2>1, RoundTakes
  <2> QED  BY <2>2 DEF never, for, done
<1>9. q.status # "more"
  BY StandFields
<1>10. q = Done(bf, pk, c)
  BY <1>1, FirstsOfAll DEF Stand, Done
<1> HIDE DEF m, n, q
<1>11. Parse("po33", F, -1) = q
  <2> DEFINE never == -1
             for == "po33"
  <2>1. /\ Suits(for, pk, TRUE) /\ \A k \in 1..m : k # never /\ Verdict(for, pk, k) = "more"
        /\ q = Round(for, F, never, Stand(pk, st, m, "more"))
    BY <1>1, <1>6, <1>8
  <2> HIDE DEF never, for
  <2>2. Parse(for, F, never) = q
    BY <1>1, <1>3, <1>5, <1>9, <2>1, RunEnds
  <2> QED  BY <2>2 DEF never, for
<1> QED  BY <1>10, <1>11

LEMMA Finishes35 ==
  ASSUME NEW bf \in Seq(Byte), NEW pk \in Seq(Entry), NEW st,
         NEW c, Complete("po35", bf, pk, st, c),
         NEW F \in Seq(Byte), Shares(F, bf, Len(bf))
  PROVE  Parse("po35", F, -1) = Done(bf, pk, c)
<1> DEFINE n == Len(pk)
           e == End(pk, n)
           s == st[n]
           p == Stand(pk, st, n, "more")
           rest == SubSeq(F, e + 1, Len(F))
           tail == ReadTail(s, rest)
           q == Done(bf, pk, c)
<1>1. /\ Laid(bf, pk, st) /\ Suits("po35", pk, TRUE) /\ Len(bf) = e + 5
      /\ SubSeq(bf, e + 1, e + 5) = WriteTail(s).bytes /\ c = WriteTail(s).state
  BY DEF Complete, Framed, Ended
<1>2. n \in 0..Len(pk) /\ n \in Nat
  OBVIOUS
<1>3. e \in Nat /\ s \in Word /\ Len(bf) \in Nat /\ Len(F) \in Nat /\ Len(F) >= e + 5
  BY <1>1, <1>2, EndType DEF Shares
<1>4. tail.ok /\ tail.tail.final = c
  <2>1. Shares(F, bf, e + 5)
    BY <1>1
  <2> HIDE DEF e, s
  <2> QED  BY <1>1, <1>3, <2>1, RestTail
<1>5. p.status = "more" /\ p.pos = e /\ p.state = s /\ p.packets = pk
  BY StandFields, FirstsOfAll
<1>6. [p EXCEPT !.pos = @ + TailBytes, !.state = c, !.status = "done"] = q
  <2> DEFINE l == Len(bf)
             one == [p EXCEPT !.pos = @ + TailBytes, !.state = c, !.status = "done"]
             R == [pos : {e, l}, state : {s, c}, packets : {pk}, status : {"more", "done"}]
  <2>1. p = [pos |-> e, state |-> s, packets |-> pk, status |-> "more"]
    BY FirstsOfAll DEF Stand
  <2>2. q = [pos |-> l, state |-> c, packets |-> pk, status |-> "done"]
    BY DEF Done
  <2>3. e + TailBytes = l
    BY <1>1, <1>3, FrameConstants
  <2> HIDE DEF p, q, e, s, l
  <2>4. p \in R /\ q \in R /\ q.pos = l /\ q.state = c /\ q.status = "done"
    BY <2>1, <2>2
  <2>5. p.pos + TailBytes = l
    BY <1>5, <2>3
  <2>6. one = [p EXCEPT !.pos = l, !.state = c, !.status = "done"]
    BY <2>5
  <2> HIDE DEF one
  <2>7. one \in R /\ one.pos = l /\ one.state = c /\ one.status = "done"
    BY <2>4, <2>6
  <2>8. one.packets = pk /\ q.packets = pk
    BY <2>4, <2>7
  <2>9. one = q
    BY <2>4, <2>7, <2>8
  <2> QED  BY <2>9 DEF one
<1>7. Step("po35", p, rest) = q
  <2>1. Step("po35", p, rest) = Step35(p, rest)
    BY DEF Step
  <2> HIDE DEF p, q, rest, s
  <2>2. Step35(p, rest) = [p EXCEPT !.pos = @ + TailBytes, !.state = tail.tail.final, !.status = "done"]
    BY <1>4, <1>5 DEF Step35
  <2> HIDE DEF tail
  <2> QED  BY <1>4, <1>6, <2>1, <2>2
<1>8. q.status = "done" /\ q.packets = pk
  BY DEF Done
<1>9. Stopping(q, -1) = q
  BY <1>2, <1>8 DEF Stopping
<1>10. Round("po35", F, -1, p) = q
  <2>1. ~(Len(F) - p.pos < OverheadBytes)
    BY <1>3, <1>5, FrameConstants
  <2> HIDE DEF p, q, e
  <2> QED  BY <1>5, <1>7, <1>9, <2>1 DEF Round, rest
<1>11. \A k \in 1..n : k # -1 /\ Verdict("po35", pk, k) = "more"
  BY DEF Verdict
<1>12. Shares(F, bf, e)
  BY <1>1, <1>3, SharesLess
<1>13. q.status # "more" /\ q = Round("po35", F, -1, p)
  BY <1>8, <1>10
<1> HIDE DEF q, n, p
<1>14. Parse("po35", F, -1) = q
  <2> DEFINE never == -1
             for == "po35"
  <2>1. /\ Suits(for, pk, TRUE) /\ \A k \in 1..n : k # never /\ Verdict(for, pk, k) = "more"
        /\ q = Round(for, F, never, Stand(pk, st, n, "more"))
    BY <1>1, <1>11, <1>13 DEF p
  <2> HIDE DEF never, for, e
  <2>2. Shares(F, bf, End(pk, n))
    BY <1>12 DEF e
  <2>3. Parse(for, F, never) = q
    BY <1>1, <1>2, <1>13, <2>1, <2>2, RunEnds, ZenonT(60)
  <2> QED  BY <2>3 DEF never, for
<1> QED  BY <1>14 DEF q

(* With a callback that never stops it. *)
ParseAll(for, F) == Parse(for, F, -1)

(* A buffer cut behind packet n, before the next one or the tail is whole, *)
(* or not finished, gives n packets and is bad.                            *)
LEMMA StopsShort ==
  ASSUME NEW bf \in Seq(Byte), NEW pk \in Seq(Entry), NEW st,
         NEW for, NEW fin, NEW c, Framed(for, bf, pk, st, fin, c),
         NEW F \in Seq(Byte), Shares(F, bf, Len(F)),
         NEW n \in 0..Len(pk), End(pk, n) <= Len(F),
         \/ n < Len(pk) /\ Len(F) < End(pk, n + 1)
         \/ n = Len(pk) /\ (~fin \/ Len(F) < Len(bf))
  PROVE  ParseAll(for, F) = Stand(pk, st, n, "bad")
<1> DEFINE p == Stand(pk, st, n, "more")
           q == Stand(pk, st, n, "bad")
           a == End(pk, n)
           l == Len(F)
           rest == SubSeq(F, a + 1, l)
           never == -1
<1>1. Laid(bf, pk, st) /\ Suits(for, pk, fin) /\ for \in {"po33", "po35"}
  BY DEF Framed, Suits
<1>2. /\ a \in Nat /\ l \in Nat /\ a <= l /\ Len(bf) \in Nat /\ l <= Len(bf) /\ Len(pk) \in Nat
      /\ n \in Nat /\ n <= Len(pk)
  BY <1>1, EndType DEF Shares
<1>3. p.status = "more" /\ p.pos = a /\ p.state = st[n] /\ [p EXCEPT !.status = "bad"] = q
  BY StandFields, Restand
<1>4. q.status = "bad"
  BY StandFields
<1> HIDE DEF p, q, rest, never
<1>5. Stopping(q, never) = q
  BY <1>4 DEF Stopping
<1>6. Round(for, F, never, p) = q
  <2>1. CASE l - a < 5
    <3>1. Len(F) - p.pos < OverheadBytes
      BY <1>3, <2>1, FrameConstants
    <3> QED  BY <1>3, <3>1 DEF Round
  <2>2. CASE ~(l - a < 5) /\ n < Len(pk)
    <3> DEFINE k == n + 1
    <3>1. k \in 1..Len(pk) /\ k - 1 = n
      BY <1>2, <2>2
    <3>2. a + 5 <= l /\ Len(F) < End(pk, k)
      BY <1>2, <2>2
    <3> HIDE DEF k
    <3>3. End(pk, k-1) + 5 <= Len(F)
      BY <3>1, <3>2
    <3>4. LET more == SubSeq(F, End(pk, k-1) + 1, Len(F))
          IN  /\ ~ReadPacket(st[k-1], more).ok
              /\ pk[k].tag # TailTag => ~ReadTail(st[k-1], more).ok
      BY <1>1, <3>1, <3>2, <3>3, RestCut
    <3>5. ~ReadPacket(st[n], rest).ok /\ (pk[k].tag # TailTag => ~ReadTail(st[n], rest).ok)
      BY <3>1, <3>4 DEF rest
    <3>6. Step(for, p, rest) = q
      <4>1. CASE for = "po33"
        <5>1. Step33(p, rest) = q
          BY <1>3, <3>5 DEF Step33
        <5> QED  BY <4>1, <5>1 DEF Step
      <4>2. CASE for = "po35"
        <5>1. pk[k].tag # TailTag
          BY <1>1, <3>1, <4>2 DEF Suits
        <5>2. Step35(p, rest) = q
          BY <1>3, <3>5, <5>1 DEF Step35
        <5> QED  BY <4>2, <5>2 DEF Step
      <4> QED  BY <1>1, <4>1, <4>2
    <3>7. ~(Len(F) - p.pos < OverheadBytes)
      BY <1>3, <2>2, FrameConstants
    <3> QED  BY <1>3, <1>5, <3>6, <3>7 DEF Round, rest
  <2>3. CASE ~(l - a < 5) /\ ~(n < Len(pk))
    <3>1. n = Len(pk) /\ (~fin \/ Len(F) < Len(bf))
      BY <1>2, <2>3
    <3>2. Len(bf) = a \/ (fin /\ Len(bf) = a + 5)
      BY <3>1 DEF Framed, Ended
    <3> QED  BY <1>2, <2>3, <3>1, <3>2
  <2> QED  BY <2>1, <2>2, <2>3
<1>7. \A k \in 1..n : k # never /\ Verdict(for, pk, k) = "more"
  <2> SUFFICES ASSUME NEW k \in 1..n PROVE k # never /\ Verdict(for, pk, k) = "more"
    OBVIOUS
  <2>1. k \in 1..Len(pk) /\ k # never
    BY <1>2 DEF never
  <2>2. ~(for = "po33" /\ pk[k].tag = TagEnd)
    <3> SUFFICES ASSUME for = "po33", pk[k].tag = TagEnd PROVE FALSE
      OBVIOUS
    <3>1. fin /\ k = Len(pk)
      BY <1>1, <2>1 DEF Suits
    <3>2. n = Len(pk) /\ Len(F) < Len(bf)
      BY <1>2, <3>1
    <3>3. Len(bf) = a
      BY <3>2 DEF Framed, Ended
    <3> QED  BY <1>2, <3>2, <3>3
  <2> QED  BY <2>1, <2>2 DEF Verdict
<1>8. Shares(F, bf, End(pk, n))
  BY <1>2, SharesLess
<1>9. q.status # "more" /\ q = Round(for, F, never, Stand(pk, st, n, "more"))
  BY <1>4, <1>6 DEF p
<1> HIDE DEF a, l
<1>10. Parse(for, F, never) = q
  BY <1>1, <1>7, <1>8, <1>9, RunEnds
<1> QED  BY <1>10 DEF q, never, ParseAll

LEMMA ConcatShares ==
  ASSUME NEW bf \in Seq(Byte), NEW more \in Seq(Byte)
  PROVE  bf \o more \in Seq(Byte) /\ Shares(bf \o more, bf, Len(bf))
<1>1. bf \o more \in Seq(Byte) /\ Begins(bf, bf \o more) /\ Len(bf) \in Nat
  BY ConcatBegins
<1> QED  BY <1>1 DEF Begins, Shares

LEMMA CutShares ==
  ASSUME NEW bf \in Seq(Byte), NEW n \in 0..Len(bf)
  PROVE  LET F == SubSeq(bf, 1, n)
         IN  F \in Seq(Byte) /\ Len(F) = n /\ Shares(F, bf, Len(F))
<1> DEFINE F == SubSeq(bf, 1, n)
<1>1. n \in Nat /\ Len(bf) \in Nat /\ n <= Len(bf)
  OBVIOUS
<1>2. F \in Seq(Byte) /\ Len(F) = n /\ \A i \in 1..n : F[i] = bf[i]
  BY <1>1
<1> HIDE DEF F
<1>3. Shares(F, bf, Len(F))
  BY <1>1, <1>2 DEF Shares
<1> QED  BY <1>2, <1>3 DEF F

(* The packets that are whole in the first m bytes are the first n.        *)
LEMMA WholeOnes ==
  ASSUME NEW bf \in Seq(Byte), NEW pk \in Seq(Entry), NEW st, Laid(bf, pk, st),
         NEW m \in Nat, Len(CounterPreamble) <= m
  PROVE  \E n \in 0..Len(pk) :
           /\ End(pk, n) <= m
           /\ n < Len(pk) => m < End(pk, n + 1)
           /\ \A i \in 1..Len(pk) : i <= n <=> IsWhole(pk[i], m)
<1> DEFINE Left == { j \in 0..Len(pk) : End(pk, Len(pk) - j) <= m }
<1>1. Len(pk) \in Nat
  OBVIOUS
<1>2. Len(pk) \in Left
  <2>1. Len(pk) \in 0..Len(pk) /\ Len(pk) - Len(pk) = 0 /\ End(pk, 0) = Len(CounterPreamble)
    BY <1>1 DEF End
  <2> QED  BY <2>1
<1>3. PICK j \in Left : \A i \in Left : j <= i
  <2>1. Left \in SUBSET Nat /\ Left # {}
    BY <1>2
  <2> HIDE DEF Left
  <2> QED  BY <2>1, LeastNumber
<1> DEFINE n == Len(pk) - j
<1>4. n \in 0..Len(pk) /\ End(pk, n) <= m /\ j \in 0..Len(pk)
  BY <1>1, <1>3
<1>5. \A i \in 0..Len(pk) : n < i => m < End(pk, i)
  <2> SUFFICES ASSUME NEW i \in 0..Len(pk), n < i PROVE m < End(pk, i)
    OBVIOUS
  <2>1. Len(pk) - i \in 0..Len(pk) /\ Len(pk) - (Len(pk) - i) = i /\ ~(j <= Len(pk) - i)
    BY <1>1, <1>4
  <2>2. Len(pk) - i \notin Left
    BY <1>3, <2>1
  <2>3. ~(End(pk, i) <= m)
    BY <2>1, <2>2
  <2>4. End(pk, i) \in Nat
    BY EndType
  <2> QED  BY <2>3, <2>4
<1> HIDE DEF n
<1>6. n < Len(pk) => m < End(pk, n + 1)
  <2> SUFFICES ASSUME n < Len(pk) PROVE m < End(pk, n + 1)
    OBVIOUS
  <2> DEFINE k == n + 1
  <2>1. k \in 0..Len(pk) /\ n < k
    BY <1>1, <1>4
  <2> HIDE DEF k
  <2>2. m < End(pk, k)
    BY <1>5, <2>1
  <2> QED  BY <2>2 DEF k
<1>7. ASSUME NEW i \in 1..Len(pk) PROVE i <= n <=> IsWhole(pk[i], m)
  <2>1. IsWhole(pk[i], m) <=> End(pk, i) <= m
    BY DEF IsWhole, End
  <2>2. i \in 0..Len(pk) /\ i \in Nat /\ n \in Nat
    BY <1>4
  <2>3. ASSUME i <= n PROVE End(pk, i) <= m
    <3>1. End(pk, i) + 5 * (n - i) <= End(pk, n) /\ End(pk, i) \in Nat /\ End(pk, n) \in Nat
      BY <1>4, <2>2, <2>3, EndGrows, EndType
    <3> QED  BY <1>4, <2>2, <2>3, <3>1
  <2>4. ASSUME n < i PROVE ~(End(pk, i) <= m)
    <3>1. m < End(pk, i) /\ End(pk, i) \in Nat
      BY <1>5, <2>2, <2>4, EndType
    <3> QED  BY <3>1
  <2> QED  BY <2>1, <2>2, <2>3, <2>4
<1> QED  BY <1>4, <1>6, <1>7

LEMMA FinishesFrame ==
  ASSUME NEW bf \in Seq(Byte), NEW pk \in Seq(Entry), NEW st,
         NEW for, NEW c, Complete(for, bf, pk, st, c),
         NEW F \in Seq(Byte), Shares(F, bf, Len(bf))
  PROVE  ParseAll(for, F) = Done(bf, pk, c)
<1>1. for \in {"po33", "po35"}
  BY DEF Complete, Framed, Suits
<1>2. CASE for = "po33"
  <2>1. Complete("po33", bf, pk, st, c)
    BY <1>2
  <2>2. Parse("po33", F, -1) = Done(bf, pk, c)
    BY <2>1, Finishes33
  <2> QED  BY <1>2, <2>2 DEF ParseAll
<1>3. CASE for = "po35"
  <2>1. Complete("po35", bf, pk, st, c)
    BY <1>3
  <2>2. Parse("po35", F, -1) = Done(bf, pk, c)
    BY <2>1, Finishes35
  <2> QED  BY <1>3, <2>2 DEF ParseAll
<1> QED  BY <1>1, <1>2, <1>3

(* What a parse of n bytes reports of the packets.                         *)
Reports(parse, pk, n) ==
  /\ Len(parse.packets) <= Len(pk)
  /\ parse.packets = SubSeq(pk, 1, Len(parse.packets))
  /\ \A i \in DOMAIN pk : i <= Len(parse.packets) <=> IsWhole(pk[i], n)

LEMMA ReportsFirst ==
  ASSUME NEW pk \in Seq(Entry), NEW k \in 0..Len(pk), NEW n,
         \A i \in 1..Len(pk) : i <= k <=> IsWhole(pk[i], n),
         NEW parse, parse.packets = Firsts(pk, k)
  PROVE  Reports(parse, pk, n)
<1> DEFINE packets == parse.packets
<1>1. packets = Firsts(pk, k)
  OBVIOUS
<1> HIDE DEF packets
<1>2. Len(packets) = k
  BY <1>1, FirstsType
<1>3. packets = SubSeq(pk, 1, Len(packets))
  BY <1>1, <1>2 DEF Firsts
<1>4. k <= Len(pk) /\ DOMAIN pk = 1..Len(pk)
  OBVIOUS
<1>5. Len(packets) <= Len(pk) /\ \A i \in DOMAIN pk : i <= Len(packets) <=> IsWhole(pk[i], n)
  BY <1>2, <1>4
<1> QED  BY <1>3, <1>5 DEF Reports, packets

LEMMA LessOrSame ==
  ASSUME NEW a \in Nat, NEW b \in Nat, a <= b
  PROVE  a < b \/ a = b
  OBVIOUS

LEMMA CutShort ==
  ASSUME NEW bf \in Seq(Byte), NEW pk \in Seq(Entry), NEW st,
         NEW for, NEW fin, NEW c, Framed(for, bf, pk, st, fin, c),
         NEW F \in Seq(Byte), Shares(F, bf, Len(F)), Len(CounterPreamble) <= Len(F),
         ~fin \/ Len(F) < Len(bf)
  PROVE  Reports(ParseAll(for, F), pk, Len(F)) /\ ParseAll(for, F).status = "bad"
<1>1. Laid(bf, pk, st)
  BY DEF Framed
<1>2. Len(F) \in Nat
  OBVIOUS
<1>3. PICK k \in 0..Len(pk) :
        /\ End(pk, k) <= Len(F)
        /\ k < Len(pk) => Len(F) < End(pk, k + 1)
        /\ \A i \in 1..Len(pk) : i <= k <=> IsWhole(pk[i], Len(F))
  BY <1>1, <1>2, WholeOnes
<1>4. k < Len(pk) \/ k = Len(pk)
  <2>1. k \in Nat /\ Len(pk) \in Nat /\ k <= Len(pk)
    OBVIOUS
  <2> QED  BY <2>1, LessOrSame
<1>5. \/ k < Len(pk) /\ Len(F) < End(pk, k + 1)
      \/ k = Len(pk) /\ (~fin \/ Len(F) < Len(bf))
  BY <1>3, <1>4
<1>6. ParseAll(for, F) = Stand(pk, st, k, "bad")
  BY <1>3, <1>5, StopsShort
<1>7. ParseAll(for, F).packets = Firsts(pk, k) /\ ParseAll(for, F).status = "bad"
  BY <1>6, StandFields
<1>8. Reports(ParseAll(for, F), pk, Len(F))
  BY <1>3, <1>7, ReportsFirst
<1> QED  BY <1>7, <1>8

LEMMA CutNowhere ==
  ASSUME NEW bf \in Seq(Byte), NEW pk \in Seq(Entry), NEW st,
         NEW for, NEW c, Complete(for, bf, pk, st, c),
         NEW F \in Seq(Byte), Shares(F, bf, Len(F)), Len(F) = Len(bf)
  PROVE  Reports(ParseAll(for, F), pk, Len(F)) /\ ParseAll(for, F).status = "done"
<1> DEFINE l == Len(pk)
<1>1. Laid(bf, pk, st) /\ Shares(F, bf, Len(bf))
  BY DEF Complete, Framed
<1>2. ParseAll(for, F) = Done(bf, pk, c)
  BY <1>1, FinishesFrame
<1>3. ParseAll(for, F).packets = Firsts(pk, l) /\ ParseAll(for, F).status = "done"
  BY <1>2, FirstsOfAll DEF Done
<1>4. l \in 0..Len(pk)
  OBVIOUS
<1>5. ASSUME NEW i \in 1..Len(pk) PROVE i <= l <=> IsWhole(pk[i], Len(F))
  <2>1. i \in 0..Len(pk) /\ i <= l
    OBVIOUS
  <2>2. End(pk, i) <= Len(bf)
    BY <1>1, <2>1, EndType
  <2>3. IsWhole(pk[i], Len(F)) <=> End(pk, i) <= Len(F)
    BY DEF IsWhole, End
  <2> QED  BY <2>1, <2>2, <2>3
<1> HIDE DEF l
<1>6. Reports(ParseAll(for, F), pk, Len(F))
  BY <1>3, <1>4, <1>5, ReportsFirst
<1> QED  BY <1>3, <1>6

-----------------------------------------------------------------------------
(***************************************************************************)
(* How a buffer grows.                                                     *)
(***************************************************************************)
Growing(for, bf, pk, st, c) == Framed(for, bf, pk, st, FALSE, c)

LEMMA EntryAppends ==
  ASSUME NEW pk \in Seq(Entry), NEW e \in Entry
  PROVE  /\ pk \o <<e>> \in Seq(Entry) /\ Len(pk \o <<e>>) = Len(pk) + 1
         /\ \A i \in 1..Len(pk) : (pk \o <<e>>)[i] = pk[i]
         /\ (pk \o <<e>>)[Len(pk) + 1] = e
<1> HIDE DEF Entry
<1> QED  OBVIOUS

LEMMA LaidEmpty ==
  Laid(CounterPreamble, <<>>, [k \in 0..0 |-> InitialState])
<1> DEFINE st == [k \in 0..0 |-> InitialState]
<1>1. Len(<<>>) = 0 /\ 1..0 = {} /\ st[0] = InitialState
  OBVIOUS
<1>2. st \in [0..0 -> Word]
  BY FrameConstants
<1>3. Begins(CounterPreamble, CounterPreamble)
  <2>1. Len(CounterPreamble) \in Nat
    BY PreambleType, FramesAssumption
  <2> QED  BY <2>1 DEF Begins
<1> HIDE DEF st
<1>4. Laid(CounterPreamble, <<>>, st)
  BY <1>1, <1>2, <1>3 DEF Laid
<1> QED  BY <1>4 DEF st

(* A packet is written behind the others.                                  *)
Follows(bf, pk, tag, payload, w, more, pks) ==
  more = bf \o w.bytes /\ pks = pk \o <<Placed(tag, payload, Len(bf))>>

Lengthened(bf, pk, tag, payload, w, more, pks) ==
  /\ more \in Seq(Byte) /\ Len(more) = Len(bf) + 5 + Len(payload) /\ w.state \in Word
  /\ pks \in Seq(Entry) /\ Len(pks) = Len(pk) + 1
  /\ \A i \in 1..Len(pk) : pks[i] = pk[i]
  /\ pks[Len(pk) + 1] = Placed(tag, payload, Len(bf))
  /\ \E sts : /\ Laid(more, pks, sts) /\ sts[Len(pks)] = w.state
              /\ Len(more) = End(pks, Len(pks))

LEMMA LaidAppend ==
  ASSUME NEW bf \in Seq(Byte), NEW pk \in Seq(Entry), NEW st, Laid(bf, pk, st),
         Len(bf) = End(pk, Len(pk)),
         NEW tag \in Word, NEW payload \in Seq(Byte), Len(payload) <= 255,
         NEW w, w = WritePacket(st[Len(pk)], tag, payload), NEW more, NEW pks,
         Follows(bf, pk, tag, payload, w, more, pks)
  PROVE  Lengthened(bf, pk, tag, payload, w, more, pks)
<1> DEFINE n == Len(pk)
           m == n + 1
           a == Len(bf)
           e == Placed(tag, payload, a)
           sts == [k \in 0..m |-> IF k = m THEN w.state ELSE st[k]]
<1>0. more = bf \o w.bytes /\ pks = pk \o <<Placed(tag, payload, Len(bf))>>
  BY DEF Follows
<1>1. n \in Nat /\ n \in 0..Len(pk) /\ a \in Nat /\ Len(payload) \in Nat
  OBVIOUS
<1>2. st \in [0..n -> Word] /\ st[n] \in Word /\ st[0] = InitialState
  BY <1>1 DEF Laid
<1>3. w.bytes \in Seq(Byte) /\ Len(w.bytes) = 5 + Len(payload) /\ w.state \in Word
  BY <1>2, WritePacketType, FrameConstants
<1>4. more \in Seq(Byte) /\ Len(more) = a + 5 + Len(payload)
  <2> DEFINE bytes == w.bytes
  <2> HIDE DEF bytes
  <2>1. bytes \in Seq(Byte) /\ Len(bytes) = 5 + Len(payload) /\ more = bf \o bytes
    BY <1>0, <1>3 DEF bytes
  <2> QED  BY <1>1, <2>1, ByteConcat
<1>5. e \in Entry /\ e.tag = tag /\ e.payload = payload /\ e.offset = a
  BY <1>1 DEF Placed, Entry
<1>6. /\ pks \in Seq(Entry) /\ Len(pks) = m /\ \A i \in 1..n : pks[i] = pk[i]
      /\ pks[m] = e
  <2> HIDE DEF e
  <2>1. pks = pk \o <<e>>
    BY <1>0 DEF e
  <2> QED  BY <1>5, <2>1, EntryAppends
<1>7. /\ sts \in [0..m -> Word] /\ sts[0] = InitialState /\ sts[m] = w.state
      /\ \A k \in 0..n : sts[k] = st[k]
  <2> DEFINE s == w.state
  <2>1. s \in Word
    BY <1>3
  <2> HIDE DEF s
  <2>2. sts = [k \in 0..m |-> IF k = m THEN s ELSE st[k]]
    BY DEF s
  <2> HIDE DEF sts
  <2>3. m \in Nat /\ m \in 0..m /\ 0 \in 0..n /\ \A k \in 0..n : k \in 0..m /\ k # m
    BY <1>1
  <2>4. \A k \in 0..m : k = m \/ k \in 0..n
    BY <1>1
  <2> HIDE DEF m, n
  <2>5. sts \in [0..m -> Word] /\ sts[m] = s /\ \A k \in 0..n : sts[k] = st[k]
    BY <1>2, <2>1, <2>2, <2>3, <2>4
  <2> QED  BY <1>2, <2>3, <2>5 DEF s
<1>8. Begins(bf, more) /\ Begins(CounterPreamble, more)
  <2> DEFINE bytes == w.bytes
  <2>1. bytes \in Seq(Byte) /\ more = bf \o bytes
    BY <1>0, <1>3
  <2> HIDE DEF bytes
  <2>2. Begins(bf, more)
    BY <2>1, ConcatBegins
  <2>3. Begins(CounterPreamble, bf)
    BY DEF Laid
  <2> QED  BY <1>4, <2>2, <2>3, PreambleType, BeginsBegins
<1>9. \A k \in 0..n : End(pks, k) = End(pk, k)
  <2> SUFFICES ASSUME NEW k \in 0..n PROVE End(pks, k) = End(pk, k)
    OBVIOUS
  <2>1. CASE k = 0
    BY <2>1 DEF End
  <2>2. CASE k \in 1..n
    <3>1. pks[k] = pk[k] /\ k # 0
      BY <1>6, <2>2
    <3> QED  BY <3>1 DEF End
  <2> QED  BY <1>1, <2>1, <2>2
<1>10. End(pks, m) = Len(more)
  <2>1. m # 0 /\ pks[m].payload = payload /\ pks[m].offset = a
    BY <1>1, <1>5, <1>6
  <2>2. End(pks, m) = a + OverheadBytes + Len(payload)
    BY <2>1 DEF End
  <2> QED  BY <1>1, <1>4, <2>2, FrameConstants
<1> HIDE DEF e, sts
<1>11. ASSUME NEW k \in 1..n PROVE LaidAt(more, pks, sts, k)
  <2> DEFINE j == k - 1
             b == End(pk, j)
             d == End(pk, k)
  <2>1. k \in 0..n /\ j \in 0..n /\ pks[k] = pk[k] /\ sts[k] = st[k] /\ sts[j] = st[j]
        /\ End(pks, k) = d /\ End(pks, j) = b
    <3>1. k \in 0..n /\ j \in 0..n
      BY <1>1
    <3> HIDE DEF n, j
    <3>2. pks[k] = pk[k] /\ sts[k] = st[k] /\ sts[j] = st[j]
      BY <1>6, <1>7, <3>1
    <3>3. End(pks, k) = End(pk, k) /\ End(pks, j) = End(pk, j)
      BY <1>9, <3>1
    <3> QED  BY <3>1, <3>2, <3>3
  <2>2. LaidAt(bf, pk, st, k)
    BY DEF Laid
  <2>3. b \in Nat /\ d \in Nat /\ b <= d /\ d <= a
    <3> DEFINE l == Len(pk[k].payload)
    <3>1. b \in Nat /\ d \in Nat /\ l \in Nat /\ d = b + 5 + l /\ d <= a
      BY EndOfNext
    <3> HIDE DEF b, d, l, a
    <3> QED  BY <3>1
  <2> HIDE DEF j, b, d
  <2>4. SubSeq(more, b + 1, d) = SubSeq(bf, b + 1, d)
    <3> DEFINE f == b + 1
    <3>1. f \in Nat /\ 1 <= f /\ f <= d + 1 /\ d <= Len(bf)
      BY <2>3
    <3> HIDE DEF f
    <3>2. SubSeq(more, f, d) = SubSeq(bf, f, d)
      BY <1>4, <1>8, <2>3, <3>1, SliceOfBeginning
    <3> QED  BY <3>2 DEF f
  <2>5. /\ Len(pk[k].payload) <= 255 /\ pk[k].offset = b
        /\ SubSeq(bf, b + 1, d) = WritePacket(st[j], pk[k].tag, pk[k].payload).bytes
        /\ st[k] = WritePacket(st[j], pk[k].tag, pk[k].payload).state
    BY <2>2 DEF LaidAt, j, b, d
  <2>6. d <= Len(more)
    BY <1>1, <1>4, <2>3
  <2> QED  BY <2>1, <2>4, <2>5, <2>6 DEF LaidAt, j
<1>12. LaidAt(more, pks, sts, m)
  <2>1. m - 1 = n /\ sts[n] = st[n] /\ End(pks, n) = a
    <3>1. n \in 0..n /\ m - 1 = n
      BY <1>1
    <3>2. a = End(pk, n)
      OBVIOUS
    <3> HIDE DEF n, m, a
    <3>3. sts[n] = st[n] /\ End(pks, n) = End(pk, n)
      BY <1>7, <1>9, <3>1
    <3> QED  BY <3>1, <3>2, <3>3
  <2>2. SubSeq(more, a + 1, Len(more)) = w.bytes
    <3> DEFINE bytes == w.bytes
               l == Len(more)
    <3>1. bytes \in Seq(Byte) /\ Len(bytes) = 5 + Len(payload) /\ more = bf \o bytes
      BY <1>0, <1>3
    <3> HIDE DEF bytes
    <3>2. SubSeq(more, Len(bf) + 1, Len(bf) + Len(bytes)) = bytes
      BY <3>1, ConcatParts
    <3>3. Len(bf) + Len(bytes) = l
      BY <1>1, <1>4, <3>1
    <3> HIDE DEF l
    <3>4. SubSeq(more, Len(bf) + 1, l) = bytes
      BY <3>2, <3>3
    <3> QED  BY <3>4 DEF bytes, l
  <2>3. pks[m].tag = tag /\ pks[m].payload = payload /\ pks[m].offset = a
    BY <1>5, <1>6
  <2>4. w = WritePacket(st[n], tag, payload) /\ sts[m] = w.state
    BY <1>7
  <2>5. Len(more) \in Nat
    BY <1>4
  <2> HIDE DEF m, n, a
  <2>6. WritePacket(sts[m-1], pks[m].tag, pks[m].payload) = w /\ End(pks, m-1) = a
    BY <2>1, <2>3, <2>4
  <2>7. /\ Len(pks[m].payload) <= 255 /\ pks[m].offset = End(pks, m-1)
        /\ End(pks, m) <= Len(more) /\ sts[m] = w.state
        /\ SubSeq(more, End(pks, m-1) + 1, End(pks, m)) = w.bytes
    <3>1. SubSeq(more, End(pks, m-1) + 1, End(pks, m)) = w.bytes
      BY <1>10, <2>2, <2>6, Zenon
    <3>2. /\ Len(pks[m].payload) <= 255 /\ pks[m].offset = End(pks, m-1) /\ sts[m] = w.state
      BY <2>3, <2>4, <2>6
    <3>3. End(pks, m) <= Len(more)
      BY <1>10, <2>5
    <3> QED  BY <3>1, <3>2, <3>3
  <2> QED  BY <2>6, <2>7 DEF LaidAt
<1>13. Laid(more, pks, sts)
  <2>1. \A k \in 1..m : k = m \/ k \in 1..n
    BY <1>1
  <2> HIDE DEF m, n
  <2> QED  BY <1>6, <1>7, <1>8, <1>11, <1>12, <2>1 DEF Laid
<1> QED  BY <1>3, <1>4, <1>6, <1>7, <1>10, <1>13 DEF e, Lengthened

LEMMA GrowingLast ==
  ASSUME NEW for, NEW bf \in Seq(Byte), NEW pk \in Seq(Entry), NEW st, NEW c,
         Growing(for, bf, pk, st, c)
  PROVE  /\ for \in {"po33", "po35"} /\ Laid(bf, pk, st)
         /\ Len(bf) = End(pk, Len(pk)) /\ c = st[Len(pk)] /\ c \in Word
<1>1. for \in {"po33", "po35"} /\ Laid(bf, pk, st) /\ Len(bf) = End(pk, Len(pk)) /\ c = st[Len(pk)]
  BY DEF Growing, Framed, Suits, Ended
<1>2. Len(pk) \in 0..Len(pk)
  OBVIOUS
<1>3. c \in Word
  BY <1>1, <1>2, EndType
<1> QED  BY <1>1, <1>3

LEMMA GrowingAppend ==
  ASSUME NEW for, NEW bf \in Seq(Byte), NEW pk \in Seq(Entry), NEW st, NEW c,
         Growing(for, bf, pk, st, c),
         NEW tag \in Word, tag \notin Brackets(for),
         NEW payload \in Seq(Byte), Len(payload) <= 255,
         NEW w, w = WritePacket(c, tag, payload), NEW more, NEW pks,
         Follows(bf, pk, tag, payload, w, more, pks)
  PROVE  /\ more \in Seq(Byte) /\ Len(more) = Len(bf) + 5 + Len(payload) /\ w.state \in Word
         /\ pks \in Seq(Entry)
         /\ \E sts : Growing(for, more, pks, sts, w.state)
<1> DEFINE n == Len(pk)
           m == n + 1
<1>1. /\ for \in {"po33", "po35"} /\ Laid(bf, pk, st) /\ Len(bf) = End(pk, n) /\ c = st[n]
      /\ n \in Nat
  BY GrowingLast
<1>2. w = WritePacket(st[n], tag, payload)
  BY <1>1
<1>3. /\ more \in Seq(Byte) /\ Len(more) = Len(bf) + 5 + Len(payload) /\ w.state \in Word
      /\ pks \in Seq(Entry) /\ Len(pks) = m /\ \A i \in 1..n : pks[i] = pk[i]
      /\ pks[m] = Placed(tag, payload, Len(bf))
      /\ \E sts : Laid(more, pks, sts) /\ sts[Len(pks)] = w.state /\ Len(more) = End(pks, Len(pks))
  <2>1. Lengthened(bf, pk, tag, payload, w, more, pks)
    BY <1>1, <1>2, LaidAppend
  <2> QED  BY <2>1 DEF Lengthened
<1>4. pks[m].tag = tag
  BY <1>3 DEF Placed
<1>5. \A k \in 1..m : k = m \/ (k \in 1..n /\ pks[k] = pk[k])
  BY <1>1, <1>3
<1>6. m >= 1 /\ m \notin 1..n
  BY <1>1
<1>7. Suits(for, pk, FALSE)
  BY DEF Growing, Framed
<1>8. Suits(for, pks, FALSE)
  <2>1. CASE for = "po33"
    <3>1. n >= 1 /\ tag # TagBegin /\ tag # TagEnd
      BY <1>7, <2>1 DEF Suits, Brackets
    <3>2. m # 1 /\ m >= 1
      BY <1>1, <3>1
    <3> HIDE DEF n, m
    <3>3. ASSUME NEW k \in 1..m
          PROVE  /\ pks[k].tag = TagBegin <=> k = 1
                 /\ pks[k].tag # TagEnd
                 /\ pks[k].tag \in {TagBegin, TagEnd} => pks[k].payload = <<>>
      <4>1. CASE k = m
        BY <1>4, <3>1, <3>2, <4>1
      <4>2. CASE k \in 1..n /\ pks[k] = pk[k]
        BY <1>7, <2>1, <4>2 DEF Suits, n
      <4> QED  BY <1>5, <4>1, <4>2
    <3> QED  BY <1>3, <2>1, <3>2, <3>3 DEF Suits
  <2>2. CASE for = "po35"
    <3>1. tag # TailTag
      BY <2>2 DEF Brackets
    <3> HIDE DEF n, m
    <3>2. ASSUME NEW k \in 1..m PROVE pks[k].tag # TailTag
      <4>1. CASE k = m
        BY <1>4, <3>1, <4>1
      <4>2. CASE k \in 1..n /\ pks[k] = pk[k]
        BY <1>7, <2>2, <4>2 DEF Suits, n
      <4> QED  BY <1>5, <4>1, <4>2
    <3> QED  BY <1>3, <2>2, <3>2 DEF Suits
  <2> QED  BY <1>1, <2>1, <2>2
<1>9. PICK sts : Laid(more, pks, sts) /\ sts[Len(pks)] = w.state /\ Len(more) = End(pks, Len(pks))
  BY <1>3
<1>10. Growing(for, more, pks, sts, w.state)
  BY <1>8, <1>9 DEF Growing, Framed, Ended
<1> QED  BY <1>3, <1>10

(* The PO-33's END packet completes a frame, and the PO-35's tail.         *)
LEMMA EndCompletes ==
  ASSUME NEW bf \in Seq(Byte), NEW pk \in Seq(Entry), NEW st, NEW c,
         Growing("po33", bf, pk, st, c),
         NEW w, w = WritePacket(c, TagEnd, <<>>), NEW more, NEW pks,
         Follows(bf, pk, TagEnd, <<>>, w, more, pks)
  PROVE  /\ more \in Seq(Byte) /\ Len(more) = Len(bf) + 5 /\ w.state \in Word
         /\ pks \in Seq(Entry)
         /\ \E sts : Complete("po33", more, pks, sts, w.state)
<1> DEFINE n == Len(pk)
           m == n + 1
<1>1. Laid(bf, pk, st) /\ Len(bf) = End(pk, n) /\ c = st[n] /\ n \in Nat /\ Len(bf) \in Nat
  BY GrowingLast
<1>2. w = WritePacket(st[n], TagEnd, <<>>)
  BY <1>1
<1>3. /\ more \in Seq(Byte) /\ Len(more) = Len(bf) + 5 /\ w.state \in Word
      /\ pks \in Seq(Entry) /\ Len(pks) = m /\ \A i \in 1..n : pks[i] = pk[i]
      /\ pks[m] = Placed(TagEnd, <<>>, Len(bf))
      /\ \E sts : Laid(more, pks, sts) /\ sts[Len(pks)] = w.state /\ Len(more) = End(pks, Len(pks))
  <2> DEFINE tag == TagEnd
             payload == <<>>
  <2>1. tag \in Word /\ payload \in Seq(Byte) /\ Len(payload) = 0 /\ Len(payload) <= 255
    BY FrameConstants
  <2>2. w = WritePacket(st[n], tag, payload) /\ Follows(bf, pk, tag, payload, w, more, pks)
    BY <1>2
  <2> HIDE DEF tag, payload
  <2>3. Lengthened(bf, pk, tag, payload, w, more, pks)
    BY <1>1, <2>1, <2>2, LaidAppend
  <2>4. Len(more) = Len(bf) + 5
    BY <1>1, <2>1, <2>3 DEF Lengthened
  <2> QED  BY <2>3, <2>4 DEF Lengthened, tag, payload
<1>4. pks[m].tag = TagEnd /\ pks[m].payload = <<>>
  BY <1>3 DEF Placed
<1>5. \A k \in 1..m : k = m \/ (k \in 1..n /\ pks[k] = pk[k] /\ k # m)
  BY <1>1, <1>3
<1>6. Suits("po33", pk, FALSE)
  BY DEF Growing, Framed
<1>7. m # 1 /\ m >= 1
  BY <1>1, <1>6 DEF Suits
<1>8. Suits("po33", pks, TRUE)
  <2> HIDE DEF n, m
  <2>1. ASSUME NEW k \in 1..m
        PROVE  /\ pks[k].tag = TagBegin <=> k = 1
               /\ pks[k].tag = TagEnd <=> k = m
               /\ pks[k].tag \in {TagBegin, TagEnd} => pks[k].payload = <<>>
    <3>1. CASE k = m
      BY <1>4, <1>7, <3>1, FrameConstants
    <3>2. CASE k \in 1..n /\ pks[k] = pk[k] /\ k # m
      BY <1>6, <3>2 DEF Suits, n
    <3> QED  BY <1>5, <3>1, <3>2
  <2> QED  BY <1>3, <1>7, <2>1 DEF Suits
<1>9. PICK sts : Laid(more, pks, sts) /\ sts[Len(pks)] = w.state /\ Len(more) = End(pks, Len(pks))
  BY <1>3
<1>10. Complete("po33", more, pks, sts, w.state)
  BY <1>8, <1>9 DEF Complete, Framed, Ended
<1> QED  BY <1>3, <1>10

LEMMA LaidLonger ==
  ASSUME NEW bf \in Seq(Byte), NEW pk \in Seq(Entry), NEW st, Laid(bf, pk, st),
         NEW more \in Seq(Byte), Begins(bf, more)
  PROVE  Laid(more, pk, st)
<1>1. Begins(CounterPreamble, more)
  BY PreambleType, BeginsBegins DEF Laid
<1>2. Len(bf) \in Nat /\ Len(more) \in Nat /\ Len(bf) <= Len(more)
  BY DEF Begins
<1>3. ASSUME NEW k \in 1..Len(pk) PROVE LaidAt(more, pk, st, k)
  <2> DEFINE j == k - 1
             b == End(pk, j)
             d == End(pk, k)
  <2>1. LaidAt(bf, pk, st, k)
    BY DEF Laid
  <2>2. b \in Nat /\ d \in Nat /\ b <= d /\ d <= Len(bf)
    <3> DEFINE l == Len(pk[k].payload)
    <3>1. b \in Nat /\ d \in Nat /\ l \in Nat /\ d = b + 5 + l /\ d <= Len(bf)
      BY EndOfNext, ZenonT(60)
    <3> HIDE DEF b, d, l
    <3> QED  BY <3>1
  <2> HIDE DEF j, b, d
  <2>3. SubSeq(more, b + 1, d) = SubSeq(bf, b + 1, d)
    <3> DEFINE f == b + 1
    <3>1. f \in Nat /\ 1 <= f /\ f <= d + 1 /\ d <= Len(bf)
      BY <2>2
    <3> HIDE DEF f
    <3>2. SubSeq(more, f, d) = SubSeq(bf, f, d)
      BY <2>2, <3>1, SliceOfBeginning
    <3> QED  BY <3>2 DEF f
  <2>4. d <= Len(more)
    BY <1>2, <2>2
  <2>5. /\ Len(pk[k].payload) <= 255 /\ pk[k].offset = b
        /\ SubSeq(bf, b + 1, d) = WritePacket(st[j], pk[k].tag, pk[k].payload).bytes
        /\ st[k] = WritePacket(st[j], pk[k].tag, pk[k].payload).state
    BY <2>1 DEF LaidAt, j, b, d
  <2>6. SubSeq(more, b + 1, d) = WritePacket(st[j], pk[k].tag, pk[k].payload).bytes
    BY <2>3, <2>5, Zenon
  <2> HIDE DEF LaidAt
  <2> QED  BY <2>4, <2>5, <2>6 DEF LaidAt, j, b, d
<1> QED  BY <1>1, <1>3 DEF Laid

LEMMA TailCompletes ==
  ASSUME NEW bf \in Seq(Byte), NEW pk \in Seq(Entry), NEW st, NEW c,
         Growing("po35", bf, pk, st, c),
         NEW w, w = WriteTail(c), NEW more, more = bf \o w.bytes
  PROVE  /\ more \in Seq(Byte) /\ Len(more) = Len(bf) + 5 /\ w.state \in Word
         /\ Complete("po35", more, pk, st, w.state)
<1> DEFINE e == Len(bf)
           bytes == w.bytes
<1>1. Laid(bf, pk, st) /\ e = End(pk, Len(pk)) /\ c = st[Len(pk)] /\ c \in Word
  BY GrowingLast
<1>2. bytes \in Seq(Byte) /\ Len(bytes) = 5 /\ w.state \in Word /\ more = bf \o bytes
  BY <1>1, WriteTailType, FrameConstants
<1> HIDE DEF bytes
<1>3. /\ more \in Seq(Byte) /\ Len(more) = e + 5 /\ Begins(bf, more)
      /\ SubSeq(more, e + 1, e + Len(bytes)) = bytes
  <2>1. more \in Seq(Byte) /\ Len(more) = e + Len(bytes) /\ Begins(bf, more)
    BY <1>2, ByteConcat, ConcatBegins
  <2>2. SubSeq(bf \o bytes, Len(bf) + 1, Len(bf) + Len(bytes)) = bytes
    BY <1>2, ConcatParts
  <2>3. SubSeq(more, e + 1, e + Len(bytes)) = bytes
    BY <1>2, <2>2, Zenon
  <2> QED  BY <1>2, <2>1, <2>3
<1>4. SubSeq(more, e + 1, e + 5) = bytes
  BY <1>2, <1>3
<1>5. Laid(more, pk, st)
  BY <1>1, <1>3, LaidLonger
<1>6. Suits("po35", pk, TRUE)
  BY DEF Growing, Framed, Suits
<1>7. Ended("po35", more, pk, st, TRUE, w.state)
  <2>1. w = WriteTail(st[Len(pk)])
    BY <1>1
  <2> HIDE DEF e
  <2>2. Len(more) = End(pk, Len(pk)) + 5
    BY <1>1, <1>3
  <2>3. SubSeq(more, End(pk, Len(pk)) + 1, End(pk, Len(pk)) + 5) = w.bytes
    BY <1>1, <1>4, Zenon DEF bytes
  <2> QED  BY <2>1, <2>2, <2>3, Zenon DEF Ended
<1> QED  BY <1>2, <1>3, <1>5, <1>6, <1>7 DEF Complete, Framed

(* The counter alone is an empty PO-35 frame; with BEGIN behind it, a      *)
(* PO-33 one.                                                              *)
LEMMA Opens35 ==
  \E st : Growing("po35", CounterPreamble, <<>>, st, InitialState)
<1> DEFINE st == [k \in 0..0 |-> InitialState]
<1>1. Len(<<>>) = 0 /\ 1..0 = {} /\ st[0] = InitialState
  OBVIOUS
<1>2. Laid(CounterPreamble, <<>>, st)
  BY LaidEmpty
<1> HIDE DEF st
<1>3. Suits("po35", <<>>, FALSE)
  BY <1>1 DEF Suits
<1>4. Len(CounterPreamble) = End(<<>>, Len(<<>>)) /\ InitialState = st[Len(<<>>)]
  BY <1>1 DEF End
<1>5. Ended("po35", CounterPreamble, <<>>, st, FALSE, InitialState)
  BY <1>4 DEF Ended
<1>6. Growing("po35", CounterPreamble, <<>>, st, InitialState)
  BY <1>2, <1>3, <1>5 DEF Growing, Framed
<1> QED  BY <1>6

LEMMA Opens33 ==
  ASSUME NEW w, w = WritePacket(InitialState, TagBegin, <<>>),
         NEW more, more = CounterPreamble \o w.bytes,
         NEW pks, pks = <<Placed(TagBegin, <<>>, Len(CounterPreamble))>>
  PROVE  /\ more \in Seq(Byte) /\ Len(more) = Len(CounterPreamble) + 5 /\ w.state \in Word
         /\ pks \in Seq(Entry)
         /\ \E sts : Growing("po33", more, pks, sts, w.state)
<1> DEFINE st == [k \in 0..0 |-> InitialState]
           bf == CounterPreamble
           pk == <<>>
           tag == TagBegin
           payload == <<>>
<1>1. Len(pk) = 0 /\ st[0] = InitialState /\ pk \in Seq(Entry)
  OBVIOUS
<1>2. bf \in Seq(Byte) /\ Len(bf) \in Nat /\ Len(bf) = End(pk, Len(pk))
  BY <1>1, PreambleType, FramesAssumption DEF End
<1>3. Laid(bf, pk, st)
  BY LaidEmpty
<1>4. tag \in Word /\ payload \in Seq(Byte) /\ Len(payload) = 0 /\ Len(payload) <= 255
  BY FrameConstants
<1>5. Follows(bf, pk, tag, payload, w, more, pks)
  <2> DEFINE e == Placed(tag, payload, Len(bf))
  <2>1. pks = <<e>> /\ more = bf \o w.bytes
    OBVIOUS
  <2> HIDE DEF e
  <2>2. pks = pk \o <<e>>
    BY <2>1
  <2> QED  BY <2>1, <2>2 DEF Follows, e
<1> HIDE DEF st, bf, pk, tag, payload
<1>6. w = WritePacket(st[Len(pk)], tag, payload)
  BY <1>1 DEF tag, payload
<1>7. Lengthened(bf, pk, tag, payload, w, more, pks)
  BY <1>1, <1>2, <1>3, <1>4, <1>5, <1>6, LaidAppend
<1>8. /\ more \in Seq(Byte) /\ Len(more) = Len(bf) + 5 + Len(payload) /\ w.state \in Word
      /\ pks \in Seq(Entry) /\ Len(pks) = Len(pk) + 1
      /\ pks[Len(pk) + 1] = Placed(tag, payload, Len(bf))
  BY <1>7 DEF Lengthened
<1>9. Len(more) = Len(bf) + 5 /\ Len(pks) = 1 /\ pks[1].tag = TagBegin /\ pks[1].payload = <<>>
  BY <1>1, <1>2, <1>4, <1>8 DEF Placed, tag, payload
<1>10. Suits("po33", pks, FALSE)
  <2>1. \A k \in 1..1 : k = 1
    OBVIOUS
  <2> QED  BY <1>9, <2>1, FrameConstants DEF Suits
<1>11. PICK sts : Laid(more, pks, sts) /\ sts[Len(pks)] = w.state /\ Len(more) = End(pks, Len(pks))
  BY <1>7 DEF Lengthened
<1>12. Growing("po33", more, pks, sts, w.state)
  BY <1>10, <1>11 DEF Growing, Framed, Ended
<1> QED  BY <1>8, <1>9, <1>12 DEF bf

LEMMA OpensFrame ==
  ASSUME NEW for \in Devices, NEW room \in FrameCapacities,
         NEW o, o = Opened(for, room)
  PROVE  /\ o.buffer \in Seq(Byte) /\ o.crc \in Word /\ Len(o.buffer) <= room
         /\ o.appended \in Seq(Entry) /\ o.status \in {"ok", "buffer_too_small"}
         /\ o.buffer = <<>> => o.appended = <<>>
         /\ o.buffer # <<>> => \E st : Growing(for, o.buffer, o.appended, st, o.crc)
<1> DEFINE w == WritePacket(InitialState, TagBegin, <<>>)
           more == CounterPreamble \o w.bytes
           pks == <<Placed(TagBegin, <<>>, Len(CounterPreamble))>>
<1>1. /\ more \in Seq(Byte) /\ Len(more) = Len(CounterPreamble) + 5 /\ w.state \in Word
      /\ pks \in Seq(Entry)
      /\ \E sts : Growing("po33", more, pks, sts, w.state)
  <2> HIDE DEF w, more, pks
  <2>1. /\ w = WritePacket(InitialState, TagBegin, <<>>) /\ more = CounterPreamble \o w.bytes
        /\ pks = <<Placed(TagBegin, <<>>, Len(CounterPreamble))>>
    BY DEF w, more, pks
  <2> QED  BY <2>1, Opens33
<1>2. Len(CounterPreamble) \in Nat /\ CounterPreamble \in Seq(Byte) /\ room \in Nat
      /\ for \in {"po33", "po35"} /\ 0 \in Word
  <2> HIDE DEF w, more, pks
  <2>1. CounterPreamble \in Seq(Byte) /\ Len(CounterPreamble) \in Nat
    BY PreambleType, FramesAssumption
  <2>2. room \in Nat /\ for \in {"po33", "po35"}
    BY FramesAssumption
  <2>3. 0 \in Word
    BY WordIs
  <2> QED  BY <2>1, <2>2, <2>3
<1>3. Len(w.bytes) = 5
  <2> DEFINE bytes == w.bytes
             payload == <<>>
  <2>1. InitialState \in Word /\ TagBegin \in Word /\ payload \in Seq(Byte) /\ Len(payload) = 0
        /\ Len(payload) <= 255
    BY FrameConstants
  <2>2. w = WritePacket(InitialState, TagBegin, payload)
    OBVIOUS
  <2> HIDE DEF payload, w
  <2>3. Len(w.bytes) = OverheadBytes + Len(payload)
    BY <2>1, <2>2, WritePacketType
  <2> QED  BY <2>1, <2>3, FrameConstants
<1> HIDE DEF w, more, pks
<1>4. CASE room < Bytes(for)
  <2>1. o = [buffer |-> <<>>, crc |-> 0, appended |-> <<>>, status |-> "buffer_too_small"]
    BY <1>4 DEF Opened
  <2>2. o.buffer = <<>> /\ o.crc = 0 /\ o.appended = <<>> /\ o.status = "buffer_too_small"
    BY <2>1
  <2>3. <<>> \in Seq(Byte) /\ Len(<<>>) = 0 /\ <<>> \in Seq(Entry)
    OBVIOUS
  <2> QED  BY <1>2, <2>2, <2>3
<1>5. CASE ~(room < Bytes(for)) /\ for = "po33"
  <2>1. Opening(for) = w
    BY <1>5 DEF Opening, w
  <2>2. o = [buffer |-> more, crc |-> w.state, appended |-> pks, status |-> "ok"]
    BY <1>5, <2>1 DEF Opened, more, pks
  <2>3. o.buffer = more /\ o.crc = w.state /\ o.appended = pks /\ o.status = "ok"
    BY <2>2
  <2>4. Bytes(for) = Len(CounterPreamble) + 5
    BY <1>3, <2>1 DEF Bytes
  <2>5. Len(more) <= room /\ more # <<>>
    BY <1>1, <1>2, <1>5, <2>4
  <2> QED  BY <1>1, <1>5, <2>3, <2>5
<1>6. CASE ~(room < Bytes(for)) /\ for = "po35"
  <2> DEFINE cp == CounterPreamble
  <2>1. Opening(for) = [bytes |-> <<>>, state |-> InitialState]
    BY <1>6 DEF Opening
  <2>2. Opening(for).bytes = <<>> /\ Opening(for).state = InitialState
    BY <2>1
  <2>3. cp \o <<>> = cp /\ Len(<<>>) = 0
    <3> HIDE DEF cp
    <3>1. cp \in Seq(Byte)
      BY <1>2 DEF cp
    <3> QED  BY <3>1
  <2>4. o = [buffer |-> cp, crc |-> InitialState, appended |-> <<>>, status |-> "ok"]
    BY <1>6, <2>2, <2>3 DEF Opened
  <2> HIDE DEF cp
  <2>5. o.buffer = cp /\ o.crc = InitialState /\ o.appended = <<>> /\ o.status = "ok"
    BY <2>4
  <2>6. Bytes(for) = Len(cp)
    BY <1>2, <2>2, <2>3 DEF Bytes, cp
  <2>7. Len(cp) <= room /\ cp \in Seq(Byte)
    BY <1>2, <1>6, <2>6 DEF cp
  <2>8. \E st : Growing(for, cp, <<>>, st, InitialState)
    BY <1>6, Opens35 DEF cp
  <2>9. <<>> \in Seq(Entry)
    OBVIOUS
  <2> QED  BY <2>5, <2>7, <2>8, <2>9, FrameConstants
<1> QED  BY <1>2, <1>4, <1>5, <1>6

-----------------------------------------------------------------------------
(***************************************************************************)
(* The builder.                                                            *)
(***************************************************************************)
FramesInv ==
  /\ FramesTypeOK
  /\ frame_capacity \in Nat /\ frame_packets \in Seq(Entry)
  /\ frame_buffer = <<>> => frame_packets = <<>> /\ ~frame_finished
  /\ frame_buffer # <<>> /\ ~frame_finished => \E st : Growing(device, frame_buffer, frame_packets, st, crc)
  /\ frame_finished => frame_out_len = Len(frame_buffer) /\ \E st : Complete(device, frame_buffer, frame_packets, st, crc)

LEMMA FramesOpenHolds ==
  ASSUME device' \in Devices, frame_capacity' \in FrameCapacities,
         NEW o, o = Opened(device', frame_capacity'),
         frame_buffer' = o.buffer, crc' = o.crc, frame_packets' = o.appended, frame_status' = o.status,
         frame_finished' = FALSE, frame_out_len' = 0
  PROVE  FramesInv'
<1>1. /\ o.buffer \in Seq(Byte) /\ o.crc \in Word /\ Len(o.buffer) <= frame_capacity'
      /\ o.appended \in Seq(Entry) /\ o.status \in {"ok", "buffer_too_small"}
      /\ o.buffer = <<>> => o.appended = <<>>
      /\ o.buffer # <<>> => \E st : Growing(device', o.buffer, o.appended, st, o.crc)
  BY OpensFrame
<1>2. frame_capacity' \in Nat
  BY FramesAssumption
<1>3. 0 \in 0..frame_capacity'
  BY <1>2
<1>4. FramesTypeOK'
  BY <1>1, <1>3 DEF FramesTypeOK
<1> QED  BY <1>1, <1>2, <1>4 DEF FramesInv

LEMMA FramesInitHolds ==
  ASSUME Init
  PROVE  FramesInv
<1>1. /\ device \in Devices /\ frame_capacity \in FrameCapacities /\ frame_finished = FALSE /\ frame_out_len = 0
      /\ \E o \in {Opened(device, frame_capacity)} :
           frame_buffer = o.buffer /\ crc = o.crc /\ frame_packets = o.appended /\ frame_status = o.status
  BY DEF Init
<1>2. PICK o : /\ o = Opened(device, frame_capacity)
               /\ frame_buffer = o.buffer /\ crc = o.crc /\ frame_packets = o.appended /\ frame_status = o.status
  BY <1>1
<1>3. /\ o.buffer \in Seq(Byte) /\ o.crc \in Word /\ Len(o.buffer) <= frame_capacity
      /\ o.appended \in Seq(Entry) /\ o.status \in {"ok", "buffer_too_small"}
      /\ o.buffer = <<>> => o.appended = <<>>
      /\ o.buffer # <<>> => \E st : Growing(device, o.buffer, o.appended, st, o.crc)
  BY <1>1, <1>2, OpensFrame
<1>4. frame_capacity \in Nat
  BY <1>1, FramesAssumption
<1>5. 0 \in 0..frame_capacity
  BY <1>4
<1>6. FramesTypeOK
  BY <1>1, <1>2, <1>3, <1>5 DEF FramesTypeOK
<1> QED  BY <1>1, <1>2, <1>3, <1>4, <1>6 DEF FramesInv

LEMMA AppendHolds ==
  ASSUME FramesInv,
         NEW tag \in Word, NEW payload \in Seq(Byte), AppendToFrame(tag, payload)
  PROVE  FramesInv'
<1> DEFINE w == WritePacket(crc, tag, payload)
<1>1. FramesTypeOK /\ frame_capacity \in Nat /\ frame_packets \in Seq(Entry)
  BY DEF FramesInv
<1>2. UNCHANGED <<device, frame_capacity, frame_finished, frame_out_len>>
      /\ frame_status' = Objection(device, tag, Len(payload))
  BY DEF AppendToFrame
<1>3. frame_status' \in {"ok", "invalid_arg", "frame", "range", "buffer_too_small"}
  BY <1>2 DEF Objection
<1>4. CASE frame_status' # "ok"
  <2>1. UNCHANGED <<frame_buffer, crc, frame_packets>>
    BY <1>4 DEF AppendToFrame
  <2>2. FramesTypeOK'
    BY <1>1, <1>2, <1>3, <2>1 DEF FramesTypeOK
  <2> QED  BY <1>1, <1>2, <2>1, <2>2 DEF FramesInv
<1>5. CASE frame_status' = "ok"
  <2>1. frame_buffer' = frame_buffer \o w.bytes /\ crc' = w.state
        /\ frame_packets' = frame_packets \o <<Placed(tag, payload, Len(frame_buffer))>>
    BY <1>5 DEF AppendToFrame, Write
  <2>2. /\ frame_buffer # <<>> /\ tag \notin Brackets(device) /\ ~frame_finished /\ ~(Len(payload) > 255)
        /\ ~(frame_capacity - Len(frame_buffer) < Len(payload) + 5)
    BY <1>2, <1>5, FrameConstants DEF Objection, IsValid
  <2>3. /\ frame_buffer \in Seq(Byte) /\ Len(frame_buffer) \in Nat /\ Len(payload) \in Nat
        /\ Len(payload) <= 255
    BY <1>1, <2>2 DEF FramesTypeOK
  <2>4. PICK st : Growing(device, frame_buffer, frame_packets, st, crc)
    BY <2>2 DEF FramesInv
  <2>5. Follows(frame_buffer, frame_packets, tag, payload, w, frame_buffer', frame_packets')
    BY <2>1 DEF Follows
  <2> HIDE DEF w
  <2>6. w = WritePacket(crc, tag, payload)
    BY DEF w
  <2>7. /\ frame_buffer' \in Seq(Byte) /\ Len(frame_buffer') = Len(frame_buffer) + 5 + Len(payload)
        /\ w.state \in Word /\ frame_packets' \in Seq(Entry)
        /\ \E sts : Growing(device, frame_buffer', frame_packets', sts, w.state)
    BY <1>1, <2>2, <2>3, <2>4, <2>5, <2>6, GrowingAppend
  <2>8. Len(frame_buffer') <= frame_capacity /\ frame_buffer' # <<>>
    BY <1>1, <2>2, <2>3, <2>7
  <2>9. FramesTypeOK'
    BY <1>1, <1>2, <1>3, <2>1, <2>7, <2>8 DEF FramesTypeOK
  <2> QED  BY <1>1, <1>2, <2>1, <2>2, <2>7, <2>8, <2>9 DEF FramesInv
<1> QED  BY <1>4, <1>5

LEMMA FinishHolds ==
  ASSUME FramesInv, CloseFrame
  PROVE  FramesInv'
<1>1. FramesTypeOK /\ frame_capacity \in Nat /\ frame_packets \in Seq(Entry)
  BY DEF FramesInv
<1>2. UNCHANGED <<device, frame_capacity>>
  BY DEF CloseFrame
<1>3. frame_status' \in {"ok", "invalid_arg", "buffer_too_small"}
  BY DEF CloseFrame
<1>4. frame_finished \in BOOLEAN /\ frame_buffer \in Seq(Byte) /\ Len(frame_buffer) \in Nat /\ Len(frame_buffer) <= frame_capacity
      /\ device \in {"po33", "po35"}
  BY <1>1, FramesAssumption DEF FramesTypeOK
<1>5. CASE frame_status' # "ok"
  <2>1. UNCHANGED <<frame_buffer, crc, frame_packets, frame_out_len>>
    BY <1>5 DEF CloseFrame
  <2>2. frame_finished' = frame_finished
    BY <1>4, <1>5 DEF CloseFrame
  <2>3. FramesTypeOK'
    BY <1>1, <1>2, <1>3, <2>1, <2>2 DEF FramesTypeOK
  <2> QED  BY <1>1, <1>2, <2>1, <2>2, <2>3 DEF FramesInv
<1>6. CASE frame_status' = "ok" /\ frame_finished
  <2>1. UNCHANGED <<frame_buffer, crc, frame_packets>>
    BY <1>6 DEF CloseFrame
  <2>2. frame_finished' = frame_finished /\ frame_out_len' = Len(frame_buffer)
    BY <1>4, <1>6, <2>1 DEF CloseFrame
  <2>3. Len(frame_buffer) \in 0..frame_capacity
    BY <1>1, <1>4
  <2>4. FramesTypeOK'
    BY <1>1, <1>2, <1>3, <2>1, <2>2, <2>3 DEF FramesTypeOK
  <2> QED  BY <1>1, <1>2, <1>6, <2>1, <2>2, <2>4 DEF FramesInv
<1>7. CASE frame_status' = "ok" /\ ~frame_finished
  <2>1. frame_buffer # <<>> /\ ~(frame_capacity - Len(frame_buffer) < 5)
    BY <1>7, FrameConstants DEF CloseFrame, IsValid
  <2>2. frame_finished' = TRUE /\ frame_out_len' = Len(frame_buffer')
    BY <1>4, <1>7 DEF CloseFrame
  <2>3. PICK st : Growing(device, frame_buffer, frame_packets, st, crc)
    BY <1>7, <2>1 DEF FramesInv
  <2>4. /\ frame_buffer' \in Seq(Byte) /\ Len(frame_buffer') = Len(frame_buffer) + 5 /\ crc' \in Word
        /\ frame_packets' \in Seq(Entry) /\ \E sts : Complete(device, frame_buffer', frame_packets', sts, crc')
    <3>1. CASE device = "po33"
      <4> DEFINE w == WritePacket(crc, TagEnd, <<>>)
      <4>1. Closing(device, crc) = w
        BY <3>1 DEF Closing
      <4>2. /\ frame_buffer' = frame_buffer \o w.bytes /\ crc' = w.state
            /\ frame_packets' = frame_packets \o <<Placed(TagEnd, <<>>, Len(frame_buffer))>>
        BY <1>7, <3>1, <4>1 DEF CloseFrame, Write
      <4>3. Follows(frame_buffer, frame_packets, TagEnd, <<>>, w, frame_buffer', frame_packets')
        BY <4>2 DEF Follows
      <4>4. Growing("po33", frame_buffer, frame_packets, st, crc)
        BY <2>3, <3>1
      <4> HIDE DEF w
      <4>5. w = WritePacket(crc, TagEnd, <<>>)
        BY DEF w
      <4>6. /\ frame_buffer' \in Seq(Byte) /\ Len(frame_buffer') = Len(frame_buffer) + 5 /\ w.state \in Word
            /\ frame_packets' \in Seq(Entry)
            /\ \E sts : Complete("po33", frame_buffer', frame_packets', sts, w.state)
        BY <1>1, <1>4, <4>3, <4>4, <4>5, EndCompletes
      <4> QED  BY <3>1, <4>2, <4>6
    <3>2. CASE device = "po35"
      <4> DEFINE w == WriteTail(crc)
      <4>1. Closing(device, crc) = w
        BY <3>2 DEF Closing
      <4>2. /\ frame_buffer' = frame_buffer \o w.bytes /\ crc' = w.state /\ frame_packets' = frame_packets \o <<>>
        BY <1>7, <3>2, <4>1 DEF CloseFrame, Write
      <4>3. frame_packets' = frame_packets
        BY <1>1, <4>2
      <4>4. Growing("po35", frame_buffer, frame_packets, st, crc)
        BY <2>3, <3>2
      <4> HIDE DEF w
      <4>5. w = WriteTail(crc)
        BY DEF w
      <4>6. /\ frame_buffer' \in Seq(Byte) /\ Len(frame_buffer') = Len(frame_buffer) + 5 /\ w.state \in Word
            /\ Complete("po35", frame_buffer', frame_packets, st, w.state)
        BY <1>1, <1>4, <4>2, <4>4, <4>5, TailCompletes
      <4> QED  BY <1>1, <3>2, <4>2, <4>3, <4>6
    <3> QED  BY <1>4, <3>1, <3>2
  <2>5. Len(frame_buffer') <= frame_capacity /\ Len(frame_buffer') \in 0..frame_capacity
    BY <1>1, <1>4, <2>1, <2>4
  <2>6. frame_buffer' # <<>>
    BY <1>4, <2>4
  <2>7. FramesTypeOK'
    BY <1>1, <1>2, <1>3, <2>2, <2>4, <2>5 DEF FramesTypeOK
  <2> QED  BY <1>1, <1>2, <2>2, <2>4, <2>6, <2>7 DEF FramesInv
<1> QED  BY <1>3, <1>4, <1>5, <1>6, <1>7

LEMMA FramesStepPreserves ==
  ASSUME FramesInv, [Next]_framesVars
  PROVE  FramesInv'
<1>1. ASSUME NEW for \in Devices, NEW room \in FrameCapacities, OpenFrame(for, room)
      PROVE  FramesInv'
  <2>1. /\ device' = for /\ frame_capacity' = room /\ frame_finished' = FALSE /\ frame_out_len' = 0
        /\ \E o \in {Opened(for, room)} :
             frame_buffer' = o.buffer /\ crc' = o.crc /\ frame_packets' = o.appended /\ frame_status' = o.status
    BY <1>1 DEF OpenFrame
  <2>2. PICK o : /\ o = Opened(for, room)
                 /\ frame_buffer' = o.buffer /\ crc' = o.crc /\ frame_packets' = o.appended
                 /\ frame_status' = o.status
    BY <2>1
  <2>3. o = Opened(device', frame_capacity') /\ device' \in Devices /\ frame_capacity' \in FrameCapacities
    BY <2>1, <2>2
  <2> QED  BY <2>1, <2>2, <2>3, FramesOpenHolds
<1>2. ASSUME NEW p \in FrameInputs, AppendToFrame(p.tag, p.payload) PROVE FramesInv'
  <2>1. p.tag \in Word /\ p.payload \in Seq(Byte)
    BY FramesAssumption
  <2> QED  BY <1>2, <2>1, AppendHolds
<1>3. CASE CloseFrame
  BY <1>3, FinishHolds
<1>4. CASE UNCHANGED framesVars
  BY <1>4 DEF framesVars, FramesInv, FramesTypeOK
<1> QED  BY <1>1, <1>2, <1>3, <1>4 DEF Next

LEMMA CutOfComplete ==
  ASSUME NEW bf \in Seq(Byte), NEW pk \in Seq(Entry), NEW st,
         NEW for, NEW c, Complete(for, bf, pk, st, c),
         NEW F \in Seq(Byte), Shares(F, bf, Len(F)), Len(CounterPreamble) <= Len(F),
         Len(F) < Len(bf)
  PROVE  Reports(ParseAll(for, F), pk, Len(F)) /\ ParseAll(for, F).status = "bad"
<1> DEFINE fin == TRUE
<1>1. Framed(for, bf, pk, st, fin, c)
  BY DEF Complete
<1> HIDE DEF fin
<1>2. ~fin \/ Len(F) < Len(bf)
  OBVIOUS
<1> QED  BY <1>1, <1>2, CutShort

LEMMA CutOfGrowing ==
  ASSUME NEW bf \in Seq(Byte), NEW pk \in Seq(Entry), NEW st,
         NEW for, NEW c, Growing(for, bf, pk, st, c),
         NEW F \in Seq(Byte), Shares(F, bf, Len(F)), Len(CounterPreamble) <= Len(F)
  PROVE  Reports(ParseAll(for, F), pk, Len(F)) /\ ParseAll(for, F).status = "bad"
<1> DEFINE fin == FALSE
<1>1. Framed(for, bf, pk, st, fin, c) /\ ~fin
  BY DEF Growing
<1> HIDE DEF fin
<1>2. ~fin \/ Len(F) < Len(bf)
  BY <1>1
<1> QED  BY <1>1, <1>2, CutShort

(* Only an empty buffer is too short for the counter.                      *)
LEMMA OpenedBuffer ==
  ASSUME FramesInv, frame_buffer # <<>>
  PROVE  /\ frame_finished = TRUE \/ frame_finished = FALSE
         /\ frame_finished = FALSE => \E st : Growing(device, frame_buffer, frame_packets, st, crc)
         /\ frame_finished = TRUE => /\ frame_out_len = Len(frame_buffer)
                               /\ \E st : Complete(device, frame_buffer, frame_packets, st, crc)
<1>1. frame_finished \in BOOLEAN
  BY DEF FramesInv, FramesTypeOK
<1> QED  BY <1>1 DEF FramesInv

LEMMA CutsReadBack ==
  ASSUME FramesInv, NEW n \in Len(CounterPreamble)..Len(frame_buffer)
  PROVE  \E parse \in {Parse(device, SubSeq(frame_buffer, 1, n), -1)} :
           /\ Reports(parse, frame_packets, n)
           /\ parse.status = "done" <=> frame_finished /\ n = Len(frame_buffer)
<1> DEFINE F == SubSeq(frame_buffer, 1, n)
           parse == ParseAll(device, F)
<1>1. /\ frame_buffer \in Seq(Byte) /\ frame_packets \in Seq(Entry) /\ Len(frame_buffer) \in Nat
      /\ Len(CounterPreamble) \in Nat /\ Len(CounterPreamble) >= 4
  BY PreambleType, FramesAssumption DEF FramesInv, FramesTypeOK
<1>2. n \in 0..Len(frame_buffer) /\ n \in Nat /\ Len(CounterPreamble) <= n /\ n <= Len(frame_buffer)
      /\ frame_buffer # <<>>
  BY <1>1
<1>3. F \in Seq(Byte) /\ Len(F) = n /\ Shares(F, frame_buffer, Len(F))
  BY <1>1, <1>2, CutShares
<1>4. parse = Parse(device, SubSeq(frame_buffer, 1, n), -1)
  BY DEF ParseAll
<1> HIDE DEF F
<1>5. Reports(parse, frame_packets, n)
      /\ (frame_finished = TRUE /\ n = Len(frame_buffer) => parse.status = "done")
      /\ (~(frame_finished = TRUE /\ n = Len(frame_buffer)) => parse.status = "bad")
  <2>1. CASE frame_finished = FALSE
    <3>1. PICK st : Growing(device, frame_buffer, frame_packets, st, crc)
      BY <1>2, <2>1, OpenedBuffer
    <3>2. Reports(ParseAll(device, F), frame_packets, Len(F)) /\ ParseAll(device, F).status = "bad"
      BY <1>1, <1>2, <1>3, <3>1, CutOfGrowing
    <3> QED  BY <1>3, <2>1, <3>2
  <2>2. CASE frame_finished = TRUE
    <3>1. PICK st : Complete(device, frame_buffer, frame_packets, st, crc)
      BY <1>2, <2>2, OpenedBuffer
    <3>2. CASE n = Len(frame_buffer)
      <4>1. Len(F) = Len(frame_buffer)
        BY <1>3, <3>2
      <4>2. Reports(ParseAll(device, F), frame_packets, Len(F)) /\ ParseAll(device, F).status = "done"
        BY <1>1, <1>3, <3>1, <4>1, CutNowhere
      <4> QED  BY <1>3, <2>2, <3>2, <4>2
    <3>3. CASE n # Len(frame_buffer)
      <4>1. Len(F) < Len(frame_buffer) /\ Len(CounterPreamble) <= Len(F)
        BY <1>1, <1>2, <1>3, <3>3
      <4>2. Reports(ParseAll(device, F), frame_packets, Len(F)) /\ ParseAll(device, F).status = "bad"
        BY <1>1, <1>3, <3>1, <4>1, CutOfComplete
      <4> QED  BY <1>3, <3>3, <4>2
    <3> QED  BY <3>2, <3>3
  <2> QED  BY <1>2, <2>1, <2>2, OpenedBuffer
<1> HIDE DEF parse
<1>6. frame_finished = TRUE \/ frame_finished = FALSE
  BY <1>2, OpenedBuffer
<1>7. parse.status = "done" <=> frame_finished /\ n = Len(frame_buffer)
  BY <1>5, <1>6
<1> QED  BY <1>4, <1>5, <1>7

(* Where a callback stops a parse of the buffer with more behind it.       *)
LEMMA StopsReadBack ==
  ASSUME FramesInv, NEW more \in Seq(Byte), NEW n \in 1..Len(frame_packets)
  PROVE  \E parse \in {Parse(device, frame_buffer \o more, n)} :
           /\ parse.status = "stopped"
           /\ parse.packets = SubSeq(frame_packets, 1, n)
           /\ n < Len(frame_packets) => parse.pos = frame_packets[n + 1].offset
<1> DEFINE F == frame_buffer \o more
           parse == Parse(device, F, n)
<1>1. frame_buffer \in Seq(Byte) /\ frame_packets \in Seq(Entry)
  BY DEF FramesInv, FramesTypeOK
<1>2. frame_buffer # <<>>
  BY <1>1 DEF FramesInv
<1>3. F \in Seq(Byte) /\ Shares(F, frame_buffer, Len(frame_buffer))
  BY <1>1, ConcatShares
<1> HIDE DEF F
<1>4. PICK st, fin : Framed(device, frame_buffer, frame_packets, st, fin, crc)
  <2>1. CASE frame_finished = FALSE
    <3>1. PICK st : Growing(device, frame_buffer, frame_packets, st, crc)
      BY <1>2, <2>1, OpenedBuffer
    <3> QED  BY <3>1 DEF Growing
  <2>2. CASE frame_finished = TRUE
    <3>1. PICK st : Complete(device, frame_buffer, frame_packets, st, crc)
      BY <1>2, <2>2, OpenedBuffer
    <3> QED  BY <3>1 DEF Complete
  <2> QED  BY <1>2, <2>1, <2>2, OpenedBuffer
<1>5. Parse(device, F, n) = Stand(frame_packets, st, n, "stopped")
  BY <1>1, <1>3, <1>4, StopsAt
<1>6. parse.status = "stopped" /\ parse.packets = Firsts(frame_packets, n) /\ parse.pos = End(frame_packets, n)
  BY <1>5, StandFields
<1>7. ASSUME n < Len(frame_packets) PROVE frame_packets[n + 1].offset = End(frame_packets, n)
  <2> DEFINE k == n + 1
  <2>1. k \in 1..Len(frame_packets) /\ k - 1 = n
    BY <1>1, <1>7
  <2>2. Laid(frame_buffer, frame_packets, st)
    BY <1>4 DEF Framed
  <2> HIDE DEF k
  <2>3. frame_packets[k].offset = End(frame_packets, k - 1)
    BY <1>1, <2>1, <2>2, EndOfNext
  <2> QED  BY <2>1, <2>3 DEF k
<1>8. parse = Parse(device, frame_buffer \o more, n)
  BY DEF F
<1> HIDE DEF parse
<1>9. parse.packets = SubSeq(frame_packets, 1, n)
  BY <1>6 DEF Firsts
<1> QED  BY <1>6, <1>7, <1>8, <1>9

(* What a finished frame with more behind it reports.                      *)
LEMMA FinishedReadsBack ==
  ASSUME FramesInv, frame_finished, NEW more \in Seq(Byte)
  PROVE  \E parse \in {Parse(device, frame_buffer \o more, -1)} :
           parse.status = "done" /\ parse.state = crc
             /\ parse.pos = Len(frame_buffer) /\ frame_out_len = Len(frame_buffer)
<1> DEFINE F == frame_buffer \o more
           parse == ParseAll(device, F)
<1>1. frame_buffer \in Seq(Byte) /\ frame_packets \in Seq(Entry)
  BY DEF FramesInv, FramesTypeOK
<1>2. F \in Seq(Byte) /\ Shares(F, frame_buffer, Len(frame_buffer))
  BY <1>1, ConcatShares
<1>3. parse = Parse(device, frame_buffer \o more, -1)
  BY DEF ParseAll
<1> HIDE DEF F
<1>4. frame_out_len = Len(frame_buffer) /\ \E st : Complete(device, frame_buffer, frame_packets, st, crc)
  BY DEF FramesInv
<1>5. PICK st : Complete(device, frame_buffer, frame_packets, st, crc)
  BY <1>4
<1>6. ParseAll(device, F) = Done(frame_buffer, frame_packets, crc)
  BY <1>1, <1>2, <1>5, FinishesFrame
<1>7. parse.status = "done" /\ parse.state = crc /\ parse.pos = Len(frame_buffer)
  BY <1>6 DEF Done
<1> HIDE DEF parse
<1> QED  BY <1>3, <1>4, <1>7

LEMMA FramesInvGives ==
  ASSUME FramesInv
  PROVE  BracketedReadsBack
<1>1. FramesTypeOK
  BY DEF FramesInv
<1>2. ReadsBackCutAnywhere
  BY CutsReadBack DEF ReadsBackCutAnywhere, Reports
<1>3. StopsWhereAsked
  <2> DEFINE more == <<0, 0, 0, 0, 0, 0>>
  <2>1. more \in Seq(Byte)
    BY ByteIs
  <2> HIDE DEF more
  <2>2. \A n \in 1..Len(frame_packets) :
          \E parse \in {Parse(device, frame_buffer \o more, n)} :
            /\ parse.status = "stopped"
            /\ parse.packets = SubSeq(frame_packets, 1, n)
            /\ n < Len(frame_packets) => parse.pos = frame_packets[n + 1].offset
    BY <2>1, StopsReadBack
  <2> QED  BY <2>2 DEF StopsWhereAsked, more
<1>4. FinalStatesAgree
  <2> SUFFICES ASSUME frame_finished PROVE FinalStatesAgree
    BY DEF FinalStatesAgree
  <2> DEFINE more == <<7>>
  <2>1. more \in Seq(Byte)
    BY ByteIs
  <2> HIDE DEF more
  <2>2. \E parse \in {Parse(device, frame_buffer \o more, -1)} :
          parse.status = "done" /\ parse.state = crc
            /\ parse.pos = Len(frame_buffer) /\ frame_out_len = Len(frame_buffer)
    BY <2>1, FinishedReadsBack
  <2> QED  BY <2>2 DEF FinalStatesAgree, more
<1> QED  BY <1>1, <1>2, <1>3, <1>4 DEF BracketedReadsBack

(* Whatever is appended, to whichever of the two builders over a buffer of *)
(* whatever size, reads back from the frame cut anywhere, packet by packet *)
(* at the offsets it was written at, and a finished frame is done exactly  *)
(* at its end, in the state the builder reports (po33.c, po35.c).          *)
THEOREM FramesReadBack == Spec => []BracketedReadsBack
<1>1. Init => FramesInv
  BY FramesInitHolds
<1>2. FramesInv /\ [Next]_framesVars => FramesInv'
  BY FramesStepPreserves
<1>3. FramesInv => BracketedReadsBack
  BY FramesInvGives
<1> QED  BY <1>1, <1>2, <1>3, PTL DEF Spec

=============================================================================
