------------------------------ MODULE PoFrames ------------------------------
(***************************************************************************)
(* The frame builders and parsers of the PO-33 (src/core/src/po33.c) and   *)
(* the PO-35 (src/core/src/po35.c), byte by byte over the wire layer.      *)
(* Both open with a counter; the PO-33 then writes a BEGIN packet and ends *)
(* with an END packet, the PO-35 ends with the tail, whose tag its builder *)
(* refuses.  builder.length of the code is Len(buffer).                    *)
(***************************************************************************)
EXTENDS POWire, SequencesExt

CONSTANTS CounterBytes,     \* PO_WIRE_COUNTER_BYTES less the four sync bytes: 4092
          Devices,          \* what a builder may be for: "po33", "po35"
          FrameCapacities,  \* the sizes a caller's buffer may have
          FrameInputs       \* the packets a caller may append

ASSUME FramesAssumption ==
  /\ CounterBytes \in Nat
  /\ Devices \subseteq {"po33", "po35"}
  /\ FrameCapacities \subseteq Nat
  /\ FrameInputs \subseteq [tag : Word, payload : Seq(Byte)]

VARIABLES device, frame_capacity, frame_buffer, crc, frame_finished, frame_status,
          frame_out_len,
          frame_packets  \* history: the packets in the buffer, and their offsets

framesVars ==
  <<device, frame_capacity, frame_buffer, crc, frame_finished, frame_status, frame_out_len,
    frame_packets>>

TagBegin     == 39003    \* 0x985B
TagEnd       == 33391    \* 0x826F

CounterPreamble == [i \in 1..CounterBytes |-> (i - 1) % 256] \o <<77, 184, 22, 93>>

Placed(tag, payload, offset) == [tag |-> tag, payload |-> payload, offset |-> offset]

(***************************************************************************)
(* The parser.                                                             *)
(***************************************************************************)
NewParse ==
  [pos |-> Len(CounterPreamble), state |-> InitialState, packets |-> <<>>, status |-> "more"]

Taken(parse, read) ==
  [parse EXCEPT !.packets = Append(@, Placed(read.tag, read.payload, parse.pos)),
                !.pos     = @ + read.len,
                !.state   = read.state]

(* A bracket has no payload, and BEGIN is the first packet and no other.   *)
Misplaced(parse, read) ==
  \/ read.tag \in {TagBegin, TagEnd} /\ read.payload # <<>>
  \/ (parse.packets = <<>>) # (read.tag = TagBegin)

Step35(parse, rest) ==
  LET taken(read) ==
        IF ~read.ok \/ read.tag = TailTag THEN [parse EXCEPT !.status = "bad"]
        ELSE Taken(parse, read)
      ended(tail) ==
        IF tail.ok
        THEN [parse EXCEPT !.pos = @ + TailBytes, !.state = tail.tail.final, !.status = "done"]
        ELSE taken(ReadPacket(parse.state, rest))
  IN  ended(ReadTail(parse.state, rest))

Step33(parse, rest) ==
  LET taken(read) ==
        IF ~read.ok \/ Misplaced(parse, read) THEN [parse EXCEPT !.status = "bad"]
        ELSE [Taken(parse, read) EXCEPT !.status = IF read.tag = TagEnd THEN "done" ELSE "more"]
  IN  taken(ReadPacket(parse.state, rest))

Step(for, parse, rest) == IF for = "po33" THEN Step33(parse, rest) ELSE Step35(parse, rest)

Stopping(parse, stop) ==
  IF parse.status # "bad" /\ Len(parse.packets) = stop
  THEN [parse EXCEPT !.status = "stopped"] ELSE parse

(* The loop.  A callback stops it at the given number of packets, at least *)
(* one; -1 is never.  Every round but the last takes OverheadBytes or more.*)
Round(for, frame, stop, parse) ==
  IF parse.status # "more" THEN parse
  ELSE IF Len(frame) - parse.pos < OverheadBytes THEN [parse EXCEPT !.status = "bad"]
  ELSE Stopping(Step(for, parse, SubSeq(frame, parse.pos + 1, Len(frame))), stop)

LastRound(frame) == (Len(frame) - Len(CounterPreamble)) \div OverheadBytes + 1

Rounds(for, frame, stop) ==
  LET run[n \in 0..LastRound(frame)] ==
        IF n = 0 THEN NewParse ELSE Round(for, frame, stop, run[n-1])
  IN  run

Parse(for, frame, stop) ==
  IF ~IsPrefix(CounterPreamble, frame)
  THEN [NewParse EXCEPT !.pos = 0, !.status = "bad"]
  ELSE Rounds(for, frame, stop)[LastRound(frame)]

(***************************************************************************)
(* The builder.                                                            *)
(***************************************************************************)
Opening(for) == IF for = "po33" THEN WritePacket(InitialState, TagBegin, <<>>)
                ELSE [bytes |-> <<>>, state |-> InitialState]

Closing(for, state) == IF for = "po33" THEN WritePacket(state, TagEnd, <<>>)
                       ELSE WriteTail(state)

Brackets(for) == IF for = "po33" THEN {TagBegin, TagEnd} ELSE {TailTag}

Bytes(for) == Len(CounterPreamble) + Len(Opening(for).bytes)

(* Init over a buffer that is too small leaves a builder that is not valid *)
(* and refuses everything: one with an empty buffer.                       *)
IsValid == frame_buffer # <<>>

Opened(for, room) ==
  IF room < Bytes(for)
  THEN [buffer |-> <<>>, crc |-> 0, appended |-> <<>>, status |-> "buffer_too_small"]
  ELSE [buffer   |-> CounterPreamble \o Opening(for).bytes,
        crc      |-> Opening(for).state,
        appended |-> IF for = "po33"
                     THEN <<Placed(TagBegin, <<>>, Len(CounterPreamble))>> ELSE <<>>,
        status   |-> "ok"]

Init ==
  /\ device \in Devices /\ frame_capacity \in FrameCapacities
  /\ \E opened \in {Opened(device, frame_capacity)} :
       /\ frame_buffer = opened.buffer /\ crc = opened.crc
       /\ frame_packets = opened.appended /\ frame_status = opened.status
  /\ frame_finished = FALSE /\ frame_out_len = 0

OpenFrame(for, room) ==
  /\ device' = for /\ frame_capacity' = room
  /\ \E opened \in {Opened(for, room)} :
       /\ frame_buffer' = opened.buffer /\ crc' = opened.crc
       /\ frame_packets' = opened.appended /\ frame_status' = opened.status
  /\ frame_finished' = FALSE /\ frame_out_len' = 0

(* Mutant: any tag is taken. *)
ObjectionTagBlind(for, tag, len) ==
  IF ~IsValid THEN "invalid_arg"
  ELSE IF frame_finished THEN "frame"
  ELSE IF len > MaxPayload THEN "range"
  ELSE IF frame_capacity - Len(frame_buffer) < len + OverheadBytes THEN "buffer_too_small"
  ELSE "ok"

Objection(for, tag, len) ==
  IF ~IsValid \/ tag \in Brackets(for) THEN "invalid_arg"
  ELSE IF frame_finished THEN "frame"
  ELSE IF len > MaxPayload THEN "range"
  ELSE IF frame_capacity - Len(frame_buffer) < len + OverheadBytes THEN "buffer_too_small"
  ELSE "ok"

Write(written, packets) ==
  /\ frame_buffer' = frame_buffer \o written.bytes
  /\ crc' = written.state
  /\ frame_packets' = frame_packets \o packets

AppendToFrame(tag, payload) ==
  /\ frame_status' = Objection(device, tag, Len(payload))
  /\ IF frame_status' # "ok" THEN UNCHANGED <<frame_buffer, crc, frame_packets>>
     ELSE Write(WritePacket(crc, tag, payload), <<Placed(tag, payload, Len(frame_buffer))>>)
  /\ UNCHANGED <<device, frame_capacity, frame_finished, frame_out_len>>

(* END and the tail have the same length. *)
CloseFrame ==
  /\ frame_status' =
       IF ~IsValid THEN "invalid_arg"
       ELSE IF ~frame_finished /\ frame_capacity - Len(frame_buffer) < OverheadBytes
       THEN "buffer_too_small" ELSE "ok"
  /\ IF frame_status' # "ok" \/ frame_finished THEN UNCHANGED <<frame_buffer, crc, frame_packets>>
     ELSE Write(Closing(device, crc),
                IF device = "po33" THEN <<Placed(TagEnd, <<>>, Len(frame_buffer))>> ELSE <<>>)
  /\ frame_finished' = (frame_finished \/ frame_status' = "ok")
  /\ frame_out_len' = IF frame_status' = "ok" THEN Len(frame_buffer') ELSE frame_out_len
  /\ UNCHANGED <<device, frame_capacity>>

Next ==
  \/ \E for \in Devices, room \in FrameCapacities : OpenFrame(for, room)
  \/ \E p \in FrameInputs : AppendToFrame(p.tag, p.payload)
  \/ CloseFrame

Spec == Init /\ [][Next]_framesVars

-----------------------------------------------------------------------------
(***************************************************************************)
(* Properties.                                                             *)
(***************************************************************************)

(* Bytes are bytes, the state is a word, and nothing is ever written past  *)
(* the caller's buffer: the test made for a packet covers its overhead,    *)
(* and PO-33's init its BEGIN packet.                                      *)
FramesTypeOK ==
  /\ device \in Devices
  /\ frame_buffer \in Seq(Byte) /\ crc \in Word
  /\ Len(frame_buffer) <= frame_capacity
  /\ frame_finished \in BOOLEAN /\ frame_out_len \in 0..frame_capacity
  /\ frame_status \in {"ok", "invalid_arg", "frame", "range", "buffer_too_small"}

(* Whatever was appended reads back, at the offsets that were reported,    *)
(* and is complete only when all of it is there: cut the buffer anywhere,  *)
(* finished or not, and the parser hands over exactly the packets that are *)
(* whole, and reports the frame done only at its full length.              *)
IsWhole(p, n) == p.offset + OverheadBytes + Len(p.payload) <= n

ReadsBackCutAnywhere ==
  \A n \in Len(CounterPreamble)..Len(frame_buffer) :
    \E parse \in {Parse(device, SubSeq(frame_buffer, 1, n), -1)} :
      /\ Len(parse.packets) <= Len(frame_packets)
      /\ parse.packets = SubSeq(frame_packets, 1, Len(parse.packets))
      /\ \A i \in DOMAIN frame_packets : i <= Len(parse.packets) <=> IsWhole(frame_packets[i], n)
      /\ (parse.status = "done") <=> (frame_finished /\ n = Len(frame_buffer))

(* A callback may stop after any packet: it has then seen that many, and   *)
(* the position reported is where a parse would have gone on; bytes that   *)
(* follow a finished frame are not looked at.                              *)
StopsWhereAsked ==
  \A n \in 1..Len(frame_packets) :
    \E parse \in {Parse(device, frame_buffer \o <<0, 0, 0, 0, 0, 0>>, n)} :
      /\ parse.status = "stopped"
      /\ parse.packets = SubSeq(frame_packets, 1, n)
      /\ frame_finished /\ n < Len(frame_packets) => parse.pos = frame_packets[n + 1].offset

(* Builder and parser agree on the state after every finished frame, which *)
(* po33_decode_result_t and po35_decode_result_t report, and on its        *)
(* length, also when a frame is finished twice.                            *)
FinalStatesAgree ==
  frame_finished =>
    \E parse \in {Parse(device, frame_buffer \o <<7>>, -1)} :
      parse.status = "done" /\ parse.state = crc
        /\ parse.pos = Len(frame_buffer) /\ frame_out_len = Len(frame_buffer)

(* A frame of either device reads back wherever it is cut and wherever a   *)
(* callback stops the parser, in bounds, with the state both ends report.  *)
BracketedReadsBack ==
  FramesTypeOK /\ ReadsBackCutAnywhere /\ StopsWhereAsked /\ FinalStatesAgree

=============================================================================
