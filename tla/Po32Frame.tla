----------------------------- MODULE Po32Frame ------------------------------
(***************************************************************************)
(* The PO-32 frame format of src/core/src/po32.c: which tags exist and how *)
(* long their payloads may be, the preamble, and po32_frame_parse, the     *)
(* parser that reads a whole frame from memory.                            *)
(***************************************************************************)
EXTENDS POWire

CONSTANT Preamble       \* the bytes po32_preamble_bytes() returns

ASSUME PreambleAssumption == Preamble \in Seq(Byte)

(***************************************************************************)
(* The tag table.                                                          *)
(***************************************************************************)
TagPatch       == 14258    \* 0x37B2
TagReset       == 19124    \* 0x4AB4
TagPattern     == 53282    \* 0xD022
TagErase       == 47250    \* 0xB892
TagState       == 20570    \* 0x505A
TagKnob        == 41812    \* 0xA354
TagPatternSlot == 18799    \* 0x496F

TagSpecs ==
  { [tag |-> TagPatch,       min |->  43, max |->  43],
    [tag |-> TagPattern,     min |-> 211, max |-> 211],
    [tag |-> TagState,       min |->  35, max |->  70],
    [tag |-> TagKnob,        min |->   2, max |->   2],
    [tag |-> TagReset,       min |->   1, max |->   1],
    [tag |-> TagErase,       min |->   1, max |->   1],
    [tag |-> TagPatternSlot, min |->   1, max |->   1] }

PayloadLenIsValid(tag, len) ==
  \E spec \in TagSpecs : spec.tag = tag /\ spec.min <= len /\ len <= spec.max

IsReadable(pkt) == PayloadLenIsValid(pkt.tag, Len(pkt.payload))

MaxPacketBytes == OverheadBytes + 211

(***************************************************************************)
(* Decoding one packet.                                                    *)
(***************************************************************************)
HeaderIsKnown(state, coded) ==
  LET known(head) == PayloadLenIsValid(head.tag, head.len - OverheadBytes)
  IN  known(PacketHeader(state, coded))

DecodePacket(state, coded) ==
  IF Len(coded) >= OverheadBytes /\ HeaderIsKnown(state, coded)
  THEN ReadPacket(state, coded)
  ELSE [ok |-> FALSE]

(***************************************************************************)
(* po32_frame_parse over the bytes that follow the preamble.  ParseStep is *)
(* one turn of its loop: the tail is tried first, then a packet.  Running  *)
(* out of bytes and meeting a malformed packet both end with "bad".        *)
(***************************************************************************)
ParseStep(body, p) ==
  LET turn(tail, pkt) ==
        IF p.status # "more" THEN p
        ELSE IF p.pos >= Len(body) THEN [p EXCEPT !.status = "bad"]
        ELSE IF tail.ok THEN [p EXCEPT !.status = "ok", !.tail = tail.tail]
        ELSE IF pkt.ok
        THEN [p EXCEPT !.pos = @ + pkt.len, !.state = pkt.state,
                       !.packets = Append(@, [tag     |-> pkt.tag,
                                              payload |-> pkt.payload,
                                              offset  |-> Len(Preamble) + p.pos])]
        ELSE [p EXCEPT !.status = "bad"]
      at(rest) == turn(ReadTail(p.state, rest), DecodePacket(p.state, rest))
  IN  at(SubSeq(body, p.pos + 1, Len(body)))

NoTail == [before |-> 0, after |-> 0, final |-> 0]

ParseStart == [pos |-> 0, state |-> InitialState, packets |-> <<>>,
               tail |-> NoTail, status |-> "more"]

(* Where the loop stands after each of its turns. *)
ParseTurns(body) ==
  LET run[k \in 0..(Len(body) + 1)] ==
        IF k = 0 THEN ParseStart ELSE ParseStep(body, run[k-1])
  IN  run

(* Every packet is at least OverheadBytes long, which bounds the turns. *)
ParseBody(body) == ParseTurns(body)[(Len(body) \div OverheadBytes) + 1]

ParseFrame(frame) ==
  IF /\ Len(frame) >= Len(Preamble) + TailBytes
     /\ SubSeq(frame, 1, Len(Preamble)) = Preamble
  THEN ParseBody(SubSeq(frame, Len(Preamble) + 1, Len(frame)))
  ELSE [status |-> "bad", packets |-> <<>>, tail |-> NoTail]

(***************************************************************************)
(* The body the builder writes for a list of packets: what a transmitter   *)
(* sends after the preamble.                                               *)
(***************************************************************************)
(* The bytes of the first packets, as many as the argument says, and the   *)
(* state after them.                                                       *)
Encoding(packets) ==
  LET then(before, w) == [bytes |-> before.bytes \o w.bytes, state |-> w.state]
      step(before, pkt) == then(before, WritePacket(before.state, pkt.tag, pkt.payload))
      run[k \in 0..Len(packets)] ==
        IF k = 0 THEN [bytes |-> <<>>, state |-> InitialState]
        ELSE step(run[k-1], packets[k])
  IN  run

EncodeBody(packets) ==
  LET closed(all) == all.bytes \o WriteTail(all.state).bytes
  IN  closed(Encoding(packets)[Len(packets)])

=============================================================================
