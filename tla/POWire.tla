------------------------------- MODULE POWire -------------------------------
(***************************************************************************)
(* The byte layer every Pocket Operator frame shares, translated from      *)
(* src/core/src/po_wire_internal.h: a 16-bit running state, bytes whitened *)
(* with its low half, packets closed by the state reached after their      *)
(* payload, and the five-byte tail that ends a PO-32 or PO-35 frame.       *)
(*                                                                         *)
(* Bytes are 0..255 and words 0..65535; the shifts and casts of the C code *)
(* are written as multiplication, \div and % so that SANY, TLC and the     *)
(* provers all read them.  A buffer is a sequence of bytes.  A result that *)
(* is used more than once is handed to a local operator.                   *)
(***************************************************************************)
EXTENDS Integers, Sequences

MaxByte == 255
MaxWord == 65535

Byte == 0..MaxByte
Word == 0..MaxWord

Lo(w) == w % 256
Hi(w) == w \div 256

(* Exclusive or, by nibbles: the table is computed once. *)
XorNibble ==
  [a \in 0..15 |-> [b \in 0..15 |->
      ((a + b) % 2)
    + 2 * (((a \div 2) + (b \div 2)) % 2)
    + 4 * (((a \div 4) + (b \div 4)) % 2)
    + 8 * (((a \div 8) + (b \div 8)) % 2)]]

XorByte(a, b) ==
  LET by(nibble) == 16 * nibble[a \div 16][b \div 16] + nibble[a % 16][b % 16]
  IN  by(XorNibble)

XorWord(a, b) == 256 * XorByte(Hi(a), Hi(b)) + XorByte(Lo(a), Lo(b))

(***************************************************************************)
(* The running state.                                                      *)
(***************************************************************************)
InitialState == 7439    \* 0x1D0F

CrcMix(state, x) ==
  XorWord(XorWord(256 * Lo(state) + x, 4096 * (x % 16)), 32 * x)

CrcUpdate(state, raw) ==
  LET x == XorByte(raw, Hi(state))
  IN  CrcMix(state, XorByte(x, x \div 16))

Whiten(state, raw)     == (raw + Lo(state)) % 256
Unwhiten(state, coded) == (coded - Lo(state)) % 256

(***************************************************************************)
(* Runs of bytes: the loops of po_wire_write_byte and po_wire_read_byte.   *)
(* The states they pass through come first, from the one they start in;    *)
(* then the bytes they produce and the state they end in.                  *)
(***************************************************************************)
StatesWriting(state, raw) ==
  LET run[i \in 0..Len(raw)] == IF i = 0 THEN state ELSE CrcUpdate(run[i-1], raw[i])
  IN  run

StatesReading(state, coded) ==
  LET run[i \in 0..Len(coded)] ==
        IF i = 0 THEN state
        ELSE LET before == run[i-1] IN CrcUpdate(before, Unwhiten(before, coded[i]))
  IN  run

WriteBytes(state, raw) ==
  LET along(run) == [bytes |-> [i \in 1..Len(raw) |-> Whiten(run[i-1], raw[i])],
                     state |-> run[Len(raw)]]
  IN  along(StatesWriting(state, raw))

ReadBytes(state, coded) ==
  LET along(run) == [bytes |-> [i \in 1..Len(coded) |-> Unwhiten(run[i-1], coded[i])],
                     state |-> run[Len(coded)]]
  IN  along(StatesReading(state, coded))

(* What has been written, followed by the state it led to. *)
Closed(written) ==
  LET with(close) == [bytes |-> written.bytes \o close.bytes, state |-> close.state]
  IN  with(WriteBytes(written.state, <<Lo(written.state), Hi(written.state)>>))

(***************************************************************************)
(* Packets: tag (two bytes, low first), payload length, payload, trailer.  *)
(***************************************************************************)
HeaderBytes   == 3
TrailerBytes  == 2
OverheadBytes == HeaderBytes + TrailerBytes
MaxPayload    == 255

WritePacket(state, tag, payload) ==
  Closed(WriteBytes(state, <<Lo(tag), Hi(tag), Len(payload)>> \o payload))

(* The tag and total length a header announces; needs HeaderBytes bytes. *)
PacketHeader(state, coded) ==
  LET of(raw) == [tag |-> raw[1] + 256 * raw[2], len |-> OverheadBytes + raw[3]]
  IN  of(ReadBytes(state, SubSeq(coded, 1, HeaderBytes)).bytes)

(* Mutant: the trailer is read but not compared. *)
ReadPacketUnchecked(state, coded) ==
  LET result(head, body, trailer) ==
        IF /\ Len(coded) >= OverheadBytes /\ head.len <= Len(coded)
        THEN [ok |-> TRUE, tag |-> head.tag,
              payload |-> SubSeq(body.bytes, HeaderBytes + 1, Len(body.bytes)),
              len |-> head.len, state |-> trailer.state]
        ELSE [ok |-> FALSE]
      closed(head, body) ==
        result(head, body,
               ReadBytes(body.state,
                         SubSeq(coded, head.len - TrailerBytes + 1, head.len)))
      opened(head) ==
        closed(head, ReadBytes(state, SubSeq(coded, 1, head.len - TrailerBytes)))
  IN  opened(PacketHeader(state, coded))

(* Mutant: the state handed on is the one before the trailer. *)
ReadPacketShort(state, coded) ==
  LET result(head, body, trailer) ==
        IF /\ Len(coded) >= OverheadBytes /\ head.len <= Len(coded)
           /\ trailer.bytes = <<Lo(body.state), Hi(body.state)>>
        THEN [ok |-> TRUE, tag |-> head.tag,
              payload |-> SubSeq(body.bytes, HeaderBytes + 1, Len(body.bytes)),
              len |-> head.len, state |-> body.state]
        ELSE [ok |-> FALSE]
      closed(head, body) ==
        result(head, body,
               ReadBytes(body.state,
                         SubSeq(coded, head.len - TrailerBytes + 1, head.len)))
      opened(head) ==
        closed(head, ReadBytes(state, SubSeq(coded, 1, head.len - TrailerBytes)))
  IN  opened(PacketHeader(state, coded))

(* The packet at the start of coded, if it is all there and its trailer    *)
(* repeats the state reached before the trailer.                           *)
ReadPacket(state, coded) ==
  LET result(head, body, trailer) ==
        IF /\ Len(coded) >= OverheadBytes /\ head.len <= Len(coded)
           /\ trailer.bytes = <<Lo(body.state), Hi(body.state)>>
        THEN [ok |-> TRUE, tag |-> head.tag,
              payload |-> SubSeq(body.bytes, HeaderBytes + 1, Len(body.bytes)),
              len |-> head.len, state |-> trailer.state]
        ELSE [ok |-> FALSE]
      closed(head, body) ==
        result(head, body,
               ReadBytes(body.state,
                         SubSeq(coded, head.len - TrailerBytes + 1, head.len)))
      opened(head) ==
        closed(head, ReadBytes(state, SubSeq(coded, 1, head.len - TrailerBytes)))
  IN  opened(PacketHeader(state, coded))

(***************************************************************************)
(* The final tail: two marker bytes, one byte equal to the low half of the *)
(* state (written as it is, and mixed in its own way), then the state.     *)
(***************************************************************************)
TailMarker1 == 195      \* 0xc3
TailMarker2 == 113      \* 0x71
TailTag     == TailMarker1 + 256 * TailMarker2
TailBytes   == 5

MixSpecial(state) ==
  CrcMix(state, XorByte((state \div 4096) % 256, (state \div 256) % 256))

WriteTail(state) ==
  LET special(marks) == [bytes |-> Append(marks.bytes, Lo(marks.state)),
                         state |-> MixSpecial(marks.state)]
  IN  Closed(special(WriteBytes(state, <<TailMarker1, TailMarker2>>)))

(* po_final_tail_t keeps every byte and state; the states determine them. *)
ReadTail(state, coded) ==
  LET result(marks, special, close) ==
        IF /\ Len(coded) >= TailBytes
           /\ marks.bytes = <<TailMarker1, TailMarker2>>
           /\ coded[3] = Lo(marks.state)
           /\ close.bytes = <<Lo(special), Hi(special)>>
        THEN [ok |-> TRUE,
              tail |-> [before |-> marks.state, after |-> special, final |-> close.state]]
        ELSE [ok |-> FALSE]
      closed(marks, special) ==
        result(marks, special, ReadBytes(special, SubSeq(coded, 4, TailBytes)))
      marked(marks) == closed(marks, MixSpecial(marks.state))
  IN  marked(ReadBytes(state, SubSeq(coded, 1, 2)))

=============================================================================
