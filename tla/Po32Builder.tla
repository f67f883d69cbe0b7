---------------------------- MODULE Po32Builder -----------------------------
(***************************************************************************)
(* The PO-32 frame builder of src/core/src/po32.c: po32_builder_t over a   *)
(* buffer the caller owns.  buffer is what has been written, so that       *)
(* Len(buffer) is builder->length; status is what the last call returned   *)
(* and out_len the frame length the last successful finish reported.       *)
(***************************************************************************)
EXTENDS Po32Frame

CONSTANTS Capacities,   \* the sizes a caller's buffer may have
          Inputs        \* the packets a caller may append: [tag, payload]

ASSUME CapacitiesAssumption == Capacities \subseteq Nat
ASSUME InputsAssumption     == Inputs \subseteq [tag : Word, payload : Seq(Byte)]

VARIABLES capacity, buffer, builder_state, finished, status, out_len,
          appended      \* history: the packets taken and the offsets reported

builderVars == <<capacity, buffer, builder_state, finished, status, out_len, appended>>

Status == {"OK", "RANGE", "BUFFER_TOO_SMALL", "FRAME"}

Fresh(room) == IF room < Len(Preamble) THEN <<>> ELSE Preamble

HasPreamble == capacity >= Len(Preamble) /\ Len(buffer) >= Len(Preamble)

BuilderInit ==
  /\ capacity \in Capacities
  /\ buffer = Fresh(capacity) /\ builder_state = InitialState /\ finished = FALSE
  /\ status = "OK" /\ out_len = 0 /\ appended = <<>>

(* po32_builder_init over a new buffer, and over the same one: reset. *)
(* Mutant: the state runs on from the frame before. *)
OpenAgain(room) ==
  /\ capacity' = room
  /\ buffer' = Fresh(room) /\ finished' = FALSE
  /\ appended' = <<>>
  /\ UNCHANGED <<builder_state, status, out_len>>

Open(room) ==
  /\ capacity' = room
  /\ buffer' = Fresh(room) /\ builder_state' = InitialState /\ finished' = FALSE
  /\ appended' = <<>>
  /\ UNCHANGED <<status, out_len>>

ResetBuilder == Open(capacity)

Refuse(why) ==
  /\ status' = why
  /\ UNCHANGED <<capacity, buffer, builder_state, finished, out_len, appended>>

(* What po32_builder_append_packet objects to, in the order it looks. *)
(* Mutant: only the payload is counted. *)
AppendObjectionToPayload(len) ==
  IF ~HasPreamble THEN "BUFFER_TOO_SMALL"
  ELSE IF finished THEN "FRAME"
  ELSE IF len > MaxPayload THEN "RANGE"
  ELSE IF Len(buffer) + len > capacity THEN "BUFFER_TOO_SMALL"
  ELSE "OK"

AppendObjection(len) ==
  IF ~HasPreamble THEN "BUFFER_TOO_SMALL"
  ELSE IF finished THEN "FRAME"
  ELSE IF len > MaxPayload THEN "RANGE"
  ELSE IF Len(buffer) + OverheadBytes + len > capacity THEN "BUFFER_TOO_SMALL"
  ELSE "OK"

(* The tag is not looked at: whatever it is, the packet goes in.  Its      *)
(* offset is the length before it.                                         *)
AppendPacket(tag, payload) ==
  LET objection == AppendObjection(Len(payload))
      written   == WritePacket(builder_state, tag, payload)
  IN  \/ objection # "OK" /\ Refuse(objection)
      \/ /\ objection = "OK"
         /\ buffer' = buffer \o written.bytes
         /\ builder_state' = written.state
         /\ appended' = Append(appended, [tag |-> tag, payload |-> payload,
                                          offset |-> Len(buffer)])
         /\ status' = "OK"
         /\ UNCHANGED <<capacity, finished, out_len>>

FinishAgain ==
  /\ HasPreamble /\ finished
  /\ status' = "OK" /\ out_len' = Len(buffer)
  /\ UNCHANGED <<capacity, buffer, builder_state, finished, appended>>

(* Mutant: the length is reported before the tail is written. *)
FinishFrameEarly ==
  /\ HasPreamble /\ ~finished /\ Len(buffer) + TailBytes <= capacity
  /\ LET written == WriteTail(builder_state)
     IN  /\ buffer' = buffer \o written.bytes
         /\ builder_state' = written.state
         /\ out_len' = Len(buffer)
  /\ finished' = TRUE
  /\ status' = "OK"
  /\ UNCHANGED <<capacity, appended>>

FinishFrame ==
  /\ HasPreamble /\ ~finished /\ Len(buffer) + TailBytes <= capacity
  /\ LET written == WriteTail(builder_state)
     IN  /\ buffer' = buffer \o written.bytes
         /\ builder_state' = written.state
         /\ out_len' = Len(buffer) + TailBytes
  /\ finished' = TRUE
  /\ status' = "OK"
  /\ UNCHANGED <<capacity, appended>>

FinishRefused ==
  /\ ~HasPreamble \/ (~finished /\ Len(buffer) + TailBytes > capacity)
  /\ Refuse("BUFFER_TOO_SMALL")

Finish == FinishAgain \/ FinishFrame \/ FinishRefused

BuilderNext ==
  \/ \E room \in Capacities : Open(room)
  \/ \E pkt \in Inputs : AppendPacket(pkt.tag, pkt.payload)
  \/ Finish

BuilderSpec == BuilderInit /\ [][BuilderNext]_builderVars

-----------------------------------------------------------------------------
(***************************************************************************)
(* Properties.                                                             *)
(***************************************************************************)
BuilderTypeOK ==
  /\ capacity \in Nat
  /\ buffer \in Seq(Byte)
  /\ builder_state \in Word
  /\ finished \in BOOLEAN
  /\ status \in Status
  /\ out_len \in Nat
  /\ appended \in Seq([tag : Word, payload : Seq(Byte), offset : Nat])

(* Nothing is ever written past the caller's buffer: the size tests made   *)
(* before a packet or a tail cover every byte then written ("these writes  *)
(* cannot fail", and the special byte of the tail, which has no test of    *)
(* its own).                                                               *)
BufferFits == Len(buffer) <= capacity

(* The builder takes packets no parser knows, and the tail itself has the  *)
(* shape of a packet: tag 0x71C3 and no payload.  A finished frame reads   *)
(* back, at the offsets reported, as the packets before the first such     *)
(* one, and is accepted when nothing or a tail look-alike comes next.      *)
LooksLikeTail(pkt) == pkt.tag = TailTag /\ pkt.payload = <<>>

ReadablePart ==
  { n \in 0..Len(appended) :
      /\ \A i \in 1..n : IsReadable(appended[i])
      /\ n < Len(appended) => ~IsReadable(appended[n + 1]) }

ReadsBack ==
  finished =>
    LET parsed == ParseFrame(buffer)
    IN  \E n \in ReadablePart :
          /\ parsed.packets = SubSeq(appended, 1, n)
          /\ parsed.status =
               IF n = Len(appended) \/ LooksLikeTail(appended[n + 1]) THEN "ok" ELSE "bad"

=============================================================================
