---------------------------- MODULE Po32Packets -----------------------------
(***************************************************************************)
(* The typed packets of src/core/src/po32.c other than patterns: patch,    *)
(* knob, reset and state, decoded from the payload of a packet the parser  *)
(* let through, changed field by field, and encoded again.  A parameter of *)
(* a patch is a real in [0, 1] of which 16 bits are sent; here it is the   *)
(* integer nearest to its 65535-fold, which may lie outside.               *)
(***************************************************************************)
EXTENDS Po32Frame, SequencesExt

CONSTANTS ParamCount,    \* PO32_PARAM_COUNT: 21
          PairCount,     \* PO32_STATE_MORPH_PAIR_COUNT: 16
          StepCount,     \* PO32_PATTERN_STEP_COUNT: 16
          Arrivals,      \* [tag, payload]: packets that may arrive
          Instruments, Params, Bytes, Chains,  \* what a caller sets fields to
          MaxEdits       \* bound: fields set after a packet arrived

PacketsAssumption ==
  /\ ParamCount \in Nat \ {0} /\ PairCount \in Nat \ {0} /\ StepCount \in Nat
  /\ \A arrival \in Arrivals :
       PayloadLenIsValid(arrival.tag, Len(arrival.payload)) /\ arrival.payload \in Seq(Byte)
  /\ Instruments \subseteq 1..16 /\ Params \subseteq Int /\ Bytes \subseteq Byte
  /\ Chains \subseteq Seq(Byte) /\ MaxEdits \in Nat

VARIABLES tag, received, packet, status,
          payload,       \* what the packet was encoded as last
          edits          \* counter behind MaxEdits

packetsVars == <<tag, received, packet, status, payload, edits>>

PatchBytes == 1 + 2 * ParamCount
StateMin   == 2 * PairCount + 3
Pair       == [flag : Byte, morph : Byte]

Refused(as) == [status |-> as]
Given(value) == [status |-> "ok", value |-> value]

Low(byte)  == byte % 16
High(byte) == byte \div 16

(***************************************************************************)
(* Encoders.  A command byte ORs a prefix to the instrument from zero.     *)
(***************************************************************************)
Command(prefix, instrument) == 16 * prefix + instrument - 1

Clamped(value) == IF value < 0 THEN 0 ELSE IF value > 65535 THEN 65535 ELSE value

Word16(value) == <<value % 256, value \div 256>>

(* The parameters alone, as po32_encode_patch gives them.                  *)
EncodePatch(params) == FlattenSeq([i \in 1..ParamCount |-> Word16(Clamped(params[i]))])

PatchEncode(pkt) ==
  Given(<<Command(IF pkt.side = "left" THEN 1 ELSE 2, pkt.instrument)>> \o EncodePatch(pkt.params))

KnobEncode(pkt) ==
  Given(<<Command(IF pkt.kind = "pitch" THEN 0 ELSE 1, pkt.instrument), pkt.value>>)

ResetEncode(pkt) == Given(<<Command(3, pkt.instrument)>>)

(* Mutant: every number the packet has room for is sent. *)
StateEncodeRoom(pkt) ==
  IF Len(pkt.pattern_numbers) > StepCount THEN Refused("range")
  ELSE Given(FlattenSeq([i \in 1..PairCount |-> <<pkt.morph_pairs[i].flag, pkt.morph_pairs[i].morph>>])
             \o <<pkt.tempo, pkt.swing_times_12, Len(pkt.pattern_numbers)>>
             \o pkt.pattern_numbers \o [i \in 1..StepCount - Len(pkt.pattern_numbers) |-> 0])

StateEncode(pkt) ==
  IF Len(pkt.pattern_numbers) > StepCount THEN Refused("range")
  ELSE Given(FlattenSeq([i \in 1..PairCount |-> <<pkt.morph_pairs[i].flag, pkt.morph_pairs[i].morph>>])
             \o <<pkt.tempo, pkt.swing_times_12, Len(pkt.pattern_numbers)>>
             \o pkt.pattern_numbers)

Encode(as, pkt) ==
  CASE as = TagPatch -> PatchEncode(pkt)
    [] as = TagKnob  -> KnobEncode(pkt)
    [] as = TagReset -> ResetEncode(pkt)
    [] as = TagState -> StateEncode(pkt)
    [] OTHER         -> Refused("invalid_arg")

(***************************************************************************)
(* Decoders.                                                               *)
(***************************************************************************)
(* The parameters of a block that begins with them, for po32_decode_patch. *)
DecodePatch(block) == [i \in 1..ParamCount |-> block[2 * i - 1] + 256 * block[2 * i]]

PatchDecode(data) ==
  IF Len(data) < PatchBytes \/ High(data[1]) \notin {1, 2} THEN Refused("frame")
  ELSE Given([instrument |-> Low(data[1]) + 1,
              side       |-> IF High(data[1]) = 1 THEN "left" ELSE "right",
              params     |-> DecodePatch(SubSeq(data, 2, PatchBytes))])

(* Of the high nibble a knob looks at one bit and a reset at none.         *)
KnobDecode(data) ==
  IF Len(data) < 2 THEN Refused("frame")
  ELSE Given([instrument |-> Low(data[1]) + 1, value |-> data[2],
              kind |-> IF High(data[1]) % 2 = 1 THEN "morph" ELSE "pitch"])

ResetDecode(data) ==
  IF Len(data) < 1 THEN Refused("frame") ELSE Given([instrument |-> Low(data[1]) + 1])

(* A chain longer than the packet has room for, or than the payload, is    *)
(* refused; what follows the chain is not looked at.                       *)
StateDecode(data) ==
  LET count == data[StateMin]
  IN  IF Len(data) < StateMin THEN Refused("frame")
      ELSE IF count > StepCount \/ Len(data) < StateMin + count THEN Refused("frame")
      ELSE Given([morph_pairs     |-> [i \in 1..PairCount |->
                                         [flag |-> data[2 * i - 1], morph |-> data[2 * i]]],
                  tempo           |-> data[2 * PairCount + 1],
                  swing_times_12  |-> data[2 * PairCount + 2],
                  pattern_numbers |-> SubSeq(data, StateMin + 1, StateMin + count)])

Decode(as, data) ==
  CASE as = TagPatch -> PatchDecode(data)
    [] as = TagKnob  -> KnobDecode(data)
    [] as = TagReset -> ResetDecode(data)
    [] as = TagState -> StateDecode(data)
    [] OTHER         -> Refused("invalid_arg")

(***************************************************************************)
(* A caller: it takes a packet, sets fields of it and encodes it again; a  *)
(* packet that was refused is dropped.                                     *)
(***************************************************************************)
NoPacket == [instrument |-> 0]

Init ==
  /\ \E arrival \in Arrivals : tag = arrival.tag /\ received = arrival.payload
  /\ \E decoded \in {Decode(tag, received)} :
       /\ status = decoded.status
       /\ packet = IF decoded.status = "ok" THEN decoded.value ELSE NoPacket
  /\ payload = <<>> /\ edits = 0

FieldEdits(pkt) == IF pkt = NoPacket THEN {} ELSE
  (IF tag = TagState
   THEN [name : {"tempo", "swing_times_12"}, to : Bytes] \cup [name : {"pattern_numbers"}, to : Chains]
        \cup [name : {"morph_pairs"},
              to : {[pkt.morph_pairs EXCEPT ![i].morph = byte] : i \in 1..PairCount, byte \in Bytes}]
   ELSE [name : {"instrument"}, to : Instruments])
  \cup (IF tag = TagKnob
        THEN [name : {"kind"}, to : {"pitch", "morph"}] \cup [name : {"value"}, to : Bytes] ELSE {})
  \cup (IF tag = TagPatch
        THEN [name : {"side"}, to : {"left", "right"}]
             \cup [name : {"params"},
                   to : {[pkt.params EXCEPT ![i] = param] : i \in 1..ParamCount, param \in Params}]
        ELSE {})

SetField(edit) ==
  /\ edits < MaxEdits
  /\ packet' = [packet EXCEPT ![edit.name] = edit.to]
  /\ edits' = edits + 1
  /\ UNCHANGED <<tag, received, status, payload>>

Send ==
  /\ packet # NoPacket
  /\ \E encoded \in {Encode(tag, packet)} :
       /\ status' = encoded.status
       /\ payload' = IF encoded.status = "ok" THEN encoded.value ELSE payload
  /\ UNCHANGED <<tag, received, packet, edits>>

Next ==
  \/ \E edit \in FieldEdits(packet) : SetField(edit)
  \/ Send

Spec == Init /\ [][Next]_packetsVars

(***************************************************************************)
(* Properties.                                                             *)
(***************************************************************************)
Sound(pkt) ==
  LET nearest(value) == IF value \in 0..65535 THEN value ELSE IF value > 0 THEN 65535 ELSE 0
  IN  IF tag = TagPatch THEN [pkt EXCEPT !.params = [i \in 1..ParamCount |-> nearest(@[i])]] ELSE pkt

(* Whatever a caller makes of a packet in its documented ranges, what is   *)
(* encoded is a payload of bytes the parser lets through for the tag, and  *)
(* gives the packet back, parameters clamped; only a chain that is too     *)
(* long is refused.                                                        *)
RoundTrip ==
  packet # NoPacket =>
    LET encoded == Encode(tag, packet)
    IN  IF encoded.status = "ok"
        THEN /\ encoded.value \in Seq(Byte)
             /\ PayloadLenIsValid(tag, Len(encoded.value))
             /\ Decode(tag, encoded.value) = Given(Sound(packet))
        ELSE tag = TagState /\ Len(packet.pattern_numbers) > StepCount

(* A packet that nobody edited is sent as it came, but for the bits of a   *)
(* command byte that a knob and a reset do not look at and the bytes after *)
(* a chain.                                                                *)
SentAsItCame ==
  payload # <<>> /\ edits = 0 =>
    /\ Len(payload) <= Len(received)
    /\ \A i \in 1..Len(payload) :
         \/ payload[i] = received[i]
         \/ i = 1 /\ tag \in {TagKnob, TagReset} /\ Low(payload[1]) = Low(received[1])
    /\ Len(payload) < Len(received) => tag = TagState
=============================================================================
