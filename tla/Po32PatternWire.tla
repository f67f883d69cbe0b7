-------------------------- MODULE Po32PatternWire ---------------------------
(***************************************************************************)
(* The pattern codec of src/core/src/po32.c around the pattern editor:     *)
(* po32_pattern_packet_encode lays a pattern out as the payload of a       *)
(* PO32_TAG_PATTERN packet, po32_pattern_packet_decode reads one back, and *)
(* a decoded pattern is then edited like any other.                        *)
(*                                                                         *)
(* A payload is a sequence of LaneCount * 3 * StepCount + StepCount + 3    *)
(* bytes (211 on the device): the number; per lane its triggers and then   *)
(* its morph pairs; a reserved byte per step; the accent mask, low byte    *)
(* first.                                                                  *)
(***************************************************************************)
EXTENDS Po32Pattern, SequencesExt

CONSTANT Payloads       \* pattern payloads that may arrive

PayloadBytes == 3 * LaneCount * StepCount + StepCount + 3

PayloadsAssumption == Payloads \subseteq [1..PayloadBytes -> 0..255]

(***************************************************************************)
(* One trigger byte.                                                       *)
(***************************************************************************)
(* Mutant: the first bank bit is up for every bank but the first. *)
TriggerEncodeBanks(slot) ==
  LET zero_based == slot.instrument - 1
  IN  slot.fill_rate
      + 128 * slot.accent
      + (IF zero_based >= LaneCount THEN 16 ELSE 0)
      + (IF zero_based >= 2 * LaneCount THEN 32 ELSE 0)

TriggerEncode(slot) ==
  LET zero_based == slot.instrument - 1
  IN  slot.fill_rate
      + 128 * slot.accent
      + (IF zero_based % (2 * LaneCount) >= LaneCount THEN 16 ELSE 0)
      + (IF zero_based >= 2 * LaneCount THEN 32 ELSE 0)

TriggerCanEncode(slot) == IsInstrument(slot.instrument) /\ slot.fill_rate \in 1..MaxFill

Flag(byte, weight) == (byte \div weight) % 2

(* A byte with bit 6 up is refused and one with a zero rate is inactive;   *)
(* the packet decoder makes an empty slot of either.                       *)
TriggerDecode(lane, byte) ==
  IF Flag(byte, 64) = 1 \/ byte % 16 = 0
  THEN NoTrigger
  ELSE [instrument |-> lane + 1 + LaneCount * Flag(byte, 16) + 2 * LaneCount * Flag(byte, 32),
        fill_rate  |-> byte % 16,
        accent     |-> Flag(byte, 128)]

(* The lossless view of a trigger byte.                                    *)
ControlDecode(raw) ==
  [fill_rate_raw |-> raw % 16, instrument_group_raw |-> (raw \div 16) % 4,
   unknown_bit_raw |-> (raw \div 64) % 2, accent |-> raw \div 128]

ControlEncode(value) ==
  value.fill_rate_raw + 16 * value.instrument_group_raw
  + 64 * value.unknown_bit_raw + 128 * value.accent

(***************************************************************************)
(* The payload.                                                            *)
(***************************************************************************)
Mask(bits) == FoldSet(LAMBDA step, sum : sum + 2 ^ step, 0, bits)

LaneBlock(lane) ==
  [i \in 1..StepCount |->
     LET slot == steps[SlotIndex(i - 1, lane)]
     IN  IF slot.instrument = 0 THEN 0 ELSE TriggerEncode(slot)]
  \o FlattenSeq([i \in 1..StepCount |->
     LET pair == morph_lanes[SlotIndex(i - 1, lane)] IN <<pair.flag, pair.morph>>])

Encodable ==
  \A slot \in Slots : steps[slot].instrument = 0 \/ TriggerCanEncode(steps[slot])

Encode ==
  <<pattern_number>>
  \o FlattenSeq([l \in 1..LaneCount |-> LaneBlock(l - 1)])
  \o reserved
  \o <<Mask(accent_bits) % 256, Mask(accent_bits) \div 256>>

(* Where a lane's block begins, its positions counted from 0 as in C.      *)
BlockStart(lane) == 1 + lane * 3 * StepCount

LaneOf(slot) == slot \div StepCount
StepOf(slot) == slot % StepCount

DecodedSteps(data) ==
  [slot \in Slots |->
     TriggerDecode(LaneOf(slot), data[BlockStart(LaneOf(slot)) + StepOf(slot) + 1])]

DecodedMorphs(data) ==
  [slot \in Slots |->
     LET at == BlockStart(LaneOf(slot)) + StepCount + 2 * StepOf(slot) + 1
     IN  [flag |-> data[at], morph |-> data[at + 1]]]

ReservedStart == 1 + 3 * LaneCount * StepCount

DecodedReserved(data) == SubSeq(data, ReservedStart + 1, ReservedStart + StepCount)

DecodedAccents(data) ==
  LET mask == data[ReservedStart + StepCount + 1] + 256 * data[ReservedStart + StepCount + 2]
  IN  { step \in Steps : Flag(mask, 2 ^ step) = 1 }

Load(data) ==
  /\ pattern_number' = data[1]
  /\ steps' = DecodedSteps(data)
  /\ morph_lanes' = DecodedMorphs(data)
  /\ reserved' = DecodedReserved(data)
  /\ accent_bits' = DecodedAccents(data)
  /\ status' = "OK"

WireNext == PatternNext \/ \E data \in Payloads : Load(data)

WireSpec == PatternInit /\ [][WireNext]_patternVars

-----------------------------------------------------------------------------
(***************************************************************************)
(* Properties.                                                             *)
(***************************************************************************)

(* Whatever was loaded and however it was edited, the pattern encodes, to  *)
(* a payload of the one length the parser takes, and decoding that payload *)
(* gives the pattern back: every field of every slot, the reserved bytes   *)
(* and the mask.                                                           *)
RoundTrip ==
  /\ Encodable
  /\ Len(Encode) = PayloadBytes
  /\ Encode[1] = pattern_number
  /\ DecodedSteps(Encode) = steps
  /\ DecodedMorphs(Encode) = morph_lanes
  /\ DecodedReserved(Encode) = reserved
  /\ DecodedAccents(Encode) = accent_bits

(* The two views of a trigger agree: the byte the encoder writes for a     *)
(* slot shows, as a control, the fill rate, the accent and the group that  *)
(* with the lane gives the instrument ("instrument = lane + 1 + 4*group",  *)
(* po32.h), and is the byte that control encodes to.                       *)
ControlsShowTriggers ==
  \A slot \in Slots : steps[slot].instrument # 0 =>
    LET raw     == TriggerEncode(steps[slot])
        control == ControlDecode(raw)
    IN  /\ steps[slot] = [instrument |-> LaneOf(slot) + 1 + LaneCount * control.instrument_group_raw,
                          fill_rate |-> control.fill_rate_raw, accent |-> control.accent]
        /\ control.unknown_bit_raw = 0 /\ ControlEncode(control) = raw

=============================================================================
