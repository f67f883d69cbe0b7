---------------------------- MODULE Po32Pattern -----------------------------
(***************************************************************************)
(* The PO-32 pattern editor of src/core/src/po32.c: po32_pattern_packet_t  *)
(* and the po32_pattern_* calls that edit it.  A pattern has StepCount     *)
(* steps and LaneCount lanes, a slot for each pair, kept in flat arrays    *)
(* indexed lane by lane; an instrument can only sit in its own lane.       *)
(* accent_bits, one bit per step, is the set of the steps whose bit is up. *)
(***************************************************************************)
EXTENDS Integers

CONSTANTS StepCount,    \* PO32_PATTERN_STEP_COUNT: 16
          LaneCount,    \* PO32_PATTERN_LANE_COUNT: 4
          Numbers,      \* pattern numbers a caller uses
          FillRates     \* fill rates a caller passes, good or bad

ASSUME StepAssumption     == StepCount \in Nat \ {0}
ASSUME LaneAssumption     == LaneCount \in Nat \ {0}
ASSUME NumbersAssumption  == Numbers \subseteq 0..255
ASSUME FillRateAssumption == FillRates \subseteq 0..255

VARIABLES pattern_number, steps, morph_lanes, reserved, accent_bits,
          status        \* what the last call returned

patternVars == <<pattern_number, steps, morph_lanes, reserved, accent_bits, status>>

Steps == 0..(StepCount - 1)
Lanes == 0..(LaneCount - 1)
Slots == 0..(LaneCount * StepCount - 1)

MaxFill       == 15
MaxInstrument == 4 * LaneCount      \* 16

NoTrigger    == [instrument |-> 0, fill_rate |-> 0, accent |-> 0]
NoMorph      == [flag |-> 0, morph |-> 0]
DefaultMorph == [flag |-> 128, morph |-> 1]

SlotIndex(step, lane) == lane * StepCount + step

IsInstrument(i) == 1 <= i /\ i <= MaxInstrument
TriggerLane(i)  == (i - 1) % LaneCount

ZeroReserved == [i \in 1..StepCount |-> 0]

PatternInit ==
  /\ pattern_number \in Numbers
  /\ steps = [s \in Slots |-> NoTrigger]
  /\ morph_lanes = [s \in Slots |-> NoMorph]
  /\ reserved = ZeroReserved /\ accent_bits = {}
  /\ status = "OK"

OutOfRange ==
  /\ status' = "RANGE"
  /\ UNCHANGED <<pattern_number, steps, morph_lanes, reserved, accent_bits>>

(* po32_pattern_init on a pattern in use, and po32_pattern_clear, which    *)
(* keeps the number.                                                       *)
Blank(number) ==
  /\ pattern_number' = number
  /\ steps' = [s \in Slots |-> NoTrigger]
  /\ morph_lanes' = [s \in Slots |-> NoMorph]
  /\ reserved' = ZeroReserved /\ accent_bits' = {}
  /\ UNCHANGED status

Clear == Blank(pattern_number)

SetTriggerIsValid(step, instrument, fill) ==
  step \in Steps /\ fill \in 1..MaxFill /\ IsInstrument(instrument)

(* The slot takes the accent of its step and the default morph pair, also  *)
(* when it already held another instrument of the lane.                    *)
SetTrigger(step, instrument, fill) ==
  LET slot == SlotIndex(step, TriggerLane(instrument))
  IN  /\ SetTriggerIsValid(step, instrument, fill)
      /\ steps' = [steps EXCEPT ![slot] =
                     [instrument |-> instrument, fill_rate |-> fill,
                      accent |-> IF step \in accent_bits THEN 1 ELSE 0]]
      /\ morph_lanes' = [morph_lanes EXCEPT ![slot] = DefaultMorph]
      /\ status' = "OK"
      /\ UNCHANGED <<pattern_number, reserved, accent_bits>>

SetTriggerRefused(step, instrument, fill) ==
  ~SetTriggerIsValid(step, instrument, fill) /\ OutOfRange

StepHasTrigger(contents, step) ==
  \E lane \in Lanes : contents[SlotIndex(step, lane)].instrument # 0

(* Mutant: whether any trigger is left is asked before the slot is cleared. *)
ClearTriggerLate(step, lane) ==
  LET slot == SlotIndex(step, lane)
  IN  /\ step \in Steps /\ lane \in Lanes
      /\ steps' = [steps EXCEPT ![slot] = NoTrigger]
      /\ morph_lanes' = [morph_lanes EXCEPT ![slot] = NoMorph]
      /\ accent_bits' = IF StepHasTrigger(steps, step) THEN accent_bits
                        ELSE accent_bits \ {step}
      /\ status' = "OK"
      /\ UNCHANGED <<pattern_number, reserved>>

(* Clearing the last trigger of a step takes its accent away. *)
ClearTrigger(step, lane) ==
  LET slot == SlotIndex(step, lane)
  IN  /\ step \in Steps /\ lane \in Lanes
      /\ steps' = [steps EXCEPT ![slot] = NoTrigger]
      /\ morph_lanes' = [morph_lanes EXCEPT ![slot] = NoMorph]
      /\ accent_bits' = IF StepHasTrigger(steps', step) THEN accent_bits
                        ELSE accent_bits \ {step}
      /\ status' = "OK"
      /\ UNCHANGED <<pattern_number, reserved>>

ClearTriggerRefused(step, lane) ==
  ~(step \in Steps /\ lane \in Lanes) /\ OutOfRange

SlotsOf(step) == { SlotIndex(step, lane) : lane \in Lanes }

ClearStep(step) ==
  /\ step \in Steps
  /\ steps' = [s \in Slots |-> IF s \in SlotsOf(step) THEN NoTrigger ELSE steps[s]]
  /\ morph_lanes' = [s \in Slots |-> IF s \in SlotsOf(step) THEN NoMorph ELSE morph_lanes[s]]
  /\ accent_bits' = accent_bits \ {step}
  /\ status' = "OK"
  /\ UNCHANGED <<pattern_number, reserved>>

ClearStepRefused(step) == step \notin Steps /\ OutOfRange

(* Mutant: the mask changes, the slots do not. *)
SetAccentMask(step, enabled) ==
  /\ step \in Steps
  /\ accent_bits' = IF enabled THEN accent_bits \cup {step} ELSE accent_bits \ {step}
  /\ status' = "OK"
  /\ UNCHANGED <<pattern_number, steps, morph_lanes, reserved>>

(* Every active slot of the step follows; inactive ones stay all zero. *)
SetAccent(step, enabled) ==
  /\ step \in Steps
  /\ accent_bits' = IF enabled THEN accent_bits \cup {step} ELSE accent_bits \ {step}
  /\ steps' = [s \in Slots |->
                 IF s \in SlotsOf(step) /\ steps[s].instrument # 0
                 THEN [steps[s] EXCEPT !.accent = IF enabled THEN 1 ELSE 0]
                 ELSE steps[s]]
  /\ status' = "OK"
  /\ UNCHANGED <<pattern_number, morph_lanes, reserved>>

SetAccentRefused(step) == step \notin Steps /\ OutOfRange

(* Arguments run one past every limit. *)
EditTrigger ==
  \E step \in 0..StepCount, instrument \in 0..(MaxInstrument + 1), fill \in FillRates :
    SetTrigger(step, instrument, fill) \/ SetTriggerRefused(step, instrument, fill)

EditClear ==
  \E step \in 0..StepCount :
    \/ \E lane \in 0..LaneCount : ClearTrigger(step, lane) \/ ClearTriggerRefused(step, lane)
    \/ ClearStep(step) \/ ClearStepRefused(step)

EditAccent ==
  \E step \in 0..StepCount :
    \/ \E enabled \in BOOLEAN : SetAccent(step, enabled)
    \/ SetAccentRefused(step)

PatternNext ==
  \/ \E number \in Numbers : Blank(number)
  \/ Clear \/ EditTrigger \/ EditClear \/ EditAccent

PatternSpec == PatternInit /\ [][PatternNext]_patternVars

-----------------------------------------------------------------------------
(***************************************************************************)
(* Properties.                                                             *)
(***************************************************************************)
Step  == [instrument : 0..MaxInstrument, fill_rate : 0..MaxFill, accent : {0, 1}]
Morph == [flag : 0..255, morph : 0..255]

PatternTypeOK ==
  /\ pattern_number \in 0..255
  /\ steps \in [Slots -> Step]
  /\ morph_lanes \in [Slots -> Morph]
  /\ reserved \in [1..StepCount -> 0..255]
  /\ accent_bits \subseteq Steps
  /\ status \in {"OK", "RANGE"}

(* An active slot holds an instrument of its own lane and a fill rate, so  *)
(* that encoding a pattern never fails and loses nothing; an empty slot    *)
(* is empty in every field.                                                *)
SlotIsSound(step, lane) ==
  LET slot == steps[SlotIndex(step, lane)]
  IN  \/ slot = NoTrigger
      \/ /\ IsInstrument(slot.instrument) /\ TriggerLane(slot.instrument) = lane
         /\ slot.fill_rate \in 1..MaxFill

SlotsAreSound == \A step \in Steps, lane \in Lanes : SlotIsSound(step, lane)

(* docs/api/PO32.md: the editing helpers "keep steps[], morph_lanes[], and *)
(* accent_bits in sync".  However they are interleaved, an active slot has *)
(* the accent its step's bit says, and only active slots have a morph pair.*)
InSync ==
  \A step \in Steps, lane \in Lanes :
    LET slot == SlotIndex(step, lane)
    IN  IF steps[slot].instrument # 0
        THEN steps[slot].accent = (IF step \in accent_bits THEN 1 ELSE 0)
        ELSE morph_lanes[slot] = NoMorph

(* A step that loses its last trigger loses its accent with it: a trigger  *)
(* placed there later starts unaccented.                                   *)
NoGhostAccent ==
  [][\A step \in Steps :
       StepHasTrigger(steps, step) /\ ~StepHasTrigger(steps', step) =>
         step \notin accent_bits']_patternVars

=============================================================================
