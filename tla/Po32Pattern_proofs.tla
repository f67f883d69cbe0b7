------------------------- MODULE Po32Pattern_proofs -------------------------
(***************************************************************************)
(* Proofs about the pattern editor, for every number of steps and lanes.   *)
(***************************************************************************)
EXTENDS Po32Pattern, TLAPS

(* po32_pattern_slot_index stays inside the arrays. *)
LEMMA SlotIndexInRange ==
  \A step \in Steps, lane \in Lanes : SlotIndex(step, lane) \in Slots
<1> SUFFICES ASSUME NEW step \in Steps, NEW lane \in Lanes
             PROVE  SlotIndex(step, lane) \in Slots
  OBVIOUS
<1>0. StepCount \in Nat \ {0} /\ LaneCount \in Nat \ {0} /\ step \in Int /\ lane \in Int
  BY StepAssumption, LaneAssumption DEF Steps, Lanes
<1>1. lane * StepCount \in Int /\ LaneCount * StepCount \in Int /\ lane * StepCount >= 0
  BY <1>0 DEF Lanes
<1>2. (lane + 1) * StepCount <= LaneCount * StepCount
  BY <1>0 DEF Lanes
<1>3. (lane + 1) * StepCount = lane * StepCount + StepCount
  BY <1>0
<1> QED  BY <1>0, <1>1, <1>2, <1>3 DEF Slots, Steps, SlotIndex

(* Two slots of the flat arrays are the same only for one step and lane. *)
LEMMA SlotIndexInjective ==
  ASSUME NEW s1 \in Steps, NEW l1 \in Lanes, NEW s2 \in Steps, NEW l2 \in Lanes,
         SlotIndex(s1, l1) = SlotIndex(s2, l2)
  PROVE  s1 = s2 /\ l1 = l2
<1>0. StepCount \in Nat \ {0} /\ LaneCount \in Nat \ {0}
      /\ s1 \in Int /\ s2 \in Int /\ l1 \in Int /\ l2 \in Int
  BY StepAssumption, LaneAssumption DEF Steps, Lanes
<1>1. l1 * StepCount + s1 = l2 * StepCount + s2
  BY DEF SlotIndex
<1>2. ~(l1 < l2)
  <2> SUFFICES ASSUME l1 < l2 PROVE FALSE
    OBVIOUS
  <2>1. (l1 + 1) * StepCount <= l2 * StepCount
    BY <1>0
  <2>2. (l1 + 1) * StepCount = l1 * StepCount + StepCount
    BY <1>0
  <2> QED  BY <1>0, <1>1, <2>1, <2>2 DEF Steps
<1>3. ~(l2 < l1)
  <2> SUFFICES ASSUME l2 < l1 PROVE FALSE
    OBVIOUS
  <2>1. (l2 + 1) * StepCount <= l1 * StepCount
    BY <1>0
  <2>2. (l2 + 1) * StepCount = l2 * StepCount + StepCount
    BY <1>0
  <2> QED  BY <1>0, <1>1, <2>1, <2>2 DEF Steps
<1>4. l1 = l2
  BY <1>0, <1>2, <1>3
<1> QED  BY <1>0, <1>1, <1>4

(* An instrument has a lane. *)
LEMMA TriggerLaneInRange ==
  ASSUME NEW i \in Int
  PROVE  TriggerLane(i) \in Lanes
  BY LaneAssumption DEF TriggerLane, Lanes

-----------------------------------------------------------------------------
(* The inductive invariant: the three parts need each other.  SetAccent    *)
(* tells an active slot from an empty one by its instrument, which is only *)
(* right when empty slots are empty in every field.                        *)
EditorInv == PatternTypeOK /\ SlotsAreSound /\ InSync

LEMMA BlankValuesAreTyped ==
  /\ NoTrigger \in Step
  /\ NoMorph \in Morph
  /\ ZeroReserved \in [1..StepCount -> 0..255]
  BY LaneAssumption
  DEF NoTrigger, Step, MaxInstrument, MaxFill, NoMorph, Morph, ZeroReserved

LEMMA EditorInit ==
  PatternInit => EditorInv
<1> SUFFICES ASSUME PatternInit PROVE EditorInv
  OBVIOUS
<1>1. PatternTypeOK
  BY NumbersAssumption, BlankValuesAreTyped DEF PatternInit, PatternTypeOK
<1>2. SlotsAreSound
  BY SlotIndexInRange DEF PatternInit, SlotsAreSound, SlotIsSound
<1>3. InSync
  BY SlotIndexInRange DEF PatternInit, InSync, NoTrigger
<1> QED  BY <1>1, <1>2, <1>3 DEF EditorInv

LEMMA BlankKeepsInv ==
  ASSUME EditorInv, NEW number \in 0..255, Blank(number)
  PROVE  EditorInv'
<1>1. PatternTypeOK'
  BY BlankValuesAreTyped DEF EditorInv, Blank, PatternTypeOK
<1>2. SlotsAreSound'
  BY SlotIndexInRange DEF Blank, SlotsAreSound, SlotIsSound
<1>3. InSync'
  BY SlotIndexInRange DEF Blank, InSync, NoTrigger
<1> QED  BY <1>1, <1>2, <1>3 DEF EditorInv

LEMMA SetTriggerKeepsInv ==
  ASSUME EditorInv, NEW step, NEW instrument \in Int, NEW fill,
         SetTrigger(step, instrument, fill)
  PROVE  EditorInv'
<1> DEFINE lane == TriggerLane(instrument)
           slot == SlotIndex(step, lane)
           set  == [instrument |-> instrument, fill_rate |-> fill,
                    accent |-> IF step \in accent_bits THEN 1 ELSE 0]
<1>0. /\ step \in Steps /\ fill \in 1..MaxFill /\ IsInstrument(instrument)
      /\ lane \in Lanes /\ slot \in Slots
  BY TriggerLaneInRange, SlotIndexInRange DEF SetTrigger, SetTriggerIsValid
<1>1. /\ steps' = [steps EXCEPT ![slot] = set]
      /\ morph_lanes' = [morph_lanes EXCEPT ![slot] = DefaultMorph]
      /\ accent_bits' = accent_bits
  BY DEF SetTrigger
<1>2. set \in Step
  BY <1>0, LaneAssumption DEF Step, IsInstrument, MaxInstrument, MaxFill
<1>3. PatternTypeOK'
  <2>1. DefaultMorph \in Morph
    BY DEF DefaultMorph, Morph
  <2> QED  BY <1>0, <1>1, <1>2, <2>1 DEF EditorInv, PatternTypeOK, SetTrigger
<1>4. ASSUME NEW s \in Steps, NEW l \in Lanes
      PROVE  \/ s = step /\ l = lane /\ SlotIndex(s, l) = slot
                /\ steps'[SlotIndex(s, l)] = set
             \/ SlotIndex(s, l) \in Slots
                /\ steps'[SlotIndex(s, l)] = steps[SlotIndex(s, l)]
                /\ morph_lanes'[SlotIndex(s, l)] = morph_lanes[SlotIndex(s, l)]
  <2>1. SlotIndex(s, l) \in Slots
    BY SlotIndexInRange
  <2>2. CASE SlotIndex(s, l) = slot
    <3>1. s = step /\ l = lane
      BY <1>0, <2>2, SlotIndexInjective
    <3> QED  BY <1>0, <1>1, <2>2, <3>1 DEF EditorInv, PatternTypeOK
  <2>3. CASE SlotIndex(s, l) # slot
    BY <1>1, <2>1, <2>3 DEF EditorInv, PatternTypeOK
  <2> QED  BY <2>2, <2>3
<1>5. SlotsAreSound'
  <2> SUFFICES ASSUME NEW s \in Steps, NEW l \in Lanes PROVE SlotIsSound(s, l)'
    BY DEF SlotsAreSound
  <2>1. SlotIsSound(s, l)
    BY DEF EditorInv, SlotsAreSound
  <2>2. CASE s = step /\ l = lane /\ steps'[SlotIndex(s, l)] = set
    BY <1>0, <2>2 DEF SlotIsSound
  <2>3. CASE steps'[SlotIndex(s, l)] = steps[SlotIndex(s, l)]
    BY <2>1, <2>3 DEF SlotIsSound
  <2> QED  BY <1>4, <2>2, <2>3
<1>6. InSync'
  <2> SUFFICES ASSUME NEW s \in Steps, NEW l \in Lanes
               PROVE  LET at == SlotIndex(s, l)
                      IN  IF steps'[at].instrument # 0
                          THEN steps'[at].accent = (IF s \in accent_bits' THEN 1 ELSE 0)
                          ELSE morph_lanes'[at] = NoMorph
    BY DEF InSync
  <2>1. CASE s = step /\ steps'[SlotIndex(s, l)] = set
    BY <1>0, <1>1, <2>1 DEF IsInstrument
  <2>2. CASE /\ steps'[SlotIndex(s, l)] = steps[SlotIndex(s, l)]
             /\ morph_lanes'[SlotIndex(s, l)] = morph_lanes[SlotIndex(s, l)]
    BY <1>1, <2>2 DEF EditorInv, InSync
  <2> QED  BY <1>4, <2>1, <2>2
<1> QED  BY <1>3, <1>5, <1>6 DEF EditorInv

LEMMA ClearTriggerKeepsInv ==
  ASSUME EditorInv, NEW step, NEW lane, ClearTrigger(step, lane)
  PROVE  EditorInv'
<1> DEFINE slot == SlotIndex(step, lane)
<1>0. step \in Steps /\ lane \in Lanes /\ slot \in Slots
  BY SlotIndexInRange DEF ClearTrigger
<1>1. /\ steps' = [steps EXCEPT ![slot] = NoTrigger]
      /\ morph_lanes' = [morph_lanes EXCEPT ![slot] = NoMorph]
      /\ accent_bits' \in {accent_bits, accent_bits \ {step}}
      /\ ~StepHasTrigger(steps', step) \/ accent_bits' = accent_bits
  BY DEF ClearTrigger
<1>2. PatternTypeOK'
  BY <1>0, <1>1, BlankValuesAreTyped DEF EditorInv, PatternTypeOK, ClearTrigger
<1>3. ASSUME NEW s \in Steps, NEW l \in Lanes
      PROVE  \/ /\ steps'[SlotIndex(s, l)] = NoTrigger
                /\ morph_lanes'[SlotIndex(s, l)] = NoMorph
             \/ /\ steps'[SlotIndex(s, l)] = steps[SlotIndex(s, l)]
                /\ morph_lanes'[SlotIndex(s, l)] = morph_lanes[SlotIndex(s, l)]
  BY <1>0, <1>1, SlotIndexInRange DEF EditorInv, PatternTypeOK
<1>4. SlotsAreSound'
  <2> SUFFICES ASSUME NEW s \in Steps, NEW l \in Lanes PROVE SlotIsSound(s, l)'
    BY DEF SlotsAreSound
  <2>1. SlotIsSound(s, l)
    BY DEF EditorInv, SlotsAreSound
  <2> QED  BY <1>3, <2>1 DEF SlotIsSound
<1>5. InSync'
  <2> SUFFICES ASSUME NEW s \in Steps, NEW l \in Lanes
               PROVE  LET at == SlotIndex(s, l)
                      IN  IF steps'[at].instrument # 0
                          THEN steps'[at].accent = (IF s \in accent_bits' THEN 1 ELSE 0)
                          ELSE morph_lanes'[at] = NoMorph
    BY DEF InSync
  <2>1. CASE /\ steps'[SlotIndex(s, l)] = NoTrigger
             /\ morph_lanes'[SlotIndex(s, l)] = NoMorph
    BY <2>1 DEF NoTrigger
  <2>2. CASE /\ steps'[SlotIndex(s, l)] = steps[SlotIndex(s, l)]
             /\ morph_lanes'[SlotIndex(s, l)] = morph_lanes[SlotIndex(s, l)]
    <3>1. steps'[SlotIndex(s, l)].instrument # 0 => (s \in accent_bits' <=> s \in accent_bits)
      BY <1>1 DEF StepHasTrigger
    <3> QED  BY <2>2, <3>1 DEF EditorInv, InSync
  <2> QED  BY <1>3, <2>1, <2>2
<1> QED  BY <1>2, <1>4, <1>5 DEF EditorInv

(* A slot belongs to the slots of one step only. *)
LEMMA SlotsOfAreSeparate ==
  ASSUME NEW step \in Steps, NEW s \in Steps, NEW l \in Lanes
  PROVE  SlotIndex(s, l) \in SlotsOf(step) <=> s = step
  BY SlotIndexInjective DEF SlotsOf

LEMMA ClearStepKeepsInv ==
  ASSUME EditorInv, NEW step, ClearStep(step)
  PROVE  EditorInv'
<1>0. step \in Steps
  BY DEF ClearStep
<1>1. /\ steps' = [s \in Slots |-> IF s \in SlotsOf(step) THEN NoTrigger ELSE steps[s]]
      /\ morph_lanes' =
           [s \in Slots |-> IF s \in SlotsOf(step) THEN NoMorph ELSE morph_lanes[s]]
      /\ accent_bits' = accent_bits \ {step}
  BY DEF ClearStep
<1>2. PatternTypeOK'
  BY <1>1, BlankValuesAreTyped DEF EditorInv, PatternTypeOK, ClearStep
<1>3. ASSUME NEW s \in Steps, NEW l \in Lanes
      PROVE  \/ /\ s = step
                /\ steps'[SlotIndex(s, l)] = NoTrigger
                /\ morph_lanes'[SlotIndex(s, l)] = NoMorph
             \/ /\ s # step
                /\ steps'[SlotIndex(s, l)] = steps[SlotIndex(s, l)]
                /\ morph_lanes'[SlotIndex(s, l)] = morph_lanes[SlotIndex(s, l)]
  BY <1>0, <1>1, SlotIndexInRange, SlotsOfAreSeparate
<1>4. SlotsAreSound'
  <2> SUFFICES ASSUME NEW s \in Steps, NEW l \in Lanes PROVE SlotIsSound(s, l)'
    BY DEF SlotsAreSound
  <2>1. SlotIsSound(s, l)
    BY DEF EditorInv, SlotsAreSound
  <2> QED  BY <1>3, <2>1 DEF SlotIsSound
<1>5. InSync'
  <2> SUFFICES ASSUME NEW s \in Steps, NEW l \in Lanes
               PROVE  LET at == SlotIndex(s, l)
                      IN  IF steps'[at].instrument # 0
                          THEN steps'[at].accent = (IF s \in accent_bits' THEN 1 ELSE 0)
                          ELSE morph_lanes'[at] = NoMorph
    BY DEF InSync
  <2>1. CASE /\ steps'[SlotIndex(s, l)] = NoTrigger
             /\ morph_lanes'[SlotIndex(s, l)] = NoMorph
    BY <2>1 DEF NoTrigger
  <2>2. CASE /\ s # step
             /\ steps'[SlotIndex(s, l)] = steps[SlotIndex(s, l)]
             /\ morph_lanes'[SlotIndex(s, l)] = morph_lanes[SlotIndex(s, l)]
    BY <1>1, <2>2 DEF EditorInv, InSync
  <2> QED  BY <1>3, <2>1, <2>2
<1> QED  BY <1>2, <1>4, <1>5 DEF EditorInv

LEMMA SetAccentKeepsInv ==
  ASSUME EditorInv, NEW step, NEW enabled \in BOOLEAN, SetAccent(step, enabled)
  PROVE  EditorInv'
<1> DEFINE bit == IF enabled THEN 1 ELSE 0
<1>0. step \in Steps
  BY DEF SetAccent
<1>1. /\ steps' = [s \in Slots |-> IF s \in SlotsOf(step) /\ steps[s].instrument # 0
                                   THEN [steps[s] EXCEPT !.accent = bit] ELSE steps[s]]
      /\ morph_lanes' = morph_lanes
      /\ accent_bits' = IF enabled THEN accent_bits \cup {step} ELSE accent_bits \ {step}
  BY DEF SetAccent
<1>2. PatternTypeOK'
  <2>1. ASSUME NEW s \in Slots PROVE [steps[s] EXCEPT !.accent = bit] \in Step
    BY DEF EditorInv, PatternTypeOK, Step
  <2>2. steps' \in [Slots -> Step]
    BY <1>1, <2>1 DEF EditorInv, PatternTypeOK
  <2> QED  BY <1>0, <1>1, <2>2 DEF EditorInv, PatternTypeOK, SetAccent
<1>3. ASSUME NEW s \in Steps, NEW l \in Lanes
      PROVE  LET at == SlotIndex(s, l)
             IN  \/ /\ s = step /\ steps[at].instrument # 0
                    /\ steps'[at] = [steps[at] EXCEPT !.accent = bit]
                 \/ /\ s # step \/ steps[at].instrument = 0
                    /\ steps'[at] = steps[at]
  BY <1>0, <1>1, SlotIndexInRange, SlotsOfAreSeparate
<1>4. ASSUME NEW s \in Steps, NEW l \in Lanes
      PROVE  LET at == SlotIndex(s, l)
             IN  /\ steps'[at].instrument = steps[at].instrument
                 /\ steps'[at].fill_rate = steps[at].fill_rate
                 /\ steps[at].instrument = 0 => steps'[at] = steps[at]
                 /\ s # step => steps'[at].accent = steps[at].accent
                 /\ s = step /\ steps[at].instrument # 0 => steps'[at].accent = bit
  <2>1. steps[SlotIndex(s, l)] \in Step
    BY SlotIndexInRange DEF EditorInv, PatternTypeOK
  <2> QED  BY <1>3, <2>1 DEF Step
<1>5. SlotsAreSound'
  <2> SUFFICES ASSUME NEW s \in Steps, NEW l \in Lanes PROVE SlotIsSound(s, l)'
    BY DEF SlotsAreSound
  <2>1. SlotIsSound(s, l)
    BY DEF EditorInv, SlotsAreSound
  <2> QED  BY <1>4, <2>1 DEF SlotIsSound, NoTrigger
<1>6. InSync'
  <2> SUFFICES ASSUME NEW s \in Steps, NEW l \in Lanes
               PROVE  LET at == SlotIndex(s, l)
                      IN  IF steps'[at].instrument # 0
                          THEN steps'[at].accent = (IF s \in accent_bits' THEN 1 ELSE 0)
                          ELSE morph_lanes'[at] = NoMorph
    BY DEF InSync
  <2>1. CASE s = step
    <3>1. bit = IF s \in accent_bits' THEN 1 ELSE 0
      BY <1>1, <2>1
    <3>2. CASE steps[SlotIndex(s, l)].instrument # 0
      BY <1>4, <2>1, <3>1, <3>2
    <3>3. CASE steps[SlotIndex(s, l)].instrument = 0
      BY <1>1, <1>4, <3>3 DEF EditorInv, InSync
    <3> QED  BY <3>2, <3>3
  <2>2. CASE s # step
    BY <1>1, <1>4, <2>2, ZenonT(30) DEF EditorInv, InSync
  <2> QED  BY <2>1, <2>2
<1> QED  BY <1>2, <1>5, <1>6 DEF EditorInv

(* A call refused for its range, and a step that changes nothing.          *)
LEMMA NothingChangesKeepsInv ==
  ASSUME EditorInv, status' \in {"OK", "RANGE"},
         UNCHANGED <<pattern_number, steps, morph_lanes, reserved, accent_bits>>
  PROVE  EditorInv'
  BY DEF EditorInv, PatternTypeOK, SlotsAreSound, SlotIsSound, InSync

LEMMA EditorStep ==
  EditorInv /\ [PatternNext]_patternVars => EditorInv'
<1> SUFFICES ASSUME EditorInv, [PatternNext]_patternVars PROVE EditorInv'
  OBVIOUS
<1>1. ASSUME NEW number \in Numbers, Blank(number) PROVE EditorInv'
  BY <1>1, NumbersAssumption, BlankKeepsInv
<1>2. CASE Clear
  BY <1>2, BlankKeepsInv DEF Clear, EditorInv, PatternTypeOK
<1>3. ASSUME OutOfRange PROVE EditorInv'
  BY <1>3, NothingChangesKeepsInv DEF OutOfRange
<1>4. CASE EditTrigger
  <2>1. PICK step \in 0..StepCount, instrument \in 0..(MaxInstrument + 1), fill \in FillRates :
          SetTrigger(step, instrument, fill) \/ SetTriggerRefused(step, instrument, fill)
    BY <1>4 DEF EditTrigger
  <2>2. instrument \in Int
    BY LaneAssumption DEF MaxInstrument
  <2> QED  BY <1>3, <2>1, <2>2, SetTriggerKeepsInv DEF SetTriggerRefused
<1>5. CASE EditClear
  BY <1>3, <1>5, ClearTriggerKeepsInv, ClearStepKeepsInv
  DEF EditClear, ClearTriggerRefused, ClearStepRefused
<1>6. CASE EditAccent
  BY <1>3, <1>6, SetAccentKeepsInv DEF EditAccent, SetAccentRefused
<1>7. CASE UNCHANGED patternVars
  BY <1>7, NothingChangesKeepsInv DEF patternVars, EditorInv, PatternTypeOK
<1> QED  BY <1>1, <1>2, <1>4, <1>5, <1>6, <1>7 DEF PatternNext

(* Whatever sequence of edits the po32_pattern_* calls are given, every    *)
(* field keeps its type, every active slot holds an instrument of its own  *)
(* lane, and the three arrays stay in sync.                                *)
THEOREM EditorInvariant ==
  PatternSpec => []EditorInv
<1>1. PatternInit => EditorInv
  BY EditorInit
<1>2. EditorInv /\ [PatternNext]_patternVars => EditorInv'
  BY EditorStep
<1> QED  BY <1>1, <1>2, PTL DEF PatternSpec

THEOREM EditorTypeCorrect == PatternSpec => []PatternTypeOK
<1>1. EditorInv => PatternTypeOK
  BY DEF EditorInv
<1> QED  BY <1>1, EditorInvariant, PTL

THEOREM EditorKeepsSlotsSound == PatternSpec => []SlotsAreSound
<1>1. EditorInv => SlotsAreSound
  BY DEF EditorInv
<1> QED  BY <1>1, EditorInvariant, PTL

THEOREM EditorKeepsInSync == PatternSpec => []InSync
<1>1. EditorInv => InSync
  BY DEF EditorInv
<1> QED  BY <1>1, EditorInvariant, PTL

(* No edit leaves an accent behind on a step whose last trigger it took.   *)
THEOREM EditorLeavesNoGhostAccent == PatternSpec => NoGhostAccent
<1> DEFINE Gone(step) == StepHasTrigger(steps, step) /\ ~StepHasTrigger(steps', step)
<1>1. ASSUME EditorInv, [PatternNext]_patternVars, NEW step \in Steps, Gone(step)
      PROVE  step \notin accent_bits'
  <2>1. PICK lane \in Lanes : /\ steps[SlotIndex(step, lane)].instrument # 0
                              /\ steps'[SlotIndex(step, lane)].instrument = 0
    BY <1>1 DEF StepHasTrigger
  <2> DEFINE at == SlotIndex(step, lane)
  <2>2. at \in Slots /\ steps \in [Slots -> Step]
    BY <1>1, SlotIndexInRange DEF EditorInv, PatternTypeOK
  <2>3. steps' # steps
    BY <2>1
  <2>4. CASE \E number \in Numbers : Blank(number)
    BY <2>4 DEF Blank
  <2>5. CASE Clear
    BY <2>5 DEF Clear, Blank
  <2>6. CASE EditTrigger
    <3>1. PICK s \in 0..StepCount, instrument \in 0..(MaxInstrument + 1), fill \in FillRates :
            SetTrigger(s, instrument, fill)
      BY <2>3, <2>6 DEF EditTrigger, SetTriggerRefused, OutOfRange
    <3>2. IsInstrument(instrument)
      BY <3>1 DEF SetTrigger, SetTriggerIsValid
    <3>3. steps'[at].instrument \in {instrument, steps[at].instrument}
      BY <2>2, <3>1 DEF SetTrigger
    <3> QED  BY <2>1, <3>2, <3>3 DEF IsInstrument
  <2>7. CASE EditClear
    <3>1. PICK s \in 0..StepCount :
            \/ \E l \in 0..LaneCount : ClearTrigger(s, l)
            \/ ClearStep(s)
      BY <2>3, <2>7
      DEF EditClear, ClearTriggerRefused, ClearStepRefused, OutOfRange
    <3>2. CASE ClearStep(s)
      <4>1. s \in Steps /\ at \in SlotsOf(s)
        BY <2>1, <2>2, <3>2 DEF ClearStep
      <4> QED  BY <3>2, <4>1, SlotsOfAreSeparate DEF ClearStep
    <3>3. ASSUME NEW l \in 0..LaneCount, ClearTrigger(s, l)
          PROVE  step \notin accent_bits'
      <4>1. s \in Steps /\ l \in Lanes /\ at = SlotIndex(s, l)
        BY <2>1, <2>2, <3>3 DEF ClearTrigger
      <4>2. s = step
        BY <4>1, SlotIndexInjective
      <4>3. ~StepHasTrigger(steps', s)
        BY <1>1, <4>2
      <4> QED  BY <3>3, <4>2, <4>3 DEF ClearTrigger
    <3> QED  BY <3>1, <3>2, <3>3
  <2>8. CASE EditAccent
    <3>1. PICK s \in 0..StepCount, enabled \in BOOLEAN : SetAccent(s, enabled)
      BY <2>3, <2>8 DEF EditAccent, SetAccentRefused, OutOfRange
    <3>2. steps[at] \in Step
      BY <2>2
    <3>3. steps'[at] = steps[at]
          \/ \E bit \in {0, 1} : steps'[at] = [steps[at] EXCEPT !.accent = bit]
      BY <2>2, <3>1 DEF SetAccent
    <3>4. steps'[at].instrument = steps[at].instrument
      BY <3>2, <3>3 DEF Step
    <3> QED  BY <2>1, <3>4
  <2>9. CASE UNCHANGED patternVars
    BY <2>3, <2>9 DEF patternVars
  <2> QED  BY <1>1, <2>4, <2>5, <2>6, <2>7, <2>8, <2>9 DEF PatternNext
<1>2. EditorInv /\ [PatternNext]_patternVars =>
        [\A step \in Steps : Gone(step) => step \notin accent_bits']_patternVars
  BY <1>1
<1> QED  BY <1>2, EditorInvariant, PTL DEF PatternSpec, NoGhostAccent

=============================================================================
