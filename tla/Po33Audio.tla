----------------------------- MODULE Po33Audio -----------------------------
(***************************************************************************)
(* Sounds for a PO-33 from PCM of any rate (src/core/src/po33_audio.c and  *)
(* po_resample_internal.h): how many samples a sound becomes, and which    *)
(* samples of the PCM each of them is made from.                           *)
(*                                                                         *)
(* The clock of the device is no whole number (23437.5 Hz), so rates are   *)
(* counted twice.  What a filter weighs is left out, what it reaches is    *)
(* not.  Rounding of binary64 is left out.                                 *)
(***************************************************************************)
EXTENDS Integers

CONSTANTS Calls,           \* the arguments po33_samples_encode_f32 may be given
          Clock,           \* twice the clock of the device: 46875
          NominalRate,     \* the whole number that stands for it: 23438
          LowRate, HighRate,
          Radius,          \* taps on either side: 8
          WordMax,         \* SIZE_MAX
          FloatBytes       \* sizeof(float)

(* bad: the number of a sample that is no number in -1..1, -1 for none.    *)
ASSUME AudioAssumption ==
  /\ {Clock, NominalRate, LowRate, FloatBytes} \subseteq Nat \ {0}
  /\ {HighRate, Radius, WordMax} \subseteq Nat
  /\ Calls \subseteq [count : Nat, rate : Nat, capacity : Nat, bad : Int]

VARIABLES call,
          stage,       \* "called", "sized", "converting" or "done"
          needed,      \* what po33_sample_count_for_pcm answers; -1 when it refuses
          made,        \* samples written
          heard        \* history: how many samples each of the PCM was weighed for

audioVars == <<call, stage, needed, made, heard>>

InputRate(c) == IF c.rate = NominalRate THEN Clock ELSE 2 * c.rate
Wider(c) == IF InputRate(c) > Clock THEN InputRate(c) ELSE Clock

SampleCount(c) ==
  IF c.rate = NominalRate THEN c.count
  ELSE LET denominator == 2 * c.rate
       IN  (c.count \div denominator) * Clock
             + ((c.count % denominator) * Clock + denominator - 1) \div denominator

SampleCountForPcm(c) ==
  LET result == SampleCount(c) % (WordMax + 1)
  IN  IF c.rate < LowRate \/ c.rate > HighRate \/ c.count > WordMax \div FloatBytes
        \/ result > WordMax \div 2
      THEN -1 ELSE result

(* Mutant: the filter is as wide as it would be at the clock's own rate.   *)
TapsNarrow(c, i) ==
  ((i * InputRate(c) - Radius * Clock) \div Clock + 1)
    .. ((i * InputRate(c) + Radius * Clock) \div Clock)

(* The taps sample i is weighed from, those outside the PCM included.      *)
Taps(c, i) ==
  IF InputRate(c) = Clock THEN {i}
  ELSE ((i * InputRate(c) - Radius * Wider(c)) \div Clock + 1)
         .. ((i * InputRate(c) + Radius * Wider(c)) \div Clock)

(* Nothing is weighed this far from the PCM.                               *)
Beyond(c, i) == i * InputRate(c) >= c.count * Clock + Radius * Wider(c)

Refused(c) == needed = -1 \/ c.capacity < needed \/ c.bad \in 0..(c.count - 1)

-----------------------------------------------------------------------------
Init ==
  /\ call \in Calls /\ stage = "called"
  /\ needed = 0 /\ made = 0
  /\ heard = [k \in 0..(call.count - 1) |-> 0]

Size ==
  /\ stage = "called" /\ stage' = "sized"
  /\ needed' = SampleCountForPcm(call)
  /\ UNCHANGED <<call, made, heard>>

Check ==
  /\ stage = "sized"
  /\ stage' = IF Refused(call) \/ needed = 0 THEN "done" ELSE "converting"
  /\ UNCHANGED <<call, needed, made, heard>>

Convert ==
  /\ stage = "converting"
  /\ heard' = IF Beyond(call, made) THEN heard
              ELSE [k \in DOMAIN heard |-> heard[k] + (IF k \in Taps(call, made) THEN 1 ELSE 0)]
  /\ made' = made + 1
  /\ stage' = IF made + 1 = needed THEN "done" ELSE "converting"
  /\ UNCHANGED <<call, needed>>

Next == Size \/ Check \/ Convert

Spec == Init /\ [][Next]_audioVars

-----------------------------------------------------------------------------
(* The samples a sound becomes are those whose time lies in it, and no sum *)
(* on the way wraps: a smaller answer would cut the sound, and a buffer of *)
(* a wrapped answer would be overrun.                                      *)
SizeIsTheSound ==
  (stage # "called" /\ needed # -1) =>
    /\ call.count * Clock <= needed * InputRate(call)
    /\ needed > 0 => (needed - 1) * InputRate(call) < call.count * Clock

(* A finished conversion has heard every sample of the PCM, and, ends      *)
(* apart, each of them equally often: the filter is 2 * Radius outputs     *)
(* wide going down in rate, as many inputs going up, and the place of an   *)
(* output among the inputs moves that by no more than one.                 *)
Inside(k) ==
  k * Clock >= Radius * Wider(call) /\ k * Clock + Radius * Wider(call) <= needed * InputRate(call)

Width == 2 * Radius * Wider(call)

EverySampleIsHeard ==
  (stage = "done" /\ made > 0) =>
    \A k \in DOMAIN heard :
      /\ heard[k] > 0
      /\ InputRate(call) = Clock => heard[k] = 1
      /\ InputRate(call) # Clock /\ Inside(k) =>
           heard[k] \in (Width \div InputRate(call))..((Width + InputRate(call) - 1) \div InputRate(call))

(* A conversion is whole or writes nothing, and what is no sound is never  *)
(* heard.                                                                  *)
WholeOrNothing ==
  /\ call.bad \in DOMAIN heard => heard[call.bad] = 0
  /\ stage = "done" => made \in {0, needed}
  /\ made <= call.capacity

=============================================================================
