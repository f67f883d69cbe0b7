---------------------------- MODULE Po35Analysis ----------------------------
(***************************************************************************)
(* Speech records from PCM (src/core/src/po35_analysis.c): how many        *)
(* records a sound becomes, and the stretch of the sound, brought to the   *)
(* analyser's rate, that each record is made from.                         *)
(*                                                                         *)
(* The analysis itself is left out: what is kept is which samples of a     *)
(* fixed window each of its parts reads.  The rates and the window are     *)
(* those of the code.                                                      *)
(***************************************************************************)
EXTENDS Integers

CONSTANTS Calls,           \* the arguments po35_analysis_encode_f32 may be given
          MaxRecords       \* the records a speech may have: 65535

(* bad: the number of a sample that is no number in -1..1, -1 for none;    *)
(* capacity counts records.                                                *)
AnalysisAssumption ==
  /\ MaxRecords \in Nat
  /\ Calls \subseteq [count : Nat, rate : Nat, fps : Nat, capacity : Nat, bad : Int]

VARIABLES call,
          stage,       \* "called", "sized", "framing", "done"
          required,    \* what po35_analysis_size_for_pcm answers; -1 when it refuses
          frame,       \* records written
          reached      \* history: the end of the last record, in samples

analysisVars == <<call, stage, required, frame, reached>>

Native == 24000            \* the analyser's rate
Window == 1672             \* samples of the sound a record is made from
Before == 1072             \* of them, those before the centre of the record

-----------------------------------------------------------------------------
SizeForPcm(c) ==
  LET n == (c.count \div c.rate) * c.fps + ((c.count % c.rate) * c.fps + c.rate - 1) \div c.rate
  IN  IF c.rate \notin 8000..192000 \/ c.fps \notin {20, 40, 60, 80}
        \/ c.count \div c.rate > MaxRecords \div c.fps \/ n > MaxRecords
      THEN -1 ELSE n

Start(c, f) == (f * Native) \div c.fps
End(c, f) == ((f + 1) * Native) \div c.fps

(* Mutant: a record is centred on its first sample.                        *)
CenterFirst(c, f) == Start(c, f)

Center(c, f) == (Start(c, f) + End(c, f)) \div 2

(* What the loudness of a record is measured over, as places of the window.*)
Loudness(c, f) == (Start(c, f) + Before - Center(c, f)) .. (End(c, f) - 1 + Before - Center(c, f))

(* The two banks: 1024 samples, and 512 that 49 taps make of every third.  *)
HighBank == 372..(372 + 1023)
LowBank == { 3 * i + k : i \in {0, 511}, k \in {0, 48} }

Refused(c) ==
  required = -1 \/ c.capacity < required \/ c.bad \in 0..(c.count - 1)

-----------------------------------------------------------------------------
Init ==
  /\ call \in Calls /\ stage = "called"
  /\ required = 0 /\ frame = 0 /\ reached = 0

Size ==
  /\ stage = "called" /\ stage' = "sized"
  /\ required' = SizeForPcm(call)
  /\ UNCHANGED <<call, frame, reached>>

Check ==
  /\ stage = "sized"
  /\ stage' = IF Refused(call) \/ required = 0 THEN "done" ELSE "framing"
  /\ UNCHANGED <<call, required, frame, reached>>

Frame ==
  /\ stage = "framing"
  /\ reached' = End(call, frame)
  /\ frame' = frame + 1
  /\ stage' = IF frame + 1 = required THEN "done" ELSE "framing"
  /\ UNCHANGED <<call, required>>

Next == Size \/ Check \/ Frame

Spec == Init /\ [][Next]_analysisVars

-----------------------------------------------------------------------------
(* Every record reads within the window, at the slowest record rate as at  *)
(* the fastest, and begins where the one before it ended: no sample is     *)
(* read from the workspace of another record, none is skipped.             *)
RecordsFitTheWindow ==
  stage = "framing" =>
    /\ Loudness(call, frame) \subseteq 0..(Window - 1)
    /\ HighBank \cup LowBank \subseteq 0..(Window - 1)
    /\ Start(call, frame) = reached

(* Time a, in samples at rate r, is before time b, in samples at rate q;   *)
(* both rates are multiples of 25.                                         *)
IsBefore(a, r, b, q) ==
  \/ a \div r < b \div q
  \/ a \div r = b \div q /\ (a % r) * (q \div 25) < (b % q) * (r \div 25)

(* The records of a sound last as long as it does, and each of them begins *)
(* in it: none is missing and none is made of silence alone.               *)
RecordsSpanTheSound ==
  /\ (stage = "framing") => IsBefore(Start(call, frame), Native, call.count, call.rate)
  /\ (stage = "done" /\ frame > 0) => ~IsBefore(reached, Native, call.count, call.rate)

(* Sounds are refused for their length only when their records would be    *)
(* too many, and a conversion is whole or writes nothing.                  *)
WholeOrNothing ==
  /\ stage = "done" => frame \in {0, required}
  /\ frame <= call.capacity /\ frame <= MaxRecords
  /\ frame > 0 => call.bad \notin 0..(call.count - 1)

=============================================================================
