------------------------------ MODULE Po32Modem -----------------------------
(***************************************************************************)
(* The PO-32 modem of src/core/src/po32.c at the level of samples: the     *)
(* modulator renders the bits of a frame in chunks, the demodulator takes  *)
(* the samples in chunks of its own and decides a bit at every symbol      *)
(* boundary, with timing recovery and the flush at the end.                *)
(*                                                                         *)
(* A sample is the sign of its carrier, 1 or -1, and 0 in silence: the two *)
(* oscillators run at one frequency with whole cycles to a symbol, so the  *)
(* correlation over a window has the sign of the sum of these.  Phases are *)
(* integers, Unit to a symbol.  Of the rounding of floats only that of the *)
(* step is kept: it makes the boundaries run late against the count of     *)
(* samples, which is computed from the exact rate.                         *)
(***************************************************************************)
EXTENDS Integers, Sequences, SequencesExt

CONSTANTS Unit,          \* one symbol
          Step,          \* symbols_per_sample, rounded
          SampleRate, Baud,   \* what it was rounded from
          Gain,          \* PO32_TIMING_RECOVERY_GAIN
          Frames,        \* the bits of the frames a caller may send
          Chunks,        \* the capacities of render calls
          Pushes,        \* the sizes of push calls
          Leads,         \* samples of silence before the frame
          MaxResets      \* bound: how often the modulator is reset

ModemAssumption ==
  /\ Unit \in Nat /\ Step \in 1..Unit /\ Gain \in 0..Unit
  /\ SampleRate \in Nat /\ Baud \in Nat \ {0} /\ Step * SampleRate <= Unit * Baud
  /\ Frames \subseteq Seq({0, 1}) \ {<<>>} /\ Leads \subseteq Nat
  /\ Chunks \subseteq Nat \ {0} /\ Pushes \subseteq Nat \ {0} /\ MaxResets \in Nat

VARIABLES frame, sample_index, symbol_phase, bit_cursor, state,  \* po32_modulator_t
          resets,        \* counter behind MaxResets
          air,           \* the samples on their way; a reset starts them again
          demod,         \* the fields of po32_demodulator_t behind the decisions
          taken,         \* samples pushed so far
          decided,       \* history: the bits decided
          flushed        \* po32_demodulator_flush was called

modulator == <<frame, sample_index, symbol_phase, bit_cursor, state, resets>>
receiver  == <<demod, taken, decided, flushed>>
modemVars == <<modulator, air, receiver>>

(***************************************************************************)
(* The modulator.                                                          *)
(***************************************************************************)
(* po32_render_sample_count.                                               *)
TotalSamples(bits) == (Len(bits) * SampleRate + Baud - 1) \div Baud

BitAt(bits, cursor) == IF cursor < Len(bits) THEN bits[cursor + 1] ELSE 0

NewModulator == [phase |-> Unit, cursor |-> 0, state |-> 0, samples |-> <<>>]

(* A zero flips the carrier, a one leaves it.                              *)
Flipped(before, bit) == (before + 1 + bit) % 2

Modulated(bits, m) ==
  LET emit(n) == [n EXCEPT !.samples = Append(@, 2 * n.state - 1)]
  IN  IF m.phase + Step >= Unit
      THEN emit([m EXCEPT !.phase  = @ + Step - Unit,
                          !.state  = Flipped(@, BitAt(bits, m.cursor)),
                          !.cursor = @ + 1])
      ELSE emit([m EXCEPT !.phase = @ + Step])

ModulatorIs(m) == symbol_phase' = m.phase /\ bit_cursor' = m.cursor /\ state' = m.state

WrittenBack(m) == ModulatorIs(m)

Render(chunk) ==
  LET left  == TotalSamples(frame) - sample_index
      count == IF left > chunk THEN chunk ELSE left
      run[n \in 0..count] ==
        IF n = 0
        THEN [phase |-> symbol_phase, cursor |-> bit_cursor, state |-> state, samples |-> <<>>]
        ELSE Modulated(frame, run[n - 1])
  IN  /\ count > 0
      /\ \E m \in {run[count]} : WrittenBack(m) /\ air' = air \o m.samples
      /\ sample_index' = sample_index + count
      /\ UNCHANGED <<frame, resets, receiver>>

(* A caller that starts again throws away what nobody has heard.           *)
Reset(lead) ==
  /\ resets < MaxResets /\ taken = 0 /\ sample_index > 0
  /\ ModulatorIs(NewModulator) /\ sample_index' = 0
  /\ air' = [i \in 1..lead |-> 0] /\ resets' = resets + 1
  /\ UNCHANGED <<frame, receiver>>

(***************************************************************************)
(* The demodulator.                                                        *)
(***************************************************************************)
NewDemod == [phase |-> Unit, started |-> FALSE, prev |-> 0, accum |-> 0]

Magnitude(x) == IF x < 0 THEN -x ELSE x

(* Timing recovery: where the carrier flipped, the phase moves towards the *)
(* boundary by at most Gain.                                               *)
Recovery(d) ==
  LET a == Magnitude(d.accum)
      p == Magnitude(d.prev)
  IN  IF (d.prev > 0) = (d.accum > 0) \/ a + p = 0 THEN 0
      ELSE IF a >= p THEN (Gain * (a - p)) \div (a + p) ELSE -((Gain * (p - a)) \div (a + p))

(* A run of the demodulator: its fields and the bits it decides.           *)
Boundary(run) ==
  LET d == run.demod
      window(e) == [e EXCEPT !.prev = d.accum, !.accum = 0]
  IN  IF d.started
      THEN [demod |-> window([d EXCEPT !.phase = @ + Recovery(d)]),
            bits  |-> Append(run.bits, IF d.accum * d.prev >= 0 THEN 1 ELSE 0)]
      ELSE [run EXCEPT !.demod = window([d EXCEPT !.started = TRUE])]

Sampled(run, sample) ==
  LET d == [run.demod EXCEPT !.accum = @ + sample, !.phase = @ + Step]
  IN  IF d.phase >= Unit
      THEN Boundary([run EXCEPT !.demod = [d EXCEPT !.phase = @ - Unit]])
      ELSE [run EXCEPT !.demod = d]

Commit(run) == demod' = run.demod /\ decided' = decided \o run.bits

Push(size) ==
  LET count == IF Len(air) - taken > size THEN size ELSE Len(air) - taken
      start == [demod |-> demod, bits |-> <<>>]
      run[n \in 0..count] == IF n = 0 THEN start ELSE Sampled(run[n - 1], air[taken + n])
  IN  /\ ~flushed /\ count > 0
      /\ \E last \in {run[count]} : Commit(last)
      /\ taken' = taken + count
      /\ UNCHANGED <<modulator, air, flushed>>

(* Mutant: only a whole window is worth a bit. *)
PendingWhole == demod.phase >= Unit

(* PO32_FLUSH_MIN_SYMBOL_PHASE is one half.                                *)
Pending == 2 * demod.phase >= Unit

(* The code flushes only between sync word and tail, and that it does is   *)
(* the matter of module Po32Demod.  Here no bit means anything: what is    *)
(* asked is the last window's, of a demodulator that has begun to decide.  *)
Flush ==
  /\ ~flushed /\ taken > 0
  /\ IF demod.started /\ Pending
     THEN \E run \in {Boundary([demod |-> demod, bits |-> <<>>])} :
            Commit([run EXCEPT !.demod.phase = 0])
     ELSE UNCHANGED <<demod, decided>>
  /\ flushed' = TRUE
  /\ UNCHANGED <<modulator, air, taken>>

Init ==
  /\ frame \in Frames
  /\ sample_index = 0 /\ resets = 0
  /\ \E m \in {NewModulator} : symbol_phase = m.phase /\ bit_cursor = m.cursor /\ state = m.state
  /\ \E lead \in Leads : air = [i \in 1..lead |-> 0]
  /\ demod = NewDemod /\ taken = 0 /\ decided = <<>> /\ flushed = FALSE

Next ==
  \/ \E chunk \in Chunks : Render(chunk)
  \/ \E lead \in Leads : Reset(lead)
  \/ \E size \in Pushes : Push(size)
  \/ Flush

Spec == Init /\ [][Next]_modemVars

(***************************************************************************)
(* Properties.                                                             *)
(***************************************************************************)
(* The types; phases stay within a symbol and what recovery may add.       *)
ModemTypeOK ==
  /\ symbol_phase \in 0..Unit /\ state \in 0..1 /\ bit_cursor \in 0..Len(frame) + 1
  /\ sample_index \in 0..TotalSamples(frame) /\ taken \in 0..Len(air)
  /\ demod.phase \in -Gain..Unit + Gain /\ decided \in Seq({0, 1})

Lead == Len(air) - sample_index

(* "Chunk boundaries do not change the waveform": however a frame was      *)
(* rendered, sample i has the sign that the zeros among the bits begun by  *)
(* then leave, the first bit with the first sample.                        *)
ChunksDoNotShow ==
  \A i \in 1..sample_index :
    LET begun == 1 + (i * Step) \div Unit
        zeros == Len(SelectSeq([k \in 1..begun |-> BitAt(frame, k - 1)], LAMBDA bit : bit = 0))
    IN  air[Lead + i] = 2 * (zeros % 2) - 1

(* No bit is made up: whatever was pushed, in whatever chunks and with     *)
(* whatever lead, the bits decided are those of the frame in order, from   *)
(* the second on (the first has nothing to differ from), and none that was *)
(* not sent.  Of silence come ones.  Only a flush in the middle of a frame *)
(* may guess its last bit: half a window may straddle two symbols.         *)
OnlyBitsSent ==
  LET quiet   == (Lead * Step + Unit \div 2) \div Unit
      whole   == taken = Len(air) /\ sample_index = TotalSamples(frame)
      certain == IF flushed /\ ~whole THEN Len(decided) - 1 ELSE Len(decided)
  IN  /\ Len(decided) <= quiet + Len(frame)
      /\ \A k \in quiet + 2..certain : decided[k] = frame[k - quiet]

(* Every bit arrives: once a whole frame was pushed and flushed, its last  *)
(* bit is decided, though the samples end with it.                         *)
EveryBitArrives ==
  flushed /\ taken = Len(air) /\ sample_index = TotalSamples(frame) =>
    Len(decided) >= Len(frame)
=============================================================================
