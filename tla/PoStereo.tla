------------------------------ MODULE PoStereo ------------------------------
(***************************************************************************)
(* The stereo DQPSK transport (src/core/src/po_stereo.c): a modulator that *)
(* renders a wire in chunks, a tape that hears it, and a receiver that     *)
(* walks over the frames on the tape.  A sample is abstracted to the       *)
(* symbol it belongs to and the phases it moves between; the filters and   *)
(* the timing pilot are abstracted to a clock that is locked wherever      *)
(* there is a signal.  A phase is a quadrant, 0..3, for each channel.      *)
(***************************************************************************)
EXTENDS Integers, Sequences, SequencesExt

CONSTANTS CounterBytes,  \* bytes of the counter before the sync marker: 4092
          HoldSymbols,   \* PO_STEREO_HOLD_SYMBOLS, 128
          LeadFrames,    \* a quarter of a second of silence
          Ticks, Denominator,  \* symbols per sample: 15625 over twice the rate
          Wires,         \* the wires a caller may send
          Chunks,        \* the frame capacities of its render calls
          Capacities,    \* the sizes of a receiver's buffer
          Noise,         \* phases that may be heard in silence
          MaxResets      \* bound: how often the modulator is reset

ASSUME StereoAssumption ==
  /\ CounterBytes \in 0..256 /\ HoldSymbols \in Nat /\ LeadFrames \in Nat
  /\ Ticks \in Nat \ {0} /\ Denominator \in Nat /\ Ticks < Denominator
  /\ Wires \subseteq Seq(0..255) \ {<<>>} /\ Chunks \subseteq Nat \ {0}
  /\ Capacities \subseteq Nat /\ MaxResets \in Nat

VARIABLES wire, position, symbol, phase, next_phase,   \* the modulator
          resets,        \* counter behind MaxResets
          tape,          \* the frames rendered so far, by every play
          sent,          \* history: whole wires on the tape
          heard, nibbles, next_sync, status, out_len,  \* the receiver
          matched,       \* was it recorded in the order it was played
          delivered      \* history: where the candidates handed out start

modulator   == <<wire, position, symbol, phase, next_phase, resets, tape, sent>>
receiver    == <<heard, nibbles, next_sync, status, out_len, matched, delivered>>
stereoVars  == <<modulator, receiver>>

Marker   == <<77, 184, 22, 93>>
Preamble == [i \in 1..CounterBytes |-> i - 1] \o Marker
SyncAt   == 2 * CounterBytes
Shortest == 2 * Len(Preamble)
Phases   == (0..3) \X (0..3)

(***************************************************************************)
(* The modulator.                                                          *)
(***************************************************************************)
WireNibble(bytes, at) ==
  IF at >= 2 * Len(bytes) THEN 0
  ELSE LET byte == bytes[at \div 2 + 1]
       IN  IF at % 2 = 0 THEN byte % 16 ELSE byte \div 16

Dibits(nibble) == <<nibble \div 4, nibble % 4>>

Turned(from, dibits) == [c \in 1..2 |-> (from[c] + dibits[c]) % 4]

Symbols(bytes) == 2 * Len(bytes) + 1 + HoldSymbols

ActiveFrames(bytes) == (Symbols(bytes) * Denominator + Ticks - 1) \div Ticks

TotalFrames(bytes) == ActiveFrames(bytes) + 2 * LeadFrames

(* A state of the modulator, with the frames it has rendered since.        *)
Restarted(bytes) ==
  [position |-> 0, symbol |-> 0, phase |-> <<0, 0>>,
   next |-> Dibits(WireNibble(bytes, 0)), frames |-> <<>>]

Advanced(bytes, state, to) ==
  IF state.symbol >= to THEN state
  ELSE [state EXCEPT !.symbol = @ + 1, !.phase = state.next,
                     !.next = Turned(state.next, Dibits(WireNibble(bytes, state.symbol + 1)))]

Silent == [symbol |-> -1, phase |-> <<0, 0>>, next |-> <<0, 0>>]

Sounding(bytes, at) == at >= LeadFrames /\ at - LeadFrames < ActiveFrames(bytes)

SymbolAt(at) == ((at - LeadFrames) * Ticks) \div Denominator

(* One frame of a chunk.  A symbol takes at least a frame, so the loop of  *)
(* the code that catches up with the symbol runs at most once.             *)
Rendered(bytes, state) ==
  LET emit(s, frame) == [s EXCEPT !.position = @ + 1, !.frames = Append(@, frame)]
      sound(s) == emit(s, [symbol |-> s.symbol, phase |-> s.phase, next |-> s.next])
  IN  IF Sounding(bytes, state.position)
      THEN sound(Advanced(bytes, state, SymbolAt(state.position)))
      ELSE emit(state, Silent)

(* A wire is sent once two symbols of the hold have begun as well: the     *)
(* receiver does not sample the last frames of a tape.                     *)
Sent(bytes, at) == at >= 2 * Len(bytes) + 2

ModulatorIs(state) ==
  /\ position' = state.position /\ symbol' = state.symbol
  /\ phase' = state.phase /\ next_phase' = state.next

Render(chunk) ==
  LET count == IF TotalFrames(wire) - position > chunk THEN chunk
               ELSE TotalFrames(wire) - position
      start == [position |-> position, symbol |-> symbol, phase |-> phase,
                next |-> next_phase, frames |-> <<>>]
      run[n \in 0..count] == IF n = 0 THEN start ELSE Rendered(wire, run[n - 1])
  IN  /\ status = "none" /\ position < TotalFrames(wire)
      /\ \E rendered \in {run[count]} :
           /\ ModulatorIs(rendered)
           /\ tape' = tape \o rendered.frames
           /\ sent' = IF Sent(wire, rendered.symbol) /\ ~Sent(wire, symbol)
                      THEN sent + 1 ELSE sent
      /\ UNCHANGED <<wire, resets, receiver>>

Reset ==
  /\ status = "none" /\ resets < MaxResets /\ position > 0
  /\ \E restarted \in {Restarted(wire)} : ModulatorIs(restarted)
  /\ resets' = resets + 1
  /\ UNCHANGED <<wire, tape, sent, receiver>>

(***************************************************************************)
(* The demodulator: the clock crosses into a symbol at its first frame,    *)
(* and runs free in silence.  A crossing too near to an end of the tape is *)
(* not sampled.                                                            *)
(***************************************************************************)
Crosses(i) ==
  IF tape[i].symbol >= 0 THEN tape[i].symbol # tape[i - 1].symbol
  ELSE (i * Ticks) \div Denominator > ((i - 1) * Ticks) \div Denominator

Sampled == SelectSeq([i \in 1..Len(tape) - 3 |-> i], LAMBDA i : i > 1 /\ Crosses(i))

Heard(i, noise, swapped) ==
  LET p == IF tape[i].symbol >= 0 THEN tape[i].phase ELSE noise
  IN  IF swapped THEN <<p[2], p[1]>> ELSE p

(* Mutant: the right channel is the high dibit. *)
NibbleMirrored(before, after) ==
  4 * ((after[2] - before[2]) % 4) + ((after[1] - before[1]) % 4)

(* The measured angle falls as the phase rises: previous less current.     *)
Nibble(before, after) ==
  4 * ((after[1] - before[1]) % 4) + ((after[2] - before[2]) % 4)

Demodulated(noise, swapped) ==
  LET heardAt(at) == [k \in 1..Len(at) |-> Heard(at[k], noise, swapped)] IN heardAt(Sampled)

Nibbles(phases) == [k \in 1..Len(phases) - 1 |-> Nibble(phases[k], phases[k + 1])]

(* po33_pack_symbols, for a caller with a demodulator of its own.          *)
PackSymbols(phases, parity) ==
  LET required == IF Len(phases) > 1 + parity THEN (Len(phases) - 1 - parity) \div 2 ELSE 0
  IN  [i \in 1..required |->
         Nibble(phases[2 * i + parity - 1], phases[2 * i + parity])
         + 16 * Nibble(phases[2 * i + parity], phases[2 * i + parity + 1])]

(***************************************************************************)
(* The walk over the candidates.  Offsets in nibbles start at 0.           *)
(***************************************************************************)
PackedByte(from, index, start) == from[2 * index + start + 1] + 16 * from[2 * index + start + 2]

Packed(from, start) == [j \in 1..(Len(from) - start) \div 2 |-> PackedByte(from, j - 1, start)]

CounterMatches(from, start) ==
  \A j \in 1..Len(Preamble) : PackedByte(from, j - 1, start) = Preamble[j]

(* The one-shot search tries the whole tape in one alignment, then in the  *)
(* other.                                                                  *)
StartsAt(from, parity) ==
  {s \in 0..Len(from) - Shortest : s % 2 = parity /\ CounterMatches(from, s)}

Least(set) == CHOOSE s \in set : \A r \in set : s <= r

FindFrame(from, capacity) ==
  LET result(answer, length, bytes) == [status |-> answer, length |-> length, bytes |-> bytes]
      copied(bytes) ==
        IF capacity < Len(bytes) THEN result("buffer_too_small", Len(bytes), <<>>)
        ELSE result("ok", Len(bytes), bytes)
  IN  IF Len(from) < Shortest THEN result("frame", 0, <<>>)
      ELSE IF StartsAt(from, 0) # {} THEN copied(Packed(from, Least(StartsAt(from, 0))))
      ELSE IF StartsAt(from, 1) # {} THEN copied(Packed(from, Least(StartsAt(from, 1))))
      ELSE result("frame", 0, <<>>)

(* The caller stops the tape and decodes it; swapped is how the channels   *)
(* were wired, against the order it asks for.                              *)
Record(noise, swapped) ==
  /\ status = "none"
  /\ matched' = ~swapped
  /\ IF Len(tape) < Shortest
     THEN heard' = <<>> /\ nibbles' = <<>> /\ status' = "frame"
     ELSE \E phases \in {Demodulated(noise, swapped)} :
            /\ heard' = phases /\ nibbles' = Nibbles(phases) /\ status' = "ok"
  /\ next_sync' = SyncAt /\ out_len' = 0
  /\ UNCHANGED <<modulator, delivered>>

Syncs(from) == {sync \in from..Len(nibbles) - 8 : sync >= SyncAt /\ CounterMatches(nibbles, sync - SyncAt)}

(* Mutant: a candidate is consumed before it is known to fit. *)
ConsumedEarly(sync, capacity, length) ==
  /\ next_sync' = sync + 1
  /\ IF capacity < length
     THEN status' = "buffer_too_small" /\ UNCHANGED delivered
     ELSE status' = "ok" /\ delivered' = Append(delivered, sync - SyncAt)

Consumed(sync, capacity, length) ==
  IF capacity < length
  THEN status' = "buffer_too_small" /\ UNCHANGED <<next_sync, delivered>>
  ELSE /\ status' = "ok" /\ delivered' = Append(delivered, sync - SyncAt)
       /\ next_sync' = sync + 1

NextCandidate(capacity) ==
  /\ status \notin {"none", "frame"} /\ Len(nibbles) >= Shortest
  /\ \E sync \in Syncs(next_sync) :
       /\ \A other \in Syncs(next_sync) : sync <= other
       /\ out_len' = (Len(nibbles) - (sync - SyncAt)) \div 2
       /\ Consumed(sync, capacity, (Len(nibbles) - (sync - SyncAt)) \div 2)
  /\ UNCHANGED <<modulator, heard, nibbles, matched>>

NoMoreCandidates ==
  /\ status \notin {"none", "frame"}
  /\ Len(nibbles) < Shortest \/ Syncs(next_sync) = {}
  /\ next_sync' = IF Len(nibbles) < Shortest THEN next_sync ELSE Len(nibbles)
  /\ status' = "frame" /\ out_len' = 0
  /\ UNCHANGED <<modulator, heard, nibbles, matched, delivered>>

Init ==
  /\ wire \in Wires
  /\ \E fresh \in {Restarted(wire)} :
       position = fresh.position /\ symbol = fresh.symbol /\ phase = fresh.phase /\ next_phase = fresh.next
  /\ resets = 0 /\ tape = <<>> /\ sent = 0
  /\ heard = <<>> /\ nibbles = <<>> /\ next_sync = 0 /\ status = "none" /\ out_len = 0
  /\ matched = TRUE /\ delivered = <<>>

Next ==
  \/ \E chunk \in Chunks : Render(chunk)
  \/ Reset
  \/ \E noise \in Noise, swapped \in BOOLEAN : Record(noise, swapped)
  \/ \E capacity \in Capacities : NextCandidate(capacity)
  \/ NoMoreCandidates

Spec == Init /\ [][Next]_stereoVars

(***************************************************************************)
(* Properties.                                                             *)
(***************************************************************************)
(* The types; the modulator is never past its last symbol or frame.        *)
StereoTypeOK ==
  /\ wire \in Wires /\ position \in 0..TotalFrames(wire)
  /\ symbol \in 0..Symbols(wire) - 1 /\ phase \in Phases /\ next_phase \in Phases
  /\ nibbles \in Seq(0..15) /\ next_sync \in Nat /\ out_len \in Nat
  /\ status \in {"none", "ok", "frame", "buffer_too_small"}
  /\ delivered \in Seq(Nat)

(* Closed form: the phases a symbol holds are the sums of the dibits of    *)
(* the nibbles before it.                                                  *)
PhaseOf(s) ==
  [c \in 1..2 |->
     FoldLeft(+, 0, [k \in 1..s |-> Dibits(WireNibble(wire, k - 1))[c]]) % 4]

(* "Chunk boundaries do not change the waveform" (po_stereo.h): whatever   *)
(* chunks and resets came before, a frame of the play depends on nothing   *)
(* but its position, and a whole play sounds every symbol, the last of the *)
(* hold included.                                                          *)
ChunksDoNotShow ==
  LET play == SubSeq(tape, Len(tape) - position + 1, Len(tape))
  IN  /\ \A i \in 1..position :
           IF Sounding(wire, i - 1)
           THEN /\ play[i].symbol = SymbolAt(i - 1)
                /\ play[i].phase = PhaseOf(SymbolAt(i - 1))
                /\ play[i].next = PhaseOf(SymbolAt(i - 1) + 1)
           ELSE play[i] = Silent
      /\ position = TotalFrames(wire) =>
           play[position - LeadFrames] = [symbol |-> Symbols(wire) - 1, phase |-> PhaseOf(Symbols(wire) - 1),
                                          next |-> PhaseOf(Symbols(wire))]

(* The walk hands out every candidate before its cursor, in the order of   *)
(* the tape and once, also when a buffer was too small for one and the     *)
(* call was made again with a larger one.                                  *)
CandidatesOnce ==
  delivered = SelectSeq([k \in 1..Len(nibbles) - Shortest + 1 |-> k - 1],
                        LAMBDA s : CounterMatches(nibbles, s) /\ s + SyncAt < next_sync)

(* A wire from its counter on.                                             *)
FromCounter == SubSeq(wire, Least({k \in 1..Len(wire) : IsPrefix(Preamble, SubSeq(wire, k, Len(wire)))}), Len(wire))

(* What is sent arrives: at the end of the walk every wire that was on the *)
(* tape as a whole has been handed out from its counter on, at whatever    *)
(* nibble it began, with whatever played before it, if the channels were   *)
(* in order.                                                               *)
WiresArrive ==
  (status = "frame" /\ matched /\ Len(tape) >= Shortest) =>
    Len(SelectSeq(delivered, LAMBDA s : IsPrefix(FromCounter, Packed(nibbles, s)))) >= sent

(* po_stereo_decode_f32 and the iterator agree over a recording: the one   *)
(* finds something just if the other does, and it is one of the other's    *)
(* candidates; a buffer too small for it is told that candidate's length,  *)
(* and the call made again with such a buffer gets it.                     *)
OneShotIsACandidate ==
  status = "frame" => \A capacity \in Capacities :
    \E found \in {FindFrame(nibbles, capacity)} :
      IF found.status = "frame" THEN delivered = <<>>
      ELSE /\ found.status = "buffer_too_small" <=> capacity < found.length
           /\ \E k \in 1..Len(delivered) :
                LET candidate == Packed(nibbles, delivered[k])
                IN  /\ Len(candidate) = found.length
                    /\ FindFrame(nibbles, found.length) =
                         [status |-> "ok", length |-> found.length, bytes |-> candidate]
                    /\ found.status = "ok" => found.bytes = candidate

(* The two packers agree in either alignment, on every byte and on how     *)
(* many there are: po33_pack_symbols over the phases of a tape gives what  *)
(* the receiver packs from its nibbles.                                    *)
PackersAgree ==
  status # "none" => \A parity \in 0..1 : PackSymbols(heard, parity) = Packed(nibbles, parity)
=============================================================================
