----------------------------- MODULE Po35Synth -----------------------------
(***************************************************************************)
(* The PO-35 speech synthesiser (src/core/src/po35_synth.c): a voice       *)
(* renders records of speech, each for the samples between two rounded     *)
(* boundaries, through a filter whose coefficients change with the record. *)
(*                                                                         *)
(* The arithmetic is left out, its history is not.  A filter delay is the  *)
(* set of the products it sums; noise is the number of its pair and which  *)
(* half of it; phase is counted in parts of a turn.                        *)
(***************************************************************************)
EXTENDS Naturals, Sequences, SequencesExt, FiniteSetsExt

CONSTANTS Speeches,      \* the arguments po35_synth_voice_init may be given
          BankRate,      \* samples per second of each bank, 0 of no bank
          Order,         \* order of the filter of each bank
          FrameRates,    \* the record rates taken: 20, 40, 60 and 80
          Turn,          \* parts of a turn
          SizeMax,       \* the largest size_t
          Capacities,    \* the room a caller may offer a render call
          MaxCalls       \* the calls of a behaviour

(* A record advances the phase, and may hold coefficients and a gain that  *)
(* leave binary32 at its sample "bad" (0: at none).                        *)
SpeechRecord == [increment : Nat, bad : Nat]

SpeechAssumption ==
  /\ BankRate \in [DOMAIN Order -> Nat] /\ \A bank \in DOMAIN Order : Order[bank] \in Nat \ {0}
  /\ FrameRates \subseteq Nat \ {0} /\ Turn \in Nat \ {0} /\ SizeMax \in Nat
  /\ Speeches \subseteq [bank : DOMAIN Order, seed : Nat, records : Seq(SpeechRecord),
                         ragged : BOOLEAN, fps : Nat]

VARIABLES voice,     \* po35_synth_voice_t
          called,    \* calls made
          played,    \* history: the samples rendered since the last init or reset
          speech,    \* history: what the voice was last set up with
          shot       \* history: the last po35_synth_render: its arguments and samples

speechVars == <<voice, called, played, speech, shot>>

DefaultSeed == 1         \* 0x6d2b79f5

NoSpeech == [bank |-> "none", seed |-> 0, records |-> <<>>, ragged |-> FALSE, fps |-> 0]

-----------------------------------------------------------------------------
(* The samples of a count of records that make no whole second.            *)
RoundedTail(count, rate, fps) ==
  LET numerator == (count % fps) * rate
  IN  numerator \div fps + (IF (numerator % fps) * 2 > fps THEN 1 ELSE 0)

Boundary(count, rate, fps) == (count \div fps) * rate + RoundedTail(count, rate, fps)

(* po35_synth_samples_for_records takes the count, and so voice_init.     *)
Renderable(s) ==
  LET rate == BankRate[s.bank]
      n    == Len(s.records)
  IN  /\ ~s.ragged /\ rate # 0 /\ s.fps \in FrameRates
      /\ n \div s.fps <= (SizeMax - RoundedTail(n, rate, s.fps)) \div rate

ClearDsp(v) ==
  [v EXCEPT !.rendered = 0, !.index = 0, !.sample = 0, !.samples = 0, !.ready = FALSE,
            !.noise = [seed |-> IF v.seed # 0 THEN v.seed ELSE DefaultSeed, pairs |-> 0],
            !.cached = FALSE, !.ok = TRUE, !.phase = 0, !.history = <<>>,
            !.delay = [i \in DOMAIN v.delay |-> {}]]

Silent ==
  [records |-> <<>>, total |-> 0, rate |-> 0, fps |-> 0, seed |-> 0, delay |-> <<>>,
   rendered |-> 0, index |-> 0, sample |-> 0, samples |-> 0, ready |-> FALSE,
   noise |-> [seed |-> DefaultSeed, pairs |-> 0], cached |-> FALSE, ok |-> TRUE,
   phase |-> 0, history |-> <<>>]

(* A refused init leaves nothing to render, whatever was there before.     *)
VoiceInit(s) ==
  IF ~Renderable(s) THEN Silent
  ELSE LET rate == BankRate[s.bank]
       IN  ClearDsp([Silent EXCEPT !.records = s.records, !.rate = rate, !.fps = s.fps,
                                   !.total = Boundary(Len(s.records), rate, s.fps),
                                   !.seed = s.seed,
                                   !.delay = [i \in 1..Order[s.bank] |-> {}]])

Remaining(v) == IF v.total > v.rendered THEN v.total - v.rendered ELSE 0

-----------------------------------------------------------------------------
(* The product of coefficient j of record r and sample n of the output.    *)
Product(j, r, n) == [coefficient |-> j, record |-> r, sample |-> n]

(* Mutant: the filter keeps the sums of the record before.                 *)
PrepareRecordKeepsDelay(v) ==
  [v EXCEPT !.ready = TRUE, !.sample = 0,
            !.samples = Boundary(v.index + 1, v.rate, v.fps) - v.rendered]

(* The next record: the sums of the filter are those its own coefficients  *)
(* make of the output so far.                                              *)
PrepareRecord(v) ==
  [v EXCEPT !.ready = TRUE, !.sample = 0,
            !.samples = Boundary(v.index + 1, v.rate, v.fps) - v.rendered,
            !.delay = [i \in DOMAIN v.delay |->
                         { Product(i + j - 1, v.index + 1, v.history[j]) :
                             j \in 1..(IF Len(v.history) < Len(v.delay) - i + 1
                                       THEN Len(v.history) ELSE Len(v.delay) - i + 1) }]]

(* A pair of random numbers is drawn for every other sample.               *)
Gaussian(v) ==
  IF v.cached THEN [v EXCEPT !.cached = FALSE]
  ELSE [v EXCEPT !.cached = TRUE, !.noise.pairs = @ + 1]

(* The sample becomes part of the sums and of the history.                 *)
Filtered(v, n) ==
  [v EXCEPT !.delay = [i \in DOMAIN v.delay |->
                         (IF i < Len(v.delay) THEN v.delay[i + 1] ELSE {})
                           \cup {Product(i, v.index + 1, n)}],
            !.history = SubSeq(<<n>> \o v.history, 1,
                               IF Len(v.history) < Len(v.delay) THEN Len(v.history) + 1
                               ELSE Len(v.delay))]

(* Past its last sample the record moves the phase on, and is over.        *)
Counted(v) ==
  IF v.sample + 1 = v.samples
  THEN [v EXCEPT !.rendered = @ + 1, !.sample = @ + 1, !.index = @ + 1, !.ready = FALSE,
                 !.phase = (@ + v.samples * v.records[v.index + 1].increment) % Turn]
  ELSE [v EXCEPT !.rendered = @ + 1, !.sample = @ + 1]

Heard(v) ==       \* after Gaussian
  [record |-> v.index + 1, filter |-> v.delay[1],
   phase |-> (v.phase + v.sample * v.records[v.index + 1].increment) % Turn,
   noise |-> [v.noise EXCEPT !.pairs = 2 * @ - (IF v.cached THEN 1 ELSE 0)]]

(* One sample, or the failure that stops the voice before it.              *)
SampleStep(r) ==
  LET v == Gaussian(IF r.v.ready THEN r.v ELSE PrepareRecord(r.v))
  IN  IF v.records[v.index + 1].bad = v.sample + 1 THEN [r EXCEPT !.v = [v EXCEPT !.ok = FALSE]]
      ELSE [v   |-> Counted(Filtered(v, v.rendered + 1)),
            out |-> Append(r.out, Heard(v))]

Rendered(v, capacity) ==
  FoldLeft(LAMBDA r, i : IF r.v.ok /\ r.v.rendered < r.v.total THEN SampleStep(r) ELSE r,
           [v |-> v, out |-> <<>>], [i \in 1..capacity |-> i])

-----------------------------------------------------------------------------
Init ==
  /\ voice = Silent /\ called = 0
  /\ played = <<>> /\ speech = NoSpeech
  /\ shot = [speech |-> NoSpeech, capacity |-> 0, out |-> <<>>]

Called == called < MaxCalls /\ called' = called + 1

Speak(s) ==
  /\ Called
  /\ voice' = VoiceInit(s)
  /\ played' = <<>> /\ speech' = s
  /\ UNCHANGED shot

ResetVoice ==
  /\ Called
  /\ voice' = ClearDsp(voice)
  /\ played' = <<>>
  /\ UNCHANGED <<speech, shot>>

Render(capacity) ==
  /\ Called
  /\ LET r == Rendered(voice, capacity)
     IN  voice' = r.v /\ played' = played \o r.out
  /\ UNCHANGED <<speech, shot>>

(* po35_synth_render: a voice of its own, and room for all of it.          *)
Once(s, capacity) ==
  /\ Called
  /\ LET v == VoiceInit(s)
     IN  shot' = [speech |-> s, capacity |-> capacity,
                  out |-> IF capacity < v.total THEN <<>> ELSE Rendered(v, capacity).out]
  /\ UNCHANGED <<voice, played, speech>>

Next ==
  \/ \E s \in Speeches : Speak(s)
  \/ ResetVoice
  \/ \E capacity \in Capacities : Render(capacity)
  \/ \E s \in Speeches, capacity \in Capacities : Once(s, capacity)

Spec == Init /\ [][Next]_speechVars

-----------------------------------------------------------------------------
(* The end of record r of a speech: its exact time in samples, to the      *)
(* nearest sample.                                                         *)
EndOf(s, r) == (2 * r * BankRate[s.bank] + s.fps) \div (2 * s.fps)

SpeechLength(s) == IF Renderable(s) THEN EndOf(s, Len(s.records)) ELSE 0

RecordAt(s, n) == CHOOSE r \in 1..Len(s.records) : EndOf(s, r - 1) < n /\ n <= EndOf(s, r)

(* What sample n sounds like, from the speech alone: the whole filter of   *)
(* its record, over the output before it.                                  *)
SampleAt(s, n) ==
  LET r == RecordAt(s, n)
      turned(q) == (EndOf(s, q) - EndOf(s, q - 1)) * s.records[q].increment
  IN  [record |-> r,
       filter |-> { Product(j, r, n - j) : j \in { j \in 1..Order[s.bank] : j < n } },
       phase  |-> (MapThenSumSet(turned, 1..(r - 1))
                     + (n - 1 - EndOf(s, r - 1)) * s.records[r].increment) % Turn,
       noise  |-> [seed |-> IF s.seed = 0 THEN DefaultSeed ELSE s.seed, pairs |-> n]]

(* The samples that are no numbers.                                        *)
Failures(s) ==
  { n \in 1..SpeechLength(s) :
      LET r == RecordAt(s, n) IN s.records[r].bad = n - EndOf(s, r - 1) }

SoundOf(s) ==
  LET first == IF Failures(s) = {} THEN SpeechLength(s) ELSE Min(Failures(s)) - 1
  IN  [n \in 1..first |-> SampleAt(s, n)]

(* However a speech is cut into calls, and whatever the voice did before,  *)
(* it sounds as it does at once: no filter sum, phase or half of a pair of *)
(* noise is lost between two calls or kept over a reset, and a record that *)
(* begins in the middle of a call filters the output of the one before.    *)
ChunksDoNotShow ==
  /\ IsPrefix(played, SoundOf(speech))
  /\ shot.out = IF shot.capacity < SpeechLength(shot.speech) THEN <<>> ELSE SoundOf(shot.speech)

(* Every record ends on the sample nearest to its time, the last one on    *)
(* the promised length: the account of a voice is exact at every step.     *)
SpeechEndsOnTime ==
  /\ Len(played) = voice.rendered
  /\ voice.rendered + Remaining(voice) = SpeechLength(speech)
  /\ voice.ready => voice.rendered - voice.sample + voice.samples = EndOf(speech, voice.index + 1)

(* A sample that is no number stops the voice for good, short of it.       *)
FailureStands ==
  voice.ok \/ (/\ Len(played) + 1 \in Failures(speech)
               /\ voice.rendered = Len(played))

=============================================================================
