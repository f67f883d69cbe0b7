------------------------------ MODULE Po32Synth ------------------------------
(***************************************************************************)
(* A voice of the PO-32 drum synthesiser (src/core/src/po32_synth.c): what *)
(* a hit sets up, what a reset restores and what a render call takes from  *)
(* one sample to the next.                                                 *)
(*                                                                         *)
(* The arithmetic is left out, its history is not: a sample is the record  *)
(* of what it was computed from.  A recursion is its seed and the          *)
(* multiplications since; a random number is the number of its draw; a     *)
(* filter is the sequence of its inputs.                                   *)
(***************************************************************************)
EXTENDS Naturals, Sequences, SequencesExt

CONSTANTS Hits,          \* what po32_synth_voice_init may be given
          Limit,         \* SYNTH_SAMPLES_LIMIT_F
          Period,        \* samples between normalisations of the rotor: 256
          Capacities,    \* the room a caller may offer a render call
          MaxCalls       \* the calls of a behaviour

(* A hit names the sample rate, how long it may last (0 for no positive    *)
(* number, NaN included), the samples its envelopes rise for, and the      *)
(* sources its parameters select.                                          *)
Hit == [rate : Nat, seconds : Nat, attack : Nat, noise_attack : Nat,
        mod : {"exp", "sine", "noise"}, noise_env : {"exp", "linear", "ring"}, eq : BOOLEAN]

SynthAssumption ==
  Hits \subseteq Hit /\ Period \in Nat \ {0} /\ Limit \in Nat /\ Capacities \subseteq Nat

NoHit ==      \* null parameters, or no rate
  [rate |-> 0, seconds |-> 0, attack |-> 0, noise_attack |-> 0,
   mod |-> "exp", noise_env |-> "exp", eq |-> FALSE]

VARIABLES voice,     \* po32_synth_voice_t
          calls,
          played,    \* history: the samples rendered since the last init or reset
          hit        \* history: the hit last set up

synthVars == <<voice, calls, played, hit>>

(***************************************************************************)
(* A duration in samples: none if there is no rate, no positive number of  *)
(* seconds, or more than a size_t holds.                                   *)
(***************************************************************************)
DurationToSamples(rate, seconds) ==
  IF rate > 0 /\ seconds > 0 /\ rate * seconds < Limit
  THEN rate * seconds ELSE 0

(* A decay is seeded from the time since the attack.                       *)
Floor == 0
Since(dt) == 1 + dt

Envelope == [seed |-> Floor, risen |-> 0, fallen |-> 0]

Zeroed ==
  [total |-> 0, rendered |-> 0, draws |-> 0, steps |-> 0, attack |-> 0, noise_attack |-> 0,
   mod |-> "noise", noise_env |-> "exp", use_eq |-> FALSE,
   osc |-> Envelope, osc_synced |-> FALSE, nenv |-> Envelope, nenv_synced |-> FALSE,
   lfo |-> 0, norms |-> 0, mod_state |-> <<>>, noise_filt |-> <<>>, eq_filt |-> 0]

(* Mutant: a reset leaves the noise envelope where it is.                  *)
ResetKeepsSynced(v) ==
  [v EXCEPT !.rendered = 0, !.steps = 0,
            !.draws     = IF v.mod = "noise" THEN 1 ELSE 0,
            !.mod_state = IF v.mod = "noise" THEN <<1>> ELSE <<>>,
            !.osc = Envelope, !.osc_synced = FALSE, !.nenv = Envelope,
            !.lfo = 0, !.norms = 0, !.noise_filt = <<>>, !.eq_filt = 0]

Reset(v) ==
  [v EXCEPT !.rendered = 0, !.steps = 0,
            !.draws     = IF v.mod = "noise" THEN 1 ELSE 0,
            !.mod_state = IF v.mod = "noise" THEN <<1>> ELSE <<>>,
            !.osc = Envelope, !.osc_synced = FALSE, !.nenv = Envelope, !.nenv_synced = FALSE,
            !.lfo = 0, !.norms = 0, !.noise_filt = <<>>, !.eq_filt = 0]

(* Without a rate or parameters the voice is inert.                        *)
VoiceInit(v, h) ==
  IF h.rate = 0 THEN Zeroed
  ELSE Reset([Zeroed EXCEPT !.total = DurationToSamples(h.rate, h.seconds),
                            !.attack = h.attack, !.noise_attack = h.noise_attack,
                            !.mod = h.mod, !.noise_env = h.noise_env, !.use_eq = h.eq])

Remaining(v) == IF v.rendered >= v.total THEN 0 ELSE v.total - v.rendered

(***************************************************************************)
(* One sample.  An envelope rises by a factor, is set once to what the     *)
(* decay would be at this time, and falls by a factor from there.          *)
(***************************************************************************)
Decaying(env, synced, dt) == IF synced THEN env ELSE [Envelope EXCEPT !.seed = Since(dt)]

OscStep(v, t) ==
  IF v.attack > 0 /\ t < v.attack
  THEN [heard |-> v.osc, v |-> [v EXCEPT !.osc.risen = @ + 1]]
  ELSE LET env == Decaying(v.osc, v.osc_synced, t - v.attack)
       IN  [heard |-> env,
            v |-> [v EXCEPT !.osc = [env EXCEPT !.fallen = @ + 1], !.osc_synced = TRUE]]

ModStep(v, t) ==
  CASE v.mod = "exp"  -> [heard |-> <<v.lfo>>, v |-> [v EXCEPT !.lfo = @ + 1]]
    [] v.mod = "sine" -> [heard |-> <<v.lfo, v.norms>>,
                          v |-> [v EXCEPT !.lfo = @ + 1,
                                          !.norms = IF t % Period = Period - 1 THEN @ + 1 ELSE @]]
    [] OTHER -> LET state == Append(v.mod_state, v.draws + 1)
                IN  [heard |-> state,
                     v |-> [v EXCEPT !.draws = @ + 1, !.mod_state = state]]

NoiseEnvStep(v, t) ==
  LET env == Decaying(v.nenv, v.nenv_synced, t - v.noise_attack)
  IN  CASE v.noise_env = "linear" -> [heard |-> t, v |-> v]
        [] v.noise_env = "ring" /\ t < v.noise_attack -> [heard |-> "one", v |-> v]
        [] v.noise_env = "exp" /\ v.noise_attack > 0 /\ t < v.noise_attack ->
             [heard |-> v.nenv, v |-> [v EXCEPT !.nenv.risen = @ + 1]]
        [] OTHER -> [heard |-> env,
                     v |-> [v EXCEPT !.nenv = [env EXCEPT !.fallen = @ + 1],
                                     !.nenv_synced = TRUE]]

(* Sample i of a call, at time t of the hit.                               *)
SampleStep(v, t) ==
  LET osc   == OscStep(v, t)
      mod   == ModStep(osc.v, t)
      nenv  == NoiseEnvStep(mod.v, t)
      noise == Append(nenv.v.noise_filt, nenv.v.draws + 1)
      eq    == IF v.use_eq THEN v.eq_filt + 1 ELSE 0
  IN  [sample |-> [osc |-> osc.heard, mod |-> mod.heard, phase |-> v.steps + 1,
                   nenv |-> nenv.heard, noise |-> noise, eq |-> eq],
       v |-> [nenv.v EXCEPT !.draws = @ + 1, !.steps = @ + 1, !.noise_filt = noise,
                            !.eq_filt = eq]]

Rendered(v, n) ==
  FoldLeft(LAMBDA r, i : LET s == SampleStep(r.v, v.rendered + i - 1)
                         IN  [v |-> s.v, out |-> Append(r.out, s.sample)],
           [v |-> v, out |-> <<>>], [i \in 1..n |-> i])

-----------------------------------------------------------------------------
Init ==
  /\ voice = Zeroed /\ calls = 0 /\ played = <<>> /\ hit = NoHit

Called == calls < MaxCalls /\ calls' = calls + 1

Strike(h) ==
  /\ Called
  /\ voice' = VoiceInit(voice, h)
  /\ played' = <<>> /\ hit' = h

ResetVoice ==
  /\ Called
  /\ voice' = Reset(voice)
  /\ played' = <<>>
  /\ UNCHANGED hit

Render(capacity) ==
  /\ Called
  /\ LET n == IF voice.total - voice.rendered > capacity THEN capacity
              ELSE voice.total - voice.rendered
         r == Rendered(voice, n)
     IN  /\ voice' = [r.v EXCEPT !.rendered = @ + n]
         /\ played' = played \o r.out
  /\ UNCHANGED hit

Next ==
  \/ \E h \in Hits \cup {NoHit} : Strike(h)
  \/ ResetVoice
  \/ \E capacity \in Capacities : Render(capacity)

Spec == Init /\ [][Next]_synthVars

-----------------------------------------------------------------------------
(* What a hit sounds like: sample i, from the hit alone.                   *)
EnvelopeAt(attack, i) ==
  IF i < attack THEN [Envelope EXCEPT !.risen = i]
  ELSE [seed |-> Since(0), risen |-> 0, fallen |-> i - attack]

SampleAt(h, i) ==
  LET own == IF h.mod = "noise" THEN 1 ELSE 0     \* draws of the modulator itself
      noise(k) == (1 + own) * (k + 1) + own
  IN  [osc   |-> EnvelopeAt(h.attack, i),
       mod   |-> CASE h.mod = "exp"  -> <<i>>
                   [] h.mod = "sine" -> <<i, i \div Period>>
                   [] OTHER -> [k \in 1..(i + 2) |-> IF k = 1 THEN 1 ELSE 2 * (k - 1)],
       phase |-> i + 1,
       nenv  |-> CASE h.noise_env = "linear" -> i
                   [] h.noise_env = "ring" /\ i < h.noise_attack -> "one"
                   [] OTHER -> EnvelopeAt(h.noise_attack, i),
       noise |-> [k \in 1..(i + 1) |-> noise(k - 1)],
       eq    |-> IF h.eq THEN i + 1 ELSE 0]

(* However a hit is cut into calls, and whatever was struck, rendered and  *)
(* reset before, it sounds the same: nothing a sample depends on is lost   *)
(* between two calls or kept over a reset.                                 *)
ChunksDoNotShow ==
  \A i \in DOMAIN played : played[i] = SampleAt(hit, i - 1)

(* A hit that cannot be rendered leaves a silent voice, even on a voice    *)
(* that was in the middle of another; the rest is rendered to its length   *)
(* and the account of it is exact at every step.                           *)
HitsEndOnTime ==
  LET length == DurationToSamples(hit.rate, hit.seconds)
  IN  /\ Len(played) = voice.rendered
      /\ voice.rendered + Remaining(voice) = length

=============================================================================
