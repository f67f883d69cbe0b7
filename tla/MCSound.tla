------------------------------ MODULE MCSound ------------------------------
(***************************************************************************)
(* The parts that make sound or take it in: the import of drum patches,    *)
(* the drum voice, the speech voice, the PO-33's sample conversion and the *)
(* PO-35's analysis.  They share no state, so a behaviour is one of one of *)
(* them, and the variables of the others are parked.                       *)
(***************************************************************************)
EXTENDS Po33Audio, Sequences, SequencesExt

VARIABLES part,
          text, pass, line, hints, recognized, out, status,
          drum_voice, drum_calls, drum_played, hit,
          speech_voice, speech_calls, speech_played, speech, shot,
          sound, analysis, required, frame, reached

Parked == "parked"

(***************************************************************************)
(* Patches: lines the modes bear on, with each mode, lines that make no    *)
(* sense under some or all of them, and a line of another format: every    *)
(* text of up to four of these; every other field alone.                   *)
(***************************************************************************)
Named(key, word) == [key |-> key, word |-> word, number |-> 0, ms |-> FALSE]
Numbered(key, number, ms) == [key |-> key, word |-> "", number |-> number, ms |-> ms]

(* The names of the fields alone. *)
Format == INSTANCE Po32PatchImport WITH Texts <- {}

MCLines ==
  { Named("ModMode", w) : w \in {"Decay", "Sine", "Noise", "Ring"} }
    \cup { Named("NEnvMod", w) : w \in {"Exp", "Lin"} }
    \cup { Numbered("ModRate", 4, TRUE), Numbered("ModRate", 0, FALSE), Named("ModRate", "inf"),
           Numbered("ModAmt", 5, FALSE), Numbered("NEnvAtk", 2, TRUE), Numbered("NEnvDcy", 2, TRUE),
           Numbered("Pan", 1, FALSE) }

MCTexts ==
  SeqOf(MCLines, 4)
    \cup { <<Numbered(f, n, FALSE)>> : f \in DOMAIN Format!Curves, n \in {-1, 0, 3} }
    \cup { <<Named("OscWave", "Saw"), Named("NFilMod", "HP"), Named(f, "-inf")>> :
             f \in {"Level", "Mix"} }

Import == INSTANCE Po32PatchImport WITH Texts <- MCTexts

ASSUME Import!ImportAssumption

importVars == <<text, pass, line, hints, recognized, out, status>>

ImportParked ==
  /\ text = Parked /\ pass = Parked /\ line = Parked /\ hints = Parked
  /\ recognized = Parked /\ out = Parked /\ status = Parked

(***************************************************************************)
(* Drums: every source with every envelope, risen before, with and after   *)
(* the end of the attack; hits no samples come of.                         *)
(***************************************************************************)
Struck(rate, seconds, attack, noise_attack, mod, noise_env, eq) ==
  [rate |-> rate, seconds |-> seconds, attack |-> attack, noise_attack |-> noise_attack,
   mod |-> mod, noise_env |-> noise_env, eq |-> eq]

MCHits ==
  { Struck(1, 5, a, b, m, e, m = "sine") :
      a \in {0, 2}, b \in {0, 3}, m \in {"exp", "sine", "noise"},
      e \in {"exp", "linear", "ring"} }
  \cup { Struck(0, 5, 1, 1, "noise", "exp", TRUE), Struck(1, 9, 1, 1, "exp", "exp", TRUE),
         Struck(1, 0, 1, 1, "exp", "exp", TRUE) }

Drum == INSTANCE Po32Synth WITH
  Hits <- MCHits, Limit <- 8, Period <- 2, Capacities <- {0, 1, 3, 9}, MaxCalls <- 6,
  voice <- drum_voice, calls <- drum_calls, played <- drum_played

ASSUME Drum!SynthAssumption

drumVars == <<drum_voice, drum_calls, drum_played, hit>>

DrumParked ==
  drum_voice = Parked /\ drum_calls = Parked /\ drum_played = Parked /\ hit = Parked

(***************************************************************************)
(* Speech: records of one and two samples (boundaries at thirds), of two   *)
(* and of four; a record that fails on its second sample, and one too      *)
(* short to; what is refused: no bank, no such rate, half a record, too    *)
(* long.                                                                   *)
(***************************************************************************)
Said(bank, seed, records, fps) ==
  [bank |-> bank, seed |-> seed, records |-> records, ragged |-> FALSE, fps |-> fps]

A == [increment |-> 1, bad |-> 0]
B == [increment |-> 3, bad |-> 0]
Loud == [increment |-> 2, bad |-> 2]

MCSpeeches ==
  { Said("low", 0, <<A, B, A, B>>, 3), Said("low", 7, <<B, A>>, 2),
    Said("high", 7, <<A, B, B>>, 3), Said("high", 0, <<A, B>>, 2),
    Said("low", 0, <<Loud, Loud, A>>, 3), Said("low", 0, <<>>, 3),
    Said("none", 0, <<A>>, 3), Said("low", 0, <<A>>, 5), Said("high", 0, <<A, A, B, B>>, 3),
    [Said("low", 0, <<A>>, 3) EXCEPT !.ragged = TRUE] }

Speech == INSTANCE Po35Synth WITH
  Speeches <- MCSpeeches, BankRate <- [low |-> 4, high |-> 8, none |-> 0],
  Order <- [low |-> 2, high |-> 3, none |-> 1], FrameRates <- {2, 3}, Turn <- 5,
  SizeMax <- 10, Capacities <- {0, 1, 3, 9}, MaxCalls <- 5,
  voice <- speech_voice, called <- speech_calls, played <- speech_played

ASSUME Speech!SpeechAssumption

speechVars == <<speech_voice, speech_calls, speech_played, speech, shot>>

SpeechParked ==
  /\ speech_voice = Parked /\ speech_calls = Parked /\ speech_played = Parked
  /\ speech = Parked /\ shot = Parked

(***************************************************************************)
(* Conversion: the code's filter of eight taps and a clock of 5.5, rates   *)
(* from 2 to 40: at most 11/4 samples of one and 40/5.5 to one, which are  *)
(* the code's 2.9 and 8.2.  Sounds up to the largest in memory, sizes      *)
(* beyond half of it, and counts that no memory holds, whose sizes would   *)
(* wrap.                                                                   *)
(***************************************************************************)
MCCalls ==
  [count : 0..130, rate : {1, 2, 3, 5, 6, 7, 12, 40, 41}, capacity : {0}, bad : {-1}]
    \cup [count : {1, 2, 12, 13, 45, 46, 63}, rate : {2, 3, 5, 6, 7, 12, 40}, capacity : {15, 127},
          bad : {-1}]
    \cup [count : {0, 5, 6}, rate : {3, 6, 12}, capacity : {60}, bad : {5}]

AudioParked ==
  call = Parked /\ stage = Parked /\ needed = Parked /\ made = Parked /\ heard = Parked

(***************************************************************************)
(* Analysis: sounds around one record and one second, with and without     *)
(* room, a bad sample at either end, arguments that are refused, the       *)
(* longest speech at the highest record rate and one sample more.          *)
(***************************************************************************)
MCRates == {8000, 11025, 44100, 192000}

MCSounds ==
  UNION { [count : {0, 1, r \div 20, r \div 20 + 1, r - 1, r, r + 1}, rate : {r},
           fps : {20, 40, 60, 80}, capacity : {20, 81}, bad : {-1}] : r \in MCRates }
    \cup [count : {400, 401}, rate : {8000}, fps : {20, 30}, capacity : {9}, bad : {0, 400}]
    \cup [count : {400}, rate : {7999, 192001}, fps : {20}, capacity : {9}, bad : {-1}]
    \cup [count : {6553500, 6553501}, rate : {8000}, fps : {80}, capacity : {65535}, bad : {-1}]

Analysis == INSTANCE Po35Analysis WITH
  Calls <- MCSounds, MaxRecords <- 65535, call <- sound, stage <- analysis

ASSUME Analysis!AnalysisAssumption

analysisVars == <<sound, analysis, required, frame, reached>>

AnalysisParked ==
  sound = Parked /\ analysis = Parked /\ required = Parked /\ frame = Parked /\ reached = Parked

-----------------------------------------------------------------------------
soundVars == <<part, importVars, drumVars, speechVars, audioVars, analysisVars>>

SoundInit ==
  \/ /\ part = "import" /\ Import!Init
     /\ DrumParked /\ SpeechParked /\ AudioParked /\ AnalysisParked
  \/ /\ part = "drum" /\ Drum!Init
     /\ ImportParked /\ SpeechParked /\ AudioParked /\ AnalysisParked
  \/ /\ part = "speech" /\ Speech!Init
     /\ ImportParked /\ DrumParked /\ AudioParked /\ AnalysisParked
  \/ /\ part = "conversion" /\ Init
     /\ ImportParked /\ DrumParked /\ SpeechParked /\ AnalysisParked
  \/ /\ part = "analysis" /\ Analysis!Init
     /\ ImportParked /\ DrumParked /\ SpeechParked /\ AudioParked

ImportNext ==
  part = "import" /\ Import!Next
    /\ UNCHANGED <<part, drumVars, speechVars, audioVars, analysisVars>>
DrumNext ==
  part = "drum" /\ Drum!Next
    /\ UNCHANGED <<part, importVars, speechVars, audioVars, analysisVars>>
SpeechNext ==
  part = "speech" /\ Speech!Next
    /\ UNCHANGED <<part, importVars, drumVars, audioVars, analysisVars>>
ConversionNext ==
  part = "conversion" /\ Next
    /\ UNCHANGED <<part, importVars, drumVars, speechVars, analysisVars>>
AnalysisNext ==
  part = "analysis" /\ Analysis!Next
    /\ UNCHANGED <<part, importVars, drumVars, speechVars, audioVars>>

SoundNext == ImportNext \/ DrumNext \/ SpeechNext \/ ConversionNext \/ AnalysisNext

SoundSpec == SoundInit /\ [][SoundNext]_soundVars /\ WF_soundVars(ImportNext)

(* A text is taken when all of it makes sense, the patch then is what it   *)
(* says wherever its mode lines stand, and a refused text leaves zeros.    *)
ImportIsFaithful == part = "import" => Import!PatchIsWhatItSays /\ Import!RefusedIsZero

(* A text is read to its end or to its first line that makes no sense.     *)
ImportEnds == Import!ReadingEnds

(* A hit and a speech sound the same however they are cut into calls and   *)
(* whatever the voice did before; a hit lasts exactly its length, the      *)
(* records of a speech end on the samples nearest to their times, and a    *)
(* sample that is no number ends it.                                       *)
ChunksDoNotShow ==
  /\ part = "drum" => Drum!ChunksDoNotShow /\ Drum!HitsEndOnTime
  /\ part = "speech" =>
       Speech!ChunksDoNotShow /\ Speech!SpeechEndsOnTime /\ Speech!FailureStands

(* A conversion is of the size that was promised, hears every sample and   *)
(* is whole or nothing.                                                    *)
ConversionHearsAll ==
  part = "conversion" => SizeIsTheSound /\ EverySampleIsHeard /\ WholeOrNothing

(* The records of a sound span it, each within the window it is read from, *)
(* and are all there or none.                                              *)
AnalysisSpansTheSound ==
  part = "analysis" =>
    Analysis!RecordsSpanTheSound /\ Analysis!RecordsFitTheWindow /\ Analysis!WholeOrNothing

=============================================================================
