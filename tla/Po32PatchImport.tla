-------------------------- MODULE Po32PatchImport --------------------------
(***************************************************************************)
(* Patches from .mtdrum text (src/core/src/po32_patch_import.c).  A line   *)
(* names a field and a value with a unit, but what some values mean hangs  *)
(* on two mode lines that may stand anywhere in the text: it is read       *)
(* twice, the first time for the modes alone.                              *)
(*                                                                         *)
(* A line is its key and its value: a word, or a number with or without    *)
(* "ms".  The curves from units to parameters are left out: a parameter is *)
(* the curve's name and the number it was given.                           *)
(***************************************************************************)
EXTENDS Integers, Sequences, FiniteSets

CONSTANT Texts         \* the texts read: sequences of lines

Words == [OscWave |-> <<"Sine", "Triangle", "Saw">>, ModMode |-> <<"Decay", "Sine", "Noise">>,
          NFilMod |-> <<"LP", "BP", "HP">>, NEnvMod |-> <<"Exp", "Lin", "Mod">>]

Curves ==
  [OscFreq |-> "hz", OscAtk |-> "attack", OscDcy |-> "decay", ModRate |-> "ms", ModAmt |-> "amount",
   NFilFrq |-> "hz", NFilQ |-> "q", NEnvAtk |-> "attack", NEnvDcy |-> "decay", Mix |-> "mix",
   DistAmt |-> "percent", EQFreq |-> "hz", EQGain |-> "gain", Level |-> "level",
   OscVel |-> "velocity", NVel |-> "velocity", ModVel |-> "velocity"]

Positive == {"OscFreq", "OscDcy", "NFilFrq", "NFilQ", "NEnvDcy", "EQFreq"}

Modes == {"ModMode", "NEnvMod"}
Fields == DOMAIN Words \cup DOMAIN Curves

Line == [key : STRING, word : STRING, number : Int, ms : BOOLEAN]

ImportAssumption == \A text \in Texts : \A i \in DOMAIN text : text[i] \in Line

VARIABLES text, pass, line,
          hints,        \* mod_mode_hint, nenv_mode_hint: 0 until a mode line was read
          recognized,
          out,          \* the caller's po32_patch_params_t
          status        \* "called", "reading", "ok", "parse"

importVars == <<text, pass, line, hints, recognized, out, status>>

Zero == <<"word", 0>>
ZeroPatch == [f \in Fields |-> Zero]
NoHints == [ModMode |-> 0, NEnvMod |-> 0]

-----------------------------------------------------------------------------
(* What a line makes of its field, {} when it makes no sense.              *)
WordValue(l) == { <<"word", i - 1>> : i \in { i \in 1..3 : Words[l.key][i] = l.word } }

IsNumber(l) == l.word = ""

(* A rate is a time, a frequency of the sine, or one of the noise.         *)
ModRateValue(l, hint) ==
  CASE (l.ms \/ hint = 1) /\ l.word = "inf"        -> {Zero}
    [] (l.ms \/ hint = 1) /\ IsNumber(l)           ->
         IF l.number > 0 THEN {<<"ms", l.number>>} ELSE {}
    [] ~(l.ms \/ hint = 1) /\ IsNumber(l) /\ l.number >= 0 ->
         {IF hint = 2 THEN <<"sine hz", l.number>>
          ELSE IF l.number = 0 THEN Zero ELSE <<"noise hz", l.number>>}
    [] OTHER -> {}

(* The times of a linear envelope are two thirds of those of the others:   *)
(* the number is counted in halves.                                        *)
Halves(l, h) ==
  IF l.key \in {"NEnvAtk", "NEnvDcy"} /\ h.NEnvMod = 2 THEN 3 * l.number ELSE 2 * l.number

NumberValue(l, h) ==
  IF l.key = "Level" /\ l.word = "-inf" THEN {Zero}
  ELSE IF ~IsNumber(l) \/ (l.key \in Positive /\ l.number <= 0) THEN {}
  ELSE {<<IF l.key = "ModAmt" /\ h.ModMode > 1 THEN "amount of a wave" ELSE Curves[l.key],
          Halves(l, h)>>}

Value(l, h) ==
  IF l.key \in DOMAIN Words THEN WordValue(l)
  ELSE IF l.key = "ModRate" THEN ModRateValue(l, h.ModMode)
  ELSE NumberValue(l, h)

(* Mutant: the text is read once.                                          *)
IsForOnce(p, key) == p = 0

(* The modes are read in the first pass, the rest in the second.           *)
IsFor(p, key) == (p = 0) = (key \in Modes)

PatchOnFailure(patch) == ZeroPatch

-----------------------------------------------------------------------------
Init ==
  /\ text \in Texts /\ pass = 0 /\ line = 1
  /\ hints = NoHints /\ recognized = 0
  /\ out = [f \in Fields |-> <<"anything", 0>>]
  /\ status = "called"

Begin ==
  /\ status = "called" /\ status' = "reading"
  /\ out' = ZeroPatch
  /\ UNCHANGED <<text, pass, line, hints, recognized>>

(* Mutant: a line that is passed over is not left.                         *)
SkipStays ==
  /\ status = "reading" /\ line <= Len(text)
  /\ ~IsFor(pass, text[line].key) \/ text[line].key \notin Fields
  /\ UNCHANGED importVars

Skip ==
  /\ status = "reading" /\ line <= Len(text)
  /\ ~IsFor(pass, text[line].key) \/ text[line].key \notin Fields
  /\ line' = line + 1
  /\ UNCHANGED <<text, pass, hints, recognized, out, status>>

ParseLine ==
  /\ status = "reading" /\ line <= Len(text)
  /\ IsFor(pass, text[line].key) /\ text[line].key \in Fields
  /\ LET l == text[line]
     IN  /\ recognized' = recognized + 1
         /\ \/ /\ Value(l, hints) = {}
               /\ status' = "parse" /\ out' = PatchOnFailure(out)
               /\ UNCHANGED <<line, hints>>
            \/ \E v \in Value(l, hints) :
                 /\ out' = [out EXCEPT ![l.key] = v]
                 /\ hints' = IF l.key \in Modes THEN [hints EXCEPT ![l.key] = v[2] + 1] ELSE hints
                 /\ line' = line + 1 /\ UNCHANGED status
  /\ UNCHANGED <<text, pass>>

SecondPass ==
  /\ status = "reading" /\ line > Len(text) /\ pass = 0
  /\ pass' = 1 /\ line' = 1
  /\ UNCHANGED <<text, hints, recognized, out, status>>

Finish ==
  /\ status = "reading" /\ line > Len(text) /\ pass = 1
  /\ status' = IF recognized = 0 THEN "parse" ELSE "ok"
  /\ out' = IF recognized = 0 THEN ZeroPatch ELSE out
  /\ UNCHANGED <<text, pass, line, hints, recognized>>

Next == Begin \/ Skip \/ ParseLine \/ SecondPass \/ Finish

Spec == Init /\ [][Next]_importVars /\ WF_importVars(Next)

-----------------------------------------------------------------------------
(* What a text says: each field the last line that names it, under the     *)
(* modes of the whole text.  Where lines stand is not asked, but for those *)
(* of one key.                                                             *)
LinesOf(t, key) == { i \in DOMAIN t : t[i].key = key }
LastOf(t, key) == t[CHOOSE i \in LinesOf(t, key) : \A j \in LinesOf(t, key) : j <= i]

ModeOf(t, key) ==
  IF LinesOf(t, key) = {} THEN 0
  ELSE CHOOSE i \in 1..3 : Words[key][i] = LastOf(t, key).word

ModesMakeSense(t) ==
  \A i \in DOMAIN t : t[i].key \in Modes => \E j \in 1..3 : Words[t[i].key][j] = t[i].word

SaidModes(t) == [key \in Modes |-> ModeOf(t, key)]

MakesSense(t) ==
  /\ ModesMakeSense(t)
  /\ \E i \in DOMAIN t : t[i].key \in Fields
  /\ \A i \in DOMAIN t : t[i].key \in Fields => Value(t[i], SaidModes(t)) # {}

Said(t) ==
  [f \in Fields |-> IF LinesOf(t, f) = {} THEN Zero
                    ELSE CHOOSE v \in Value(LastOf(t, f), SaidModes(t)) : TRUE]

(* A text is taken exactly when all of it makes sense, and then the patch  *)
(* is what it says wherever its mode lines stand, with nothing of what was *)
(* in the struct before.                                                   *)
PatchIsWhatItSays ==
  /\ status = "ok" => MakesSense(text) /\ out = Said(text)
  /\ status = "parse" => ~MakesSense(text)

(* A text that is refused leaves a patch of zeros, not half of itself.     *)
RefusedIsZero == status = "parse" => out = ZeroPatch

(* A text is read to its end or to its first line that makes no sense.     *)
ReadingEnds == status = "called" ~> status \in {"ok", "parse"}

=============================================================================
