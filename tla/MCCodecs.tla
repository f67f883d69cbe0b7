------------------------------ MODULE MCCodecs ------------------------------
(***************************************************************************)
(* The codecs of what packets carry: the pattern with its editor, the      *)
(* other typed PO-32 packets, the payloads of the PO-33 and the PO-35, and *)
(* the PO-33's sample bytes.  They share no state, so a behaviour is one   *)
(* of one of them, and the variables of the others are parked.             *)
(***************************************************************************)
EXTENDS PoPayloads, SequencesExt

VARIABLES part,
          pattern_number, pattern_steps, morph_lanes, reserved, accent_bits, pattern_status,
          tag, received, packet, packet_status, payload, edits,
          sample

Parked == "parked"

(***************************************************************************)
(* Patterns.  Triggers: empty; inactive but with other bits up; refused    *)
(* for bit 6; the last instrument of its lane, accented.  Morph pairs,     *)
(* reserved bytes and mask with every byte different.                      *)
(***************************************************************************)
MCTriggers == {0, 176, 65, 191}

MCPatterns ==
  { <<7, a, 18, 1, 2, 3, 4, c, 0, 5, 6, 0, 0, 8, 9, mask, 0>> :
      a \in MCTriggers, c \in MCTriggers, mask \in 0..3 }

Pattern == INSTANCE Po32PatternWire WITH
  StepCount <- 2, LaneCount <- 2, Numbers <- {3}, FillRates <- {15}, Payloads <- MCPatterns,
  steps <- pattern_steps, status <- pattern_status

ASSUME Pattern!PayloadsAssumption

patternVars ==
  <<pattern_number, pattern_steps, morph_lanes, reserved, accent_bits, pattern_status>>

PatternParked ==
  /\ pattern_number = Parked /\ pattern_steps = Parked /\ morph_lanes = Parked
  /\ reserved = Parked /\ accent_bits = Parked /\ pattern_status = Parked

(***************************************************************************)
(* Typed packets: payloads of every tag, sound ones, ones with bits nobody *)
(* looks at, and chains that are full, too long, cut short and followed by *)
(* other bytes.                                                            *)
(***************************************************************************)
MCPreamble == <<20, 25, 157, 207>>

Frames == INSTANCE Po32Frame WITH Preamble <- MCPreamble

Arrived(as, data) == [tag |-> as, payload |-> data]

Ramp(n, from) == [i \in 1..n |-> (from + 7 * i) % 256]

StateOf(count, after) == Ramp(34, 3) \o <<count>> \o Ramp(after, 50)

MCArrivals ==
  {Arrived(Frames!TagPatch, <<first>> \o Ramp(42, 200)) : first \in {16, 47, 64, 0}}
  \cup {Arrived(Frames!TagKnob, <<first, 255>>) : first \in {0, 31, 40, 120}}
  \cup {Arrived(Frames!TagReset, <<first>>) : first \in {48, 63, 5}}
  \cup {Arrived(Frames!TagState, StateOf(0, 0)), Arrived(Frames!TagState, StateOf(16, 16)),
        Arrived(Frames!TagState, StateOf(17, 17)), Arrived(Frames!TagState, StateOf(3, 2)),
        Arrived(Frames!TagState, StateOf(2, 35))}
  \cup {Arrived(Frames!TagErase, <<1>>)}

MCParams == {-1, 513, 65536}

MCChains == {<<>>, <<9, 9, 4>>, Ramp(16, 1), Ramp(17, 1)}

Typed == INSTANCE Po32Packets WITH
  ParamCount <- 21, PairCount <- 16, StepCount <- 16, Instruments <- {1, 16},
  Params <- MCParams,
  Bytes <- {0, 255}, Chains <- MCChains, Preamble <- MCPreamble, Arrivals <- MCArrivals,
  MaxEdits <- 2, status <- packet_status

ASSUME Typed!PacketsAssumption

typedVars == <<tag, received, packet, packet_status, payload, edits>>

TypedParked ==
  /\ tag = Parked /\ received = Parked /\ packet = Parked /\ packet_status = Parked
  /\ payload = Parked /\ edits = Parked

(***************************************************************************)
(* Stored payloads: of the right length, with low and with high octets; a  *)
(* little too long and too short; settings with no chain, a short one, one *)
(* that fills the packet, and one whose length is not what its count says. *)
(***************************************************************************)
Filled(n, seed) == [i \in 1..n |-> (37 * i + seed) % 128]
High(n)         == [i \in 1..n |-> 255 - (i % 100)]

WithChain(n) == [Filled(156 + n, n) EXCEPT ![156] = n]

MCTapes ==
  [k \in DOMAIN Bytes |->
     CASE k = "settings35" ->
            {WithChain(n) : n \in {0, 3, 99}}
              \cup {Filled(156, 3), [WithChain(3) EXCEPT ![156] = 4], Filled(155, 1),
                    [Filled(256, 1) EXCEPT ![156] = 100]}
       [] k = "settings33" ->
            {[Filled(510, n) EXCEPT ![384] = n] : n \in {0, 128, 129}} \cup {Filled(511, 1)}
       [] k = "sound33" -> {Filled(9, 1), Filled(8, 1)}
       [] OTHER -> {Filled(Bytes[k], 1), High(Bytes[k]),
                    Filled(Bytes[k] + 1, 1), Filled(Bytes[k] - 1, 1)}]

Values(k, f) ==
  CASE k \in {"event35", "control33", "fx33"} -> {0, 15, 16}
    [] Layout[k][f].as = "signed" ->
         LET half == (256 ^ Layout[k][f].width) \div 2 IN {-half, -1, half - 1}
    [] Layout[k][f].as \in {"big", "little"} -> {256, 65535}
    [] f = "chain_count"  -> {1, 99, 100}
    [] f = "chain_length" -> {128, 129}
    [] OTHER -> {0, 255}

SomeCells(f) == CellsOf(f) \cap {1, Cardinality(CellsOf(f)) - 1}

MCEdits ==
  UNION { UNION { { [field |-> f, cell |-> c, value |-> v] :
                      c \in SomeCells(Layout[k][f]), v \in Values(k, f) }
                  : f \in DOMAIN Layout[k] }
          : k \in DOMAIN Layout }

MCKinds == DOMAIN Layout

MCRoots == {-32768, -1, 0, 258, 32767}

StoredParked ==
  /\ kind = Parked /\ fields = Parked /\ status = Parked /\ out = Parked
  /\ steps = Parked /\ tape = Parked /\ touched = Parked /\ root = Parked

(***************************************************************************)
(* Sample bytes: of every 16-bit sample.                                   *)
(***************************************************************************)
Samples == INSTANCE Po33Samples WITH Lowest <- -32768, Highest <- 32767, Stride <- 256

ASSUME Samples!SamplesAssumption

SamplesParked == sample = Parked

-----------------------------------------------------------------------------
codecVars == <<part, patternVars, typedVars, payloadVars, sample>>

CodecsInit ==
  \/ part = "pattern" /\ Pattern!PatternInit /\ TypedParked /\ StoredParked /\ SamplesParked
  \/ part = "typed" /\ Typed!Init /\ PatternParked /\ StoredParked /\ SamplesParked
  \/ part = "stored" /\ Init /\ PatternParked /\ TypedParked /\ SamplesParked
  \/ part = "samples" /\ Samples!Init /\ PatternParked /\ TypedParked /\ StoredParked

CodecsNext ==
  \/ part = "pattern" /\ Pattern!WireNext /\ UNCHANGED <<part, typedVars, payloadVars, sample>>
  \/ part = "typed" /\ Typed!Next /\ UNCHANGED <<part, patternVars, payloadVars, sample>>
  \/ part = "stored" /\ Next /\ UNCHANGED <<part, patternVars, typedVars, sample>>
  \/ part = "samples" /\ Samples!Next /\ UNCHANGED <<part, patternVars, typedVars, payloadVars>>

CodecsSpec == CodecsInit /\ [][CodecsNext]_codecVars

(* Whatever was loaded and however it was edited, a pattern encodes and    *)
(* decodes to itself, and the bytes of its triggers show the controls they *)
(* stand for.                                                              *)
PatternsReturn == part = "pattern" => Pattern!RoundTrip /\ Pattern!ControlsShowTriggers

(* Whatever a caller makes of a typed packet, what is encoded passes the   *)
(* parser and decodes to the packet; one nobody edited is sent as it came. *)
PacketsReturn == part = "typed" => Typed!RoundTrip /\ Typed!SentAsItCame

(* What a payload decoder took its encoder writes again, different where   *)
(* fields were set and nowhere else, and the decoder reads it back.        *)
PayloadsReturn ==
  part = "stored" =>
    TakenCanBeWritten /\ RootIsKept /\ OnlyEditsShow /\ WrittenIsRead

(* The byte of a sample stands for a nearest level, and decoded and        *)
(* encoded again stays what it is.                                         *)
SampleBytesSettle == part = "samples" => Samples!BytesSettle /\ Samples!LevelIsNearest

=============================================================================
