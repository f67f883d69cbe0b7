----------------------------- MODULE PoPayloads -----------------------------
(***************************************************************************)
(* The typed payloads of the PO-33 (src/core/src/po33_data.c) and the      *)
(* PO-35 (src/core/src/po35.c).  Each pair of a decoder and an encoder is  *)
(* a layout: a table from the fields of the C struct to the octets of the  *)
(* payload.  A caller decodes one payload after another into one struct,   *)
(* sets fields of it, and encodes it.                                      *)
(***************************************************************************)
EXTENDS Integers, Sequences, Functions, FiniteSetsExt

CONSTANTS Kinds,       \* the payload types a behaviour may be about
          Tapes,       \* Tapes[kind]: the payloads that may be received
          Stale,       \* what memory holds before anything is written to it
          Edits,       \* the [field, cell, value] a caller may set
          Roots,       \* the roots po35_speech_header_set_root may be given
          MaxSteps     \* the calls of a behaviour

VARIABLES kind,        \* the payload type
          fields,      \* the struct: fields[f][c], the cells of each field
          status,      \* what the last call returned
          out,         \* the octets the last encoder wrote
          steps,
          tape,        \* history: the payload last decoded
          touched,     \* history: the cells set since
          root         \* history: the root set since, or NoRoot

payloadVars == <<kind, fields, status, out, steps, tape, touched, root>>

NoTape == <<>>
NoRoot == 32768
ChainMax35 == 255 - 156
ChainMax33 == 128

(***************************************************************************)
(* A field has rows of octets, one every stride octets from at on.  Raw    *)
(* octets are a cell each; a number is a cell of width octets; a nibble    *)
(* is a cell, in the high or the low half of its octet or in both in turn. *)
(***************************************************************************)
Field(as, at, rows, stride, width) ==
  [as |-> as, at |-> at, rows |-> rows, stride |-> stride, width |-> width]

Octet(at) == Field("octets", at, 1, 1, 1)
Octets(at, n) == Field("octets", at, 1, n, n)
(* Mutant: the pairs are taken for two arrays that follow each other.      *)
ColumnDense(at, n) == Field("octets", at, n, 1, 1)
Column(at, n) == Field("octets", at, n, 2, 1)
Nibble(as, at) == Field(as, at, 1, 1, 1)

Table7BE7 == [ index |-> Octet(0), data_raw |-> Octets(1, 8) ]
Table1C7F == [ index |-> Octet(0), data_raw |-> Octets(1, 12) ]
SpeechHeader ==
  [ slot |-> Octet(0), record_count |-> Field("big", 1, 1, 2, 2),
    records_per_second |-> Octet(3), metadata |-> Octets(4, 5) ]
SpeechEvent ==
  [ slot_raw |-> Nibble("high", 0), code_raw |-> Nibble("low", 0),
    note_raw |-> Nibble("high", 1), gate_raw |-> Nibble("low", 1) ]
SpeechRecord ==
  [ pitch |-> Field("signed", 0, 1, 2, 2), gain |-> Octet(2), unvoiced |-> Octet(3),
    low_lar_raw |-> Field("signed", 4, 10, 1, 1), high_lar_raw |-> Field("signed", 14, 30, 1, 1) ]
Settings35 ==
  [ parameters |-> Field("octets", 0, 15, 8, 4), state_raw |-> Field("octets", 4, 15, 8, 4),
    pitch |-> Column(120, 16), morph |-> Column(121, 16), tempo |-> Octet(152),
    remembered_raw |-> Octets(153, 2), chain_count |-> Octet(155),
    chain |-> Octets(156, ChainMax35) ]
Pattern35 ==
  [ pattern_index |-> Octet(0), speech_events |-> Octets(1, 16),
    speech_secondary_raw |-> Octets(17, 16), speech_parameters |-> Octets(33, 64),
    drum_events |-> Octets(97, 16), pitch |-> Column(113, 16), morph |-> Column(114, 16),
    index_pairs_raw |-> Octets(145, 16), step_state_raw |-> Octets(161, 16),
    tail_raw |-> Octets(177, 4), derived_mask |-> Field("little", 181, 1, 2, 2) ]
Control33 == [ note_raw |-> Nibble("low", 0), timing_raw |-> Nibble("high", 0) ]
Fx33      == [ code_raw |-> Field("nibbles", 0, 8, 1, 1) ]
Settings33 ==
  [ prefix_raw |-> Octets(0, 255), chain |-> Octets(255, ChainMax33),
    chain_length |-> Octet(383), tempo |-> Octet(384), swing_raw |-> Octet(385),
    state_raw |-> Octets(386, 16), suffix_raw |-> Octets(402, 108) ]
Pattern33 ==
  [ event_raw |-> Octets(0, 3 * 256), control_raw |-> Octets(768, 256),
    footer_raw |-> Octets(1024, 8) ]
SoundHeader33 ==
  [ range_start_raw |-> Field("little", 0, 1, 4, 4), range_end_raw |-> Field("little", 4, 1, 4, 4),
    source_selector |-> Octet(8) ]

Layout ==
  [ table7be7 |-> Table7BE7, table1c7f |-> Table1C7F, header35 |-> SpeechHeader,
    event35 |-> SpeechEvent, record35 |-> SpeechRecord, settings35 |-> Settings35,
    pattern35 |-> Pattern35, control33 |-> Control33, fx33 |-> Fx33,
    settings33 |-> Settings33, pattern33 |-> Pattern33, sound33 |-> SoundHeader33 ]

Bytes ==   \* of settings35: without its chain
  [ table7be7 |-> 9, table1c7f |-> 13, header35 |-> 9, event35 |-> 2, record35 |-> 44,
    settings35 |-> 156, pattern35 |-> 183, control33 |-> 1, fx33 |-> 8, settings33 |-> 510,
    pattern33 |-> 1032, sound33 |-> 9 ]

CellsOf(f) ==
  CASE f.as = "octets"  -> 0..(f.rows * f.width - 1)
    [] f.as = "nibbles" -> 0..(2 * f.rows - 1)
    [] OTHER            -> 0..(f.rows - 1)

Covers(f, a) ==
  /\ a >= f.at
  /\ (a - f.at) \div f.stride < f.rows
  /\ (a - f.at) % f.stride < f.width

CellsAt(f, a) ==   \* the cells that the octet at a is part of
  LET row == (a - f.at) \div f.stride
  IN  CASE f.as = "octets"  -> {row * f.width + ((a - f.at) % f.stride)}
        [] f.as = "nibbles" -> {2 * row, 2 * row + 1}
        [] OTHER            -> {row}

(* The half or the octet of a cell's value v that is at a.                 *)
Share(f, c, v, a) ==
  LET j == (a - f.at) % f.stride
  IN  CASE f.as = "octets"  -> v
        [] f.as = "high"    -> 16 * v
        [] f.as = "low"     -> v
        [] f.as = "nibbles" -> IF c % 2 = 0 THEN 16 * v ELSE v
        [] f.as = "big"     -> (v \div 256 ^ (f.width - 1 - j)) % 256
        [] OTHER            -> (v \div 256 ^ j) % 256

Signed(n, width) == IF 2 * n < 256 ^ width THEN n ELSE n - 256 ^ width

Cell(f, c, data) ==
  LET row == f.at + f.stride * (IF f.as = "octets" THEN c \div f.width
                                ELSE IF f.as = "nibbles" THEN c \div 2 ELSE c)
      le  == MapThenSumSet(LAMBDA j : data[row + j] * 256 ^ j, 0..(f.width - 1))
  IN  CASE f.as = "octets"  -> data[row + (c % f.width)]
        [] f.as = "high"    -> data[row] \div 16
        [] f.as = "low"     -> data[row] % 16
        [] f.as = "nibbles" -> IF c % 2 = 0 THEN data[row] \div 16 ELSE data[row] % 16
        [] f.as = "big"     -> 256 * data[row] + data[row + 1]
        [] f.as = "signed"  -> Signed(le, f.width)
        [] OTHER            -> le

(***************************************************************************)
(* The decoders and the encoders.  Only PO-35 settings have a length of    *)
(* their own, in a payload and in memory.                                  *)
(***************************************************************************)
ReceivedBytes(k, data) ==
  IF k = "settings35" /\ Len(data) >= Bytes[k] THEN Bytes[k] + data[156] ELSE Bytes[k]

WrittenBytes(k, s) == IF k = "settings35" THEN Bytes[k] + s.chain_count[0] ELSE Bytes[k]

DecodeStatus(k, data) ==
  CASE Len(data) # ReceivedBytes(k, data) \/ (k = "settings35" /\ Len(data) > 255)
         -> IF k \in {"settings33", "pattern33", "sound33", "fx33"} THEN "frame" ELSE "parse"
    [] k = "settings33" /\ data[384] > ChainMax33 -> "range"
    [] OTHER -> "ok"

(* The cells a payload of n octets has; the decoder leaves the others be.  *)
Decoded(k, s, data) ==
  [f \in DOMAIN s |->
     [c \in DOMAIN s[f] |->
        IF k = "settings35" /\ f = "chain" /\ 156 + c >= Len(data)
        THEN s[f][c]
        ELSE Cell(Layout[k][f], c, [a \in 0..(Len(data) - 1) |-> data[a + 1]])]]

(* The fields of a packed octet are nibbles, and an encoder tests them.    *)
TooWide(k, s) ==
  /\ k \in {"event35", "control33", "fx33"}
  /\ \E f \in DOMAIN s : \E c \in DOMAIN s[f] : s[f][c] > 15

EncodeStatus(k, s, capacity) ==
  CASE k = "settings35" /\ s.chain_count[0] > ChainMax35 -> "range"
    [] capacity < WrittenBytes(k, s) -> "buffer"
    [] k = "settings33" /\ s.chain_length[0] > ChainMax33 -> "range"
    [] TooWide(k, s) -> "range"
    [] OTHER -> "ok"

Encoded(k, s) ==
  [i \in 1..WrittenBytes(k, s) |->
     LET a    == i - 1
         here == {f \in DOMAIN s : Covers(Layout[k][f], a)}
     IN  IF here = {} THEN Stale
         ELSE MapThenSumSet(
                LAMBDA f : MapThenSumSet(LAMBDA c : Share(Layout[k][f], c, s[f][c], a),
                                         CellsAt(Layout[k][f], a)), here)]

(***************************************************************************)
(* The root is a view of two octets of a speech header's metadata.         *)
(***************************************************************************)
GetRoot(s) ==
  LET raw == 256 * s.metadata[2] + s.metadata[3]
  IN  IF raw <= 32767 THEN raw ELSE raw - 65536

WithRoot(s, r) ==
  [s EXCEPT !.metadata[2] = (r % 65536) \div 256, !.metadata[3] = r % 256]

-----------------------------------------------------------------------------
Init ==
  /\ kind \in Kinds
  /\ fields = [f \in DOMAIN Layout[kind] |-> [c \in CellsOf(Layout[kind][f]) |-> Stale]]
  /\ status = "ok" /\ out = NoTape /\ steps = 0
  /\ tape = NoTape /\ touched = {} /\ root = NoRoot

Stepped == steps < MaxSteps /\ steps' = steps + 1 /\ UNCHANGED kind

Decode(data) ==
  /\ Stepped
  /\ status' = DecodeStatus(kind, data)
  /\ out' = NoTape
  /\ IF status' = "ok"
     THEN /\ fields' = Decoded(kind, fields, data)
          /\ tape' = data /\ touched' = {} /\ root' = NoRoot
     ELSE UNCHANGED <<fields, tape, touched, root>>

SetCell(e) ==
  /\ Stepped
  /\ tape # NoTape
  /\ e.field \in DOMAIN fields /\ e.cell \in DOMAIN fields[e.field]
  /\ fields' = [fields EXCEPT ![e.field][e.cell] = e.value]
  /\ touched' = touched \cup {<<e.field, e.cell>>}
  /\ root' = IF e.field = "metadata" THEN NoRoot ELSE root
  /\ status' = "ok" /\ out' = NoTape
  /\ UNCHANGED tape

SetRoot(r) ==
  /\ Stepped
  /\ tape # NoTape /\ kind = "header35"
  /\ fields' = WithRoot(fields, r)
  /\ touched' = touched \cup {<<"metadata", 2>>, <<"metadata", 3>>}
  /\ root' = r
  /\ status' = "ok" /\ out' = NoTape
  /\ UNCHANGED tape

Encode(capacity) ==
  /\ Stepped
  /\ tape # NoTape /\ out = NoTape
  /\ status' = EncodeStatus(kind, fields, capacity)
  /\ out' = IF status' = "ok" THEN Encoded(kind, fields) ELSE NoTape
  /\ UNCHANGED <<fields, tape, touched, root>>

(* The struct may be encoded whole, in a buffer too short, or in one of    *)
(* the length it came in.                                                  *)
Next ==
  \/ \E data \in Tapes[kind] : Decode(data)
  \/ \E e \in Edits : SetCell(e)
  \/ \E r \in Roots : SetRoot(r)
  \/ \E capacity \in {Len(tape), WrittenBytes(kind, fields) - 1, WrittenBytes(kind, fields)} :
       Encode(capacity)

Spec == Init /\ [][Next]_payloadVars

-----------------------------------------------------------------------------
(* The fields of a layout tile its payload: what is encoded differs from   *)
(* what was decoded at the octets of the fields set since and nowhere      *)
(* else, whatever longer payload the struct held before.                   *)
OnlyEditsShow ==
  out # NoTape =>
    \A a \in 0..(Len(out) - 1) :
      \/ a < Len(tape) /\ out[a + 1] = tape[a + 1]
      \/ \E t \in touched : /\ Covers(Layout[kind][t[1]], a)
                            /\ t[2] \in CellsAt(Layout[kind][t[1]], a)
      \/ <<"chain_count", 0>> \in touched /\ a >= Len(tape)

(* What an encoder wrote, the decoder takes, and it reads the fields that  *)
(* were written: nothing is narrowed, and no sign is lost.                 *)
WrittenIsRead ==
  out # NoTape =>
    /\ DecodeStatus(kind, out) = "ok"
    /\ Decoded(kind, fields, out) = fields

(* What a decoder took can be written again in as many octets, unless a    *)
(* field was set to what the payload has no room for: the limits the       *)
(* decoders and the encoders test agree.                                   *)
TakenCanBeWritten ==
  touched = {} /\ tape # NoTape => EncodeStatus(kind, fields, Len(tape)) = "ok"

(* The root of a header is the one set, if any, at both ends of its range. *)
RootIsKept == root # NoRoot => GetRoot(fields) = root

=============================================================================
