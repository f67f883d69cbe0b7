------------------------------ MODULE MCModems ------------------------------
(***************************************************************************)
(* The two modems: the stereo transport of the PO-33 and the PO-35, and    *)
(* the PO-32's signal.  They share no state, so a behaviour is one of one  *)
(* of them, and the variables of the other are parked.                     *)
(***************************************************************************)
EXTENDS PoStereo

VARIABLES part,
          frame, sample_index, symbol_phase, bit_cursor, state, modem_resets,
          air, demod, taken, decided, flushed

Parked == "parked"

(***************************************************************************)
(* Stereo.  A counter of one byte, and two and a half frames to a symbol;  *)
(* a wire with a byte after the marker, one with a byte before the         *)
(* counter, one that holds a second preamble.                              *)
(***************************************************************************)
MCWires == {Preamble \o <<198>>, <<198>> \o Preamble, Preamble \o Preamble}
MCNoise == {<<0, 0>>, <<3, 1>>}

StereoParked ==
  /\ wire = Parked /\ position = Parked /\ symbol = Parked /\ phase = Parked
  /\ next_phase = Parked /\ resets = Parked /\ tape = Parked /\ sent = Parked
  /\ heard = Parked /\ nibbles = Parked /\ next_sync = Parked /\ status = Parked
  /\ out_len = Parked /\ matched = Parked /\ delivered = Parked

(***************************************************************************)
(* Mono.  All frames of six bits, six and two thirds samples to a symbol.  *)
(***************************************************************************)
MCFrames == [1..6 -> {0, 1}]

Modem == INSTANCE Po32Modem WITH
  Unit <- 10000, Step <- 1499, SampleRate <- 20, Baud <- 3, Gain <- 100, Frames <- MCFrames,
  Chunks <- {5, 40}, Pushes <- {3, 14}, Leads <- {0, 1, 2, 7}, MaxResets <- 1,
  resets <- modem_resets

ASSUME Modem!ModemAssumption

modemVars ==
  <<frame, sample_index, symbol_phase, bit_cursor, state, modem_resets,
    air, demod, taken, decided, flushed>>

ModemParked ==
  /\ frame = Parked /\ sample_index = Parked /\ symbol_phase = Parked /\ bit_cursor = Parked
  /\ state = Parked /\ modem_resets = Parked /\ air = Parked /\ demod = Parked
  /\ taken = Parked /\ decided = Parked /\ flushed = Parked

-----------------------------------------------------------------------------
ModemsInit ==
  \/ part = "stereo" /\ Init /\ ModemParked
  \/ part = "mono" /\ Modem!Init /\ StereoParked

ModemsNext ==
  \/ part = "stereo" /\ Next /\ UNCHANGED <<part, modemVars>>
  \/ part = "mono" /\ Modem!Next /\ UNCHANGED <<part, stereoVars>>

ModemsSpec == ModemsInit /\ [][ModemsNext]_<<part, stereoVars, modemVars>>

(* Chunks and resets do not show in a stereo waveform, whose wires arrive  *)
(* as they were sent.                                                      *)
StereoWiresArrive ==
  part = "stereo" => StereoTypeOK /\ ChunksDoNotShow /\ WiresArrive /\ PackersAgree

(* The iterator hands out every candidate once, and the one-shot search    *)
(* one of them.                                                            *)
StereoCandidatesOnce == part = "stereo" => CandidatesOnce /\ OneShotIsACandidate

(* Chunks and resets do not show in a PO-32 waveform, and the demodulator  *)
(* decides every bit of it and no other, however it is pushed.             *)
BitsArrive ==
  part = "mono" =>
    Modem!ModemTypeOK /\ Modem!ChunksDoNotShow /\ Modem!OnlyBitsSent /\ Modem!EveryBitArrives

=============================================================================
