------------------------------ MODULE MCFrames ------------------------------
(***************************************************************************)
(* The frames in memory: the PO-32's builder with its parser, and the      *)
(* builders of the PO-33 and the PO-35 with theirs.  They share no state,  *)
(* so a behaviour is one of one family, and the variables of the other are *)
(* parked.                                                                 *)
(***************************************************************************)
EXTENDS Po32Builder, PoFrames

VARIABLE part

Parked == "parked"

(***************************************************************************)
(* PO-32.  Known packets, a wrong length, an unknown tag, a payload too    *)
(* long for the length byte, and the packet that looks like a tail.        *)
(***************************************************************************)
MCPreamble == <<20, 25, 157, 207>>

MCInputs ==
  { [tag |-> TagReset, payload |-> <<51>>],
    [tag |-> TagKnob,  payload |-> <<18, 255>>],
    [tag |-> TagReset, payload |-> <<1, 2>>],
    [tag |-> 65535,    payload |-> <<0>>],
    [tag |-> TailTag,  payload |-> <<>>],
    [tag |-> TagErase, payload |-> [i \in 1..256 |-> 0]] }

(* No room for the preamble; for it and nothing else; for a packet but not *)
(* the tail; for the preamble and a tail exactly; for several packets.     *)
MCCapacities == {3, 4, 10, 9, 29}

(* Parked, a builder is one over no buffer, with nothing in it.            *)
BuilderParked ==
  /\ capacity = 0 /\ buffer = <<>> /\ finished = FALSE /\ appended = <<>>
  /\ builder_state = Parked /\ status = Parked /\ out_len = Parked

(***************************************************************************)
(* PO-33 and PO-35.  Empty and short payloads, one too long for the length *)
(* byte, a tag nobody knows, and every tag one of the builders refuses,    *)
(* with the payload the parsers would take it with and without.            *)
(***************************************************************************)
MCPackets ==
  { [tag |-> 4660,     payload |-> <<>>],
    [tag |-> 65535,    payload |-> <<0, 255>>],
    [tag |-> TailTag,  payload |-> <<>>],
    [tag |-> TagEnd,   payload |-> <<1>>],
    [tag |-> TagBegin, payload |-> <<>>],
    [tag |-> 4660,     payload |-> [i \in 1..256 |-> 0]] }

(* No room for the counter; for it alone; for PO-33's BEGIN; for a packet  *)
(* but not the end; for several packets.                                   *)
MCRooms == {5, 6, 11, 16, 18, 33}

MCCounterBytes == 2

MCDevices == {"po33", "po35"}

(* Parked, a builder is one that has been given no room.                   *)
FramesParked ==
  /\ device = "po35" /\ frame_capacity = 0 /\ frame_buffer = <<>> /\ crc = 0
  /\ frame_finished = FALSE /\ frame_status = "buffer_too_small" /\ frame_out_len = 0
  /\ frame_packets = <<>>

-----------------------------------------------------------------------------
FramesInit ==
  \/ part = "po32" /\ BuilderInit /\ FramesParked
  \/ part = "po33 and po35" /\ Init /\ BuilderParked

FramesNext ==
  \/ part = "po32" /\ BuilderNext /\ UNCHANGED <<part, framesVars>>
  \/ part = "po33 and po35" /\ Next /\ UNCHANGED <<part, builderVars>>

FramesSpec == FramesInit /\ [][FramesNext]_<<part, builderVars, framesVars>>

=============================================================================
