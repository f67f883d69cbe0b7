----------------------------- MODULE PacketLink -----------------------------
(***************************************************************************)
(* What a PO-32 receiver promises its caller, without bits, bytes or       *)
(* states: it follows one transmission at a time and hands over that       *)
(* transmission's packets, in order and from the first, never a packet of  *)
(* another position or one nobody sent, and it reports completion only     *)
(* when every packet of a transmission has been handed over.               *)
(***************************************************************************)
EXTENDS Sequences, Naturals

CONSTANT Transmissions      \* the packet sequences that may be on the air

VARIABLES received,         \* packets handed over from the current one
          complete,         \* the end of the current one was seen
          halted            \* the caller asked for no more

vars == <<received, complete, halted>>

StartsOne(s) == \E t \in Transmissions : Len(s) <= Len(t) /\ s = SubSeq(t, 1, Len(s))

Init == received = <<>> /\ complete = FALSE /\ halted = FALSE

(* Begin again on a transmission, also on one that was partly heard. *)
Restart ==
  /\ ~complete /\ ~halted
  /\ received' = <<>>
  /\ UNCHANGED <<complete, halted>>

HandOver ==
  /\ ~complete /\ ~halted
  /\ \E t \in Transmissions : Len(t) > Len(received) /\ received' = SubSeq(t, 1, Len(received) + 1)
  /\ SubSeq(received', 1, Len(received)) = received
  /\ halted' \in BOOLEAN
  /\ UNCHANGED complete

Finish ==
  /\ ~complete /\ ~halted
  /\ received \in Transmissions
  /\ complete' = TRUE
  /\ UNCHANGED <<received, halted>>

(* The caller puts the receiver back to work. *)
Reset == received' = <<>> /\ complete' = FALSE /\ halted' = FALSE

Next == Restart \/ HandOver \/ Finish \/ Reset

Spec == Init /\ [][Next]_vars

=============================================================================
