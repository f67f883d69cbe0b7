---------------------------- MODULE MCPo32Link ------------------------------
EXTENDS Po32Link

(* 8 fill bytes instead of 124; the sync word and the pattern are whole. *)
MCPreamble == <<85, 85, 85, 85, 85, 85, 85, 85, 85, 85, 85, 85, 20, 25, 157, 207>>

Reset(i)   == [tag |-> TagReset, payload |-> <<48 + i>>]
Erase(i)   == [tag |-> TagErase, payload |-> <<i>>]
Knob(i, v) == [tag |-> TagKnob, payload |-> <<i, v>>]

MCBroadcast == << <<Reset(3), Knob(18, 128)>>, <<Erase(7)>> >>

(* From the second byte of the sync word to the end of the first body. *)
MCFaultyZone ==
  (8 * (Len(MCPreamble) - 3) + 1)..(8 * (Len(MCPreamble) + Len(EncodeBody(MCBroadcast[1]))))

Carry   == [stop |-> FALSE, desync |-> FALSE]
MCCarryOrStop == {Carry, [Carry EXCEPT !.stop = TRUE]}
MCReplies == {Carry, [Carry EXCEPT !.stop = TRUE], [Carry EXCEPT !.desync = TRUE]}

=============================================================================
