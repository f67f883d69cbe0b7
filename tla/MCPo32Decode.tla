--------------------------- MODULE MCPo32Decode -----------------------------
EXTENDS Po32Decode

(* 8 fill bytes instead of 124; the sync word and the pattern are whole. *)
MCPreamble == <<85, 85, 85, 85, 85, 85, 85, 85, 85, 85, 85, 85, 20, 25, 157, 207>>

MCBroadcast ==
  << << [tag |-> TagReset, payload |-> <<51>>], [tag |-> TagKnob, payload |-> <<18, 128>>] >>,
     << [tag |-> TagErase, payload |-> <<7>>] >> >>

(* From the second byte of the sync word to the end of the first body. *)
MCFaultyZone ==
  (8 * (Len(MCPreamble) - 3) + 1)..(8 * (Len(MCPreamble) + Len(EncodeBody(MCBroadcast[1]))))

(* No room for the preamble; for the second transmission but not its tail; *)
(* for all of it, and so for a tail after the first packet of the first    *)
(* transmission but not for its second packet; for everything.             *)
MCCapacities == {15, 26, 27, 64}

MCReplies == [stop : BOOLEAN, desync : {FALSE}]

=============================================================================
