------------------------------ MODULE Po32Link ------------------------------
(***************************************************************************)
(* A PO-32 demodulator listening to a recording: transmissions one after   *)
(* another, each the preamble and the body the builder writes, heard       *)
(* through a channel that may get a few symbols wrong, miss them or hear   *)
(* one too many, and pushed in chunks of any size by a caller that may     *)
(* stop, desync, flush at the end, or re-initialise after a stop.          *)
(*                                                                         *)
(* The transmitter and the channel are the environment of                  *)
(* src/core/src/po32.c; the demodulator is module Po32Demod unchanged.     *)
(***************************************************************************)
EXTENDS Po32Demod, FiniteSets

CONSTANTS Broadcast,    \* the sequence of transmissions: sequences of packets
          MaxFaults,    \* how many faults may happen
          FaultyZone,   \* the symbols at which they may happen
          ChunkStride,  \* a chunk may end before every ChunkStride-th symbol
          Replies       \* what the caller's callback may answer

(* What is on the air are packets of the format.                           *)
ASSUME BroadcastAssumption ==
  /\ Broadcast \in Seq(Seq([tag : Word, payload : Seq(Byte)]))
  /\ \A k \in 1..Len(Broadcast) : \A i \in 1..Len(Broadcast[k]) : IsReadable(Broadcast[k][i])
ASSUME FaultAssumption   == MaxFaults \in Nat /\ FaultyZone \subseteq Nat
ASSUME ChunkAssumption   == ChunkStride \in Nat \ {0}
ASSUME RepliesAssumption == Replies \subseteq Reply

VARIABLES pos,          \* next symbol of the recording
          faults        \* spoiled symbols and uncalled-for desyncs so far

linkVars == <<vars, pos, faults>>

(* The bodies on the air, computed once. *)
Body == [k \in 1..Len(Broadcast) |-> EncodeBody(Broadcast[k])]

FrameBits(bytes) ==
  [i \in 1..(8 * Len(bytes)) |-> BitOf(bytes[((i - 1) \div 8) + 1], (i - 1) % 8)]

RecordedUpTo ==
  LET all[k \in 0..Len(Broadcast)] ==
        IF k = 0 THEN <<>> ELSE all[k-1] \o FrameBits(Preamble \o Body[k])
  IN  all

Recording == RecordedUpTo[Len(Broadcast)]

LinkInit == Init /\ pos = 1 /\ faults = 0

Playing  == pos <= Len(Recording)
Faulty   == Playing /\ faults < MaxFaults /\ pos \in FaultyZone

Hear(reply) ==
  /\ Playing
  /\ PushBit(Recording[pos], reply)
  /\ pos' = pos + 1
  /\ UNCHANGED faults

HearWrong(reply) ==
  /\ Faulty
  /\ PushBit(1 - Recording[pos], reply)
  /\ pos' = pos + 1
  /\ faults' = faults + 1

HearExtra(bit, reply) ==
  /\ Faulty
  /\ PushBit(bit, reply)
  /\ faults' = faults + 1
  /\ UNCHANGED pos

Miss ==
  /\ Faulty /\ pushing
  /\ pos' = pos + 1
  /\ faults' = faults + 1
  /\ UNCHANGED vars

(* The caller's side: chunk boundaries, desync between chunks, the flush   *)
(* with which it ends (after a stop, or at the last symbol, which may      *)
(* still be pending; in silence a 1 is decided), reuse after a stop.       *)
ChunkBegins == PushBegin /\ Playing /\ UNCHANGED <<pos, faults>>
ChunkEnds   ==
  /\ PushEnd
  /\ pos % ChunkStride = 0 \/ pos >= Len(Recording) \/ done \/ stopped
  /\ UNCHANGED <<pos, faults>>

CallerDesyncs == Faulty /\ Desync /\ faults' = faults + 1 /\ UNCHANGED pos

FinalFlush(reply) ==
  /\ pos >= Len(Recording) \/ stopped
  /\ Flush(IF Playing THEN Recording[pos] ELSE 1, reply)
  /\ pos' = Len(Recording) + 1
  /\ UNCHANGED faults

Reuse == stopped /\ Reinit /\ UNCHANGED <<pos, faults>>

LinkNext ==
  \/ ChunkBegins \/ ChunkEnds \/ CallerDesyncs \/ Reuse \/ Miss
  \/ \E reply \in Replies :
       \/ Hear(reply) \/ HearWrong(reply) \/ FinalFlush(reply)
       \/ \E bit \in Bit : HearExtra(bit, reply)

(* The caller keeps pushing the recording: while the demodulator accepts   *)
(* samples, a chunk is eventually begun, and since every chunk holds some, *)
(* chunk after chunk eventually closes another symbol.                     *)
SymbolPasses ==
  Playing /\ pushing /\ ~done /\ ~stopped /\ pos' = pos + 1

LinkFairness == WF_linkVars(ChunkBegins) /\ SF_pos(SymbolPasses)

LinkSpec     == LinkInit /\ [][LinkNext]_linkVars
FairLinkSpec == LinkSpec /\ LinkFairness

-----------------------------------------------------------------------------
(***************************************************************************)
(* Properties.                                                             *)
(***************************************************************************)

(* What the demodulator delivers, as its caller sees it, is one of the     *)
(* transmissions from its first packet on: the demodulator implements the  *)
(* abstract link, whatever single fault the channel makes.                 *)
Sent(k) == [i \in 1..Len(Broadcast[k]) |->
              [tag |-> Broadcast[k][i].tag, payload |-> Broadcast[k][i].payload]]

Link == INSTANCE PacketLink WITH
          Transmissions <- { Sent(k) : k \in 1..Len(Broadcast) },
          received <- [i \in 1..Len(delivered) |->
                         [tag |-> delivered[i].tag, payload |-> delivered[i].payload]],
          complete <- done,
          halted   <- stopped

ImplementsLink == Link!Spec

(* The decoder gives up on bytes only when they are wrong: while what it   *)
(* has heard since the preamble is the start of a body somebody sent, no   *)
(* byte is rejected.                                                       *)
CleanBytesKeepSync ==
  lost = "rejected" =>
    \A k \in 1..Len(Broadcast) :
      ~(Len(heard) <= Len(Body[k]) /\ heard = SubSeq(Body[k], 1, Len(heard)))

(* With faults and desyncs in the first transmission only, the listener    *)
(* ends with a complete transmission or because its callback stopped it:   *)
(* losing sync is never for good.                                          *)
Recovers == <>(done \/ stopped)

=============================================================================
