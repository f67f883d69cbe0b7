----------------------------- MODULE MCRebuilds -----------------------------
(***************************************************************************)
(* The calls that rebuild a frame: the insert, detach, range and transfer  *)
(* calls of the PO-33, the speech edits of the PO-35, and what all of them *)
(* do with the memory they are handed.  They share no state, so a          *)
(* behaviour is one of one of them, and the variables of the others are    *)
(* parked.                                                                 *)
(***************************************************************************)
EXTENDS Po33Edits, PoAliases

VARIABLES part,
          speech_frame, speech_plan, speech_call, speech_edits, voices

Parked == "parked"

(***************************************************************************)
(* PO-33.  Sound groups, with headers of three bytes and blocks of five: a *)
(* pool, a pool whose header is split over packets, an alias, an alias     *)
(* with an extension, a bare selector, a selector with nothing but an      *)
(* extension.                                                              *)
(***************************************************************************)
Data(d) == [tag |-> "data", payload |-> d]
Other   == [tag |-> "other", payload |-> <<9>>]

Pool(s, r)       == <<Select(s), Data(<<0, 4, r, 5>>), Data(<<6, 7, 8, 9>>)>>
Split(s, r)      == <<Select(s), Data(<<0>>), Data(<<4, r, 5, 6>>), Data(<<7, 8, 9>>)>>
Alias(s, r)      == <<Select(s), Data(<<1, 2, r>>)>>
SplitAlias(s, r) == <<Select(s), Data(<<1>>), Data(<<2, r>>)>>
Extended(s, r)   == <<Select(s), Data(<<1, 2, r>>), Other>>
Bare(s)          == <<Select(s)>>
Odd(s)           == <<Select(s), Other>>

Whole(run) == <<Begin, Other>> \o run \o <<End>>

MCFrames ==
  { Whole(Pool(0, 0) \o a) : a \in {SplitAlias(1, 0), Extended(1, 0), Bare(1)} }
  \cup { Whole(Split(0, 0) \o Alias(1, 0)), Whole(Pool(2, 2) \o Bare(0) \o Alias(1, 0)),
         Whole(Pool(0, 0) \o Pool(0, 0) \o Alias(1, 0)), Whole(Bare(0) \o Odd(1) \o Bare(0)),
         Whole(Alias(1, 0) \o Alias(2, 1) \o Pool(0, 0)) }

MCSampleRuns == { <<>>, <<11, 12, 13, 14>>, <<11, 12, 13, 14, 15>> }

MCRawRanges == { <<2, 4>>, <<3, 3>>, <<1, 9>> }

(* Parked, a backup is one with nothing in it, and nothing was called. *)
EditsParked ==
  /\ current = Parked /\ held = Parked /\ last = NoCall /\ edits = Parked /\ fresh = Parked
  /\ backup = [settings |-> <<>>, groups |-> <<>>]

(***************************************************************************)
(* PO-35.  Records are two bytes, two to a packet: a group in one packet,  *)
(* one cut through its records, an empty one, one with an extension.       *)
(***************************************************************************)
Header(slot, count) == [tag |-> "header", payload |-> <<slot, count, 40, 7>>]
GroupEnd == [tag |-> "end", payload |-> <<>>]
Known    == [tag |-> "known", payload |-> <<1>>]
Unknown  == [tag |-> "unknown", payload |-> <<2>>]

One(s)    == <<Header(s, 2), Data(<<1, 2, 3, 4>>), GroupEnd>>
Cut(s)    == <<Header(s, 3), Data(<<1>>), Data(<<2, 3, 4>>), Data(<<5, 6>>), GroupEnd>>
Silent(s) == <<Header(s, 0), GroupEnd>>
Odder(s)  == <<Header(s, 1), Unknown, Data(<<1, 2>>), GroupEnd>>

(* What the scan refuses. *)
Broken ==
  { <<Header(0, 2), Data(<<1, 2>>), GroupEnd>>, <<Header(0, 1), Data(<<1, 2, 3>>), GroupEnd>>,
    <<Header(0, 1), Data(<<1, 2>>)>>, <<Data(<<1, 2>>)>>, <<GroupEnd>>,
    <<Header(0, 1), Known, Data(<<1, 2>>), GroupEnd>>, <<Header(0, 1), Header(1, 0), GroupEnd>>,
    Silent(0) \o One(0), Silent(2), <<[tag |-> "header", payload |-> <<1>>]>>,
    <<Header(0, 1), Data(<<>>), Data(<<1, 2>>), GroupEnd>> }

Sound == { a \o <<Known, Unknown>> \o b :
             a \in {One(0), Cut(0), Odder(0)}, b \in {One(1), Silent(1), Odder(1)} }

MCSpeeches == { [packets |-> p, whole |-> TRUE] : p \in Sound \cup Broken }
                \cup { [packets |-> One(0), whole |-> FALSE] }

Runs == { <<>>, <<21, 22>>, <<21, 22, 23, 24>>, <<21, 22, 23, 24, 25, 26>>, <<21, 22, 23>>,
          <<21, 22, 23, 24, 25, 26, 27, 28>> }

EditOfSlot(s, run) == [slot |-> s, rate |-> 50 + s, records |-> run]

MCRequests ==
  { <<EditOfSlot(s, run)>> : s \in {0, 1}, run \in Runs }
    \cup { <<>>, <<EditOfSlot(2, <<>>)>> }
    \cup { <<EditOfSlot(0, <<21, 22>>), EditOfSlot(s, <<21, 22, 23, 24, 25, 26>>)>> : s \in {0, 1} }
    \cup { <<EditOfSlot(1, <<21, 22, 23, 24, 25, 26>>), EditOfSlot(0, <<>>)>> }

Speech == INSTANCE Po35Speech WITH
  PreambleBytes <- 8, SlotCount <- 2, HeaderBytes <- 9, RecordBytes <- 2, RecordsPerPacket <- 2,
  MaxRecords <- 3, Frames <- MCSpeeches, Requests <- MCRequests, MaxEdits <- 2,
  current <- speech_frame, held <- speech_plan, last <- speech_call, edits <- speech_edits

ASSUME Speech!SpeechAssumption

speechVars == <<speech_frame, speech_plan, speech_call, speech_edits, voices>>

SpeechParked ==
  /\ speech_frame = Parked /\ speech_plan = Parked /\ speech_call = [asked |-> <<>>]
  /\ speech_edits = Parked /\ voices = <<>>

(***************************************************************************)
(* Memory.  Small regions anywhere in nine addresses, the ones a caller    *)
(* may leave out missing or not, and a workspace that claims all of it.    *)
(***************************************************************************)
MCPointers ==
  [frame |-> 0..Top, samples |-> {0, 5, Null}, plan |-> {1, 3, 6, Null},
   workspace |-> 0..(Top - 1), out |-> 0..Top, length |-> {0, 2, 5, Null}]

MCSizes ==
  [frame |-> {1}, samples |-> {0, 1}, plan |-> {1}, workspace |-> {1, 2, Top + 1},
   out |-> {2}, length |-> {1}]

(* Parked, no call was made. *)
MemoryParked ==
  /\ at = [r \in Regions |-> Null] /\ size = [r \in Regions |-> 0]
  /\ memory = [a \in 0..Top |-> "caller"] /\ pc = Parked

-----------------------------------------------------------------------------
rebuildVars == <<part, editsVars, speechVars, aliasVars>>

RebuildsInit ==
  \/ part = "po33" /\ Init /\ SpeechParked /\ MemoryParked
  \/ part = "po35" /\ Speech!Init /\ EditsParked /\ MemoryParked
  \/ part = "memory" /\ AliasInit /\ EditsParked /\ SpeechParked

RebuildsNext ==
  \/ part = "po33" /\ Next /\ UNCHANGED <<part, speechVars, aliasVars>>
  \/ part = "po35" /\ Speech!Next /\ UNCHANGED <<part, editsVars, aliasVars>>
  \/ part = "memory" /\ AliasNext /\ UNCHANGED <<part, editsVars, speechVars>>

RebuildsSpec == RebuildsInit /\ [][RebuildsNext]_rebuildVars

(* A PO-33 plan is a promise its rebuild keeps, and what was recorded may  *)
(* be edited on.                                                           *)
EditsFollowPlans == part = "po33" => EditsTypeOK /\ RebuildsFollowPlans /\ NewSoundsAreEditable

(* Every sequence of PO-33 calls is one of edits of the backup as its      *)
(* owner sees it, and the account of its memory follows.                   *)
EditsImplementBackup == ImplementsBackup /\ AccountFollowsEdits

(* A PO-35 plan is a promise its rebuild keeps, and edits of different     *)
(* slots commute.                                                          *)
SpeechFollowsPlans ==
  part = "po35" => Speech!SpeechTypeOK /\ Speech!RebuildsFollowPlans /\ Speech!EditsCommute

(* Every sequence of PO-35 calls is one of edits of its recordings.        *)
SpeechImplementsStore == Speech!ImplementsStore

=============================================================================
