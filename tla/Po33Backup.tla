----------------------------- MODULE Po33Backup -----------------------------
(***************************************************************************)
(* A PO-33 backup as its owner sees it: some settings and a list of        *)
(* groups, each a selector with or without a sound.  A sound is a range    *)
(* played from the audio of the one group its source selector leads to;    *)
(* an alias has no audio of its own.  An edit gives the group that was     *)
(* asked for the samples or the range that were asked for, and leaves      *)
(* everything else as it was.                                              *)
(***************************************************************************)
EXTENDS Integers, SequencesExt

CONSTANTS Stored(_, _)  \* how a range is stored, from its start and end

VARIABLES settings,     \* what stands before the first group
          groups,
          asked         \* what the last call was asked for, if it was served

backupVars == <<settings, groups, asked>>

NoSound == [range |-> <<>>, source |-> 255, audio |-> <<>>]

Owners(gs, source) ==
  { j \in DOMAIN gs : gs[j].selector = source /\ gs[j].sound.audio # <<>> }

(* What is heard of group i: a range of somebody's audio, or nothing. *)
Plays(gs, i) ==
  LET owners == Owners(gs, gs[i].sound.source)
  IN  IF gs[i].sound = NoSound \/ Cardinality(owners) # 1 THEN <<>>
      ELSE <<gs[i].sound.range, gs[CHOOSE j \in owners : TRUE].sound.audio>>

(* A group is private if no other group has its selector or refers to it. *)
Private(gs, i) ==
  \A j \in DOMAIN gs \ {i} :
    gs[j].selector # gs[i].selector /\ gs[j].sound.source # gs[i].selector

(* The recording is there whole, heard whole, and followed by silence. *)
Recorded(run, sound, selector) ==
  /\ sound.range = Stored(0, Len(run)) /\ sound.source = selector
  /\ IsStrictPrefix(run, sound.audio)
  /\ \A k \in (Len(run) + 1)..Len(sound.audio) : sound.audio[k] = 0

(* Edits of group i for request q, from one list of groups to the next.    *)
Records(gs, i, q, next) ==
  /\ gs[i].selector = q.slot /\ Private(gs, i)
  /\ next = [gs EXCEPT ![i].sound = next[i].sound]
  /\ Recorded(q.samples, next[i].sound, q.slot)

Inserts(gs, i, q, next) ==
  /\ q.kind = "insert" /\ gs[i].sound = NoSound
  /\ Records(gs, i, q, next)

(* An alias gets audio of its own; the audio it referred to stays. *)
Detaches(gs, i, q, next) ==
  /\ q.kind = "detach" /\ gs[i].sound # NoSound /\ gs[i].sound.audio = <<>>
  /\ Cardinality(Owners(gs, gs[i].sound.source)) = 1
  /\ Records(gs, i, q, next)

(* Sounds are counted in the order they stand in. *)
NumberOf(gs, i) == Cardinality({ j \in 1..i : gs[j].sound # NoSound })

(* Only for a sound that plays something, and within what it plays from. *)
SetsRange(gs, i, q, next) ==
  /\ q.kind = "range" /\ Plays(gs, i) # <<>> /\ NumberOf(gs, i) = q.target
  /\ q.range[1] < q.range[2] /\ q.range[2] < Len(Plays(gs, i)[2])
  /\ next = [gs EXCEPT ![i].sound.range = Stored(q.range[1], q.range[2])]

Edit ==
  /\ \E next \in {groups'}, q \in {asked'} : \E i \in DOMAIN next :
       \/ Inserts(groups, i, q, next)
       \/ Detaches(groups, i, q, next)
       \/ SetsRange(groups, i, q, next)
  /\ UNCHANGED settings

(* The backup is left for a transfer of one sound made from nothing. *)
StartOver ==
  /\ settings' = <<>>
  /\ \E next \in {groups'}, q \in {asked'} :
       /\ q.kind = "transfer" /\ Len(next) = 1 /\ next[1].selector = q.slot
       /\ Recorded(q.samples, next[1].sound, q.slot)

NotServed == asked'.kind = "none" /\ UNCHANGED <<settings, groups>>

Next == StartOver \/ Edit \/ NotServed

Spec == [][Next]_backupVars

=============================================================================
