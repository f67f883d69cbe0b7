----------------------------- MODULE Po35Speech -----------------------------
(***************************************************************************)
(* The speech edits of src/core/src/po35.c: po35_speech_edit_plan and      *)
(* po35_speech_edit_rebuild, called by somebody who goes on with the       *)
(* frames that come out and may keep a plan while a frame changes.         *)
(*                                                                         *)
(* A frame is its packets (module PoFrames has the bytes) and whether      *)
(* nothing follows its tail.  The payload of a speech header is            *)
(* <<slot, record count, rate, metadata>>, or something shorter when its   *)
(* length is wrong.  Null arguments, overlapping buffers and sums beyond   *)
(* SIZE_MAX are left out.                                                  *)
(***************************************************************************)
EXTENDS Integers, SequencesExt

CONSTANTS PreambleBytes,     \* PO35_PREAMBLE_BYTES: 4096
          SlotCount,         \* PO35_SPEECH_SLOT_COUNT: 15
          HeaderBytes,       \* PO35_SPEECH_HEADER_BYTES: 9
          RecordBytes,       \* PO35_SPEECH_RECORD_BYTES: 44
          RecordsPerPacket,  \* the 5 that fit PO_MAX_PAYLOAD
          MaxRecords,        \* UINT16_MAX
          Frames,            \* what a caller may start from
          Requests,          \* sequences of edits it may ask for
          MaxEdits           \* how often it goes on with what came out

SpeechAssumption ==
  /\ {PreambleBytes, SlotCount, HeaderBytes, MaxRecords, MaxEdits} \subseteq Nat
  /\ RecordBytes \in Nat \ {0} /\ RecordsPerPacket \in Nat \ {0}

VARIABLES current,  \* the frame the caller has got
          held,     \* a plan, once it has one
          last,     \* the last call and what it returned
          edits,    \* how many frames have come out
          voices    \* history: what current holds, see VoicesIn

speechVars == <<current, held, last, edits, voices>>

OverheadBytes == 5
TailBytes     == 5
NoSlot        == -1
NoEdit        == 0       \* SIZE_MAX; edits are counted from 1
AnySlot       == 255

Tags == {"header", "data", "end", "known", "unknown"}

WireLen(p) == OverheadBytes + IF p.tag = "header" THEN HeaderBytes ELSE Len(p.payload)

WireBytes(run) == FoldLeft(LAMBDA n, p : n + WireLen(p), 0, run)

FrameLen(packets) == PreambleBytes + WireBytes(packets) + TailBytes

(* edit_index_by_slot. *)
EditOf(request, slot) ==
  IF \E i \in DOMAIN request : request[i].slot = slot
  THEN CHOOSE i \in DOMAIN request : request[i].slot = slot ELSE NoEdit

(***************************************************************************)
(* The scan: speech_edit_scan_packet.                                      *)
(***************************************************************************)
NewScan ==
  [seen |-> {}, removed |-> 0, expected |-> 0, received |-> 0, active |-> NoSlot,
   failed |-> NoEdit, reason |-> "none", status |-> "ok"]

(* Only a fault in a group that is edited has a reason. *)
RejectActive(scan, request, reason) ==
  LET edit == EditOf(request, scan.active)
  IN  IF edit = NoEdit THEN [scan EXCEPT !.status = "parse"]
      ELSE [scan EXCEPT !.status = "parse", !.failed = edit, !.reason = reason]

ScanHeader(scan, request, p) ==
  IF scan.active # NoSlot THEN RejectActive(scan, request, "incomplete_group")
  ELSE IF \/ Len(p.payload) # 4 \/ p.payload[1] >= SlotCount
          \/ p.payload[1] \in scan.seen
  THEN [scan EXCEPT !.status = "parse"]
  ELSE [scan EXCEPT !.seen = @ \cup {p.payload[1]}, !.active = p.payload[1],
                    !.expected = p.payload[2] * RecordBytes, !.received = 0]

ScanData(scan, request, p) ==
  IF \/ scan.active = NoSlot \/ p.payload = <<>>
     \/ Len(p.payload) > scan.expected - scan.received
  THEN RejectActive(scan, request, "incomplete_group")
  ELSE [scan EXCEPT !.received = @ + Len(p.payload),
                    !.removed  = IF EditOf(request, scan.active) = NoEdit THEN @
                                 ELSE @ + WireLen(p)]

ScanEnd(scan, request, p) ==
  IF scan.active = NoSlot \/ p.payload # <<>> \/ scan.received # scan.expected
  THEN RejectActive(scan, request, "incomplete_group")
  ELSE [scan EXCEPT !.active = NoSlot]

ScanOther(scan, request, p) ==
  IF scan.active = NoSlot THEN scan
  ELSE IF p.tag = "known" THEN RejectActive(scan, request, "incomplete_group")
  ELSE IF EditOf(request, scan.active) # NoEdit
  THEN RejectActive(scan, request, "unknown_selected_group_extension")
  ELSE scan

Scanned(packets, request) ==
  LET step(scan, p) ==
        IF scan.status # "ok" THEN scan
        ELSE CASE p.tag = "header" -> ScanHeader(scan, request, p)
               [] p.tag = "data"   -> ScanData(scan, request, p)
               [] p.tag = "end"    -> ScanEnd(scan, request, p)
               [] OTHER            -> ScanOther(scan, request, p)
      closed(scan) ==
        IF scan.status = "ok" /\ scan.active # NoSlot
        THEN RejectActive(scan, request, "incomplete_group") ELSE scan
  IN  closed(FoldLeft(step, NewScan, packets))

(***************************************************************************)
(* The plan.                                                               *)
(***************************************************************************)
ClearPlan ==
  [frame_bytes |-> 0, slots |-> {}, failed_edit |-> NoEdit, failed_slot |-> AnySlot,
   reason |-> "none"]

Verdict(status, plan) == [status |-> status, plan |-> plan]

Rejected(status, request, i, reason) ==
  Verdict(status, [ClearPlan EXCEPT !.failed_edit = i, !.failed_slot = request[i].slot,
                                    !.reason = reason])

EditFault(request, i) ==
  IF request[i].slot >= SlotCount THEN "slot_out_of_range"
  ELSE IF \E j \in 1..(i - 1) : request[j].slot = request[i].slot THEN "duplicate_slot"
  ELSE IF Len(request[i].records) % RecordBytes # 0 THEN "invalid_record_size"
  ELSE IF Len(request[i].records) \div RecordBytes > MaxRecords THEN "invalid_record_count"
  ELSE "none"

RecordCount(edit) == Len(edit.records) \div RecordBytes

(* Mutant: the last packet is not counted unless it is full. *)
PacketCountFull(edit) == RecordCount(edit) \div RecordsPerPacket

PacketCount(edit) ==
  RecordCount(edit) \div RecordsPerPacket
    + (IF RecordCount(edit) % RecordsPerPacket # 0 THEN 1 ELSE 0)

ReplacementBytes(edit) == Len(edit.records) + PacketCount(edit) * OverheadBytes

EditPlan(f, request) ==
  LET faulty == { i \in DOMAIN request : EditFault(request, i) # "none" }
      absent(scan) == { i \in DOMAIN request : request[i].slot \notin scan.seen }
      sized(scan) ==
        Verdict("ok",
          [frame_bytes |-> FoldLeft(LAMBDA n, edit : n + ReplacementBytes(edit),
                                    FrameLen(f.packets) - scan.removed, request),
           slots       |-> { request[i].slot : i \in DOMAIN request },
           failed_edit |-> NoEdit, failed_slot |-> AnySlot, reason |-> "none"])
      judged(scan) ==
        IF scan.status # "ok"
        THEN IF scan.reason = "none" THEN Verdict(scan.status, ClearPlan)
             ELSE Rejected(scan.status, request, scan.failed, scan.reason)
        ELSE IF absent(scan) # {}
        THEN Rejected("parse", request, Min(absent(scan)), "absent_slot")
        ELSE sized(scan)
  IN  IF faulty # {}
      THEN Rejected("range", request, Min(faulty), EditFault(request, Min(faulty)))
      ELSE IF ~f.whole THEN Verdict("frame", ClearPlan)
      ELSE judged(Scanned(f.packets, request))

(***************************************************************************)
(* The rebuild: speech_edit_rebuild_packet, with an active slot of its     *)
(* own.                                                                    *)
(***************************************************************************)
NewData(edit) ==
  LET most == RecordsPerPacket * RecordBytes
      size == Len(edit.records)
  IN  [k \in 1..((size + most - 1) \div most) |->
         [tag |-> "data", payload |-> SubSeq(edit.records, (k - 1) * most + 1,
                                             IF k * most < size THEN k * most ELSE size)]]

(* Mutant: the rate is the old one. *)
NewHeaderRate(p, edit) == [p EXCEPT !.payload[2] = RecordCount(edit)]

NewHeader(p, edit) ==
  [p EXCEPT !.payload[2] = RecordCount(edit), !.payload[3] = edit.rate]

RebuildStep(request, rebuild, p) ==
  LET put(run) == [rebuild EXCEPT !.packets = @ \o run]
      header(edit) == IF edit = NoEdit THEN p ELSE NewHeader(p, request[edit])
      data(edit)   == IF edit = NoEdit THEN <<p>> ELSE <<>>
      end(edit)    == IF edit = NoEdit THEN <<p>> ELSE NewData(request[edit]) \o <<p>>
  IN  CASE p.tag = "header" ->
             [put(<<header(EditOf(request, p.payload[1]))>>) EXCEPT !.active = p.payload[1]]
        [] p.tag = "data" -> put(data(EditOf(request, rebuild.active)))
        [] p.tag = "end"  ->
             [put(end(EditOf(request, rebuild.active))) EXCEPT !.active = NoSlot]
        [] OTHER -> put(<<p>>)

Failed(status) == [status |-> status, packets |-> <<>>]

EditRebuild(f, request, plan, workspace, capacity) ==
  LET closed(packets, frame_bytes) ==
        IF FrameLen(packets) > workspace THEN Failed("buffer_too_small")
        ELSE IF FrameLen(packets) # frame_bytes THEN Failed("frame")
        ELSE [status |-> "ok", packets |-> packets]
  IN  IF EditPlan(f, request) # Verdict("ok", plan) THEN Failed("invalid_arg")
      ELSE IF workspace < plan.frame_bytes \/ capacity < plan.frame_bytes
      THEN Failed("buffer_too_small")
      ELSE closed(FoldLeft(LAMBDA rebuild, p : RebuildStep(request, rebuild, p),
                           [packets |-> <<>>, active |-> NoSlot], f.packets).packets,
                  plan.frame_bytes)

(***************************************************************************)
(* What a frame holds: each group a recording, the rest as it is.          *)
(***************************************************************************)
Gathered(so_far, p) ==
  LET n    == Len(so_far.voices)
      open == so_far.open
  IN  CASE p.tag = "header" ->
             [open |-> TRUE,
              voices |-> Append(so_far.voices,
                [slot |-> p.payload[1], count |-> p.payload[2], rate |-> p.payload[3],
                 metadata |-> p.payload[4], audio |-> <<>>, extensions |-> <<>>])]
        [] p.tag = "data" -> [so_far EXCEPT !.voices[n].audio = @ \o p.payload]
        [] p.tag = "end"  -> [so_far EXCEPT !.open = FALSE]
        [] OTHER -> IF open THEN [so_far EXCEPT !.voices[n].extensions = Append(@, p)]
                    ELSE [so_far EXCEPT !.voices = Append(@, [other |-> p])]

(* Frames no plan accepts come out of no rebuild, and are left aside. *)
VoicesIn(f) ==
  IF Scanned(f.packets, <<>>).status # "ok" THEN <<>>
  ELSE FoldLeft(Gathered, [voices |-> <<>>, open |-> FALSE], f.packets).voices

(***************************************************************************)
(* The calls.                                                              *)
(***************************************************************************)
NoPlan == [reason |-> "no plan"]

(* What was asked is kept of a call that gave the caller a frame.          *)
Call(call, status, roomy, request) ==
  [call |-> call, status |-> status, roomy |-> roomy,
   asked |-> IF call # "plan" /\ status = "ok" THEN request ELSE <<>>]

GoOnWith(result) ==
  IF result.status # "ok" THEN UNCHANGED <<current, edits, voices>>
  ELSE \E next \in {[packets |-> result.packets, whole |-> TRUE]} :
         /\ current' = next
         /\ edits' = edits + 1
         /\ voices' = VoicesIn(next)

Init ==
  /\ current \in Frames
  /\ held = NoPlan
  /\ last = Call("none", "ok", TRUE, <<>>)
  /\ edits = 0
  /\ voices = VoicesIn(current)

Plan(request) ==
  \E verdict \in {EditPlan(current, request)} :
    /\ held' = verdict.plan
    /\ last' = Call("plan", verdict.status, TRUE, request)
    /\ UNCHANGED <<current, edits, voices>>

(* With the plan held, whatever it was for. *)
Rebuild(request, roomy) ==
  /\ edits < MaxEdits /\ held # NoPlan
  /\ \E workspace \in {held.frame_bytes - (IF roomy THEN 0 ELSE 1)} :
     \E result \in {EditRebuild(current, request, held, workspace, held.frame_bytes)} :
       /\ GoOnWith(result)
       /\ last' = Call("rebuild", result.status, roomy, request)
  /\ UNCHANGED held

(* With a plan made at once, while another may be held. *)
Edit(request) ==
  /\ edits < MaxEdits
  /\ \E verdict \in {EditPlan(current, request)} :
       /\ verdict.status = "ok"
       /\ \E result \in {EditRebuild(current, request, verdict.plan,
                                     verdict.plan.frame_bytes, verdict.plan.frame_bytes)} :
            /\ GoOnWith(result)
            /\ last' = Call("edit", result.status, TRUE, request)
  /\ UNCHANGED held

Next ==
  \E request \in Requests :
    \/ Plan(request)
    \/ \E roomy \in BOOLEAN : Rebuild(request, roomy)
    \/ Edit(request)

Spec == Init /\ [][Next]_speechVars

-----------------------------------------------------------------------------
(***************************************************************************)
(* Properties.                                                             *)
(***************************************************************************)

(* Headers hold counts that fit their sixteen bits; calls answer with a    *)
(* status.                                                                 *)
SpeechTypeOK ==
  /\ \A i \in DOMAIN current.packets :
       /\ current.packets[i].tag \in Tags
       /\ current.packets[i].tag = "header" /\ Len(current.packets[i].payload) = 4 =>
            current.packets[i].payload[2] \in 0..MaxRecords
  /\ last.status \in {"ok", "range", "frame", "parse", "invalid_arg", "buffer_too_small"}
  /\ edits \in 0..MaxEdits

(* A plan just granted is carried out: the size it names is the size that  *)
(* comes out, to the byte, whatever the packets of the old frame were; and *)
(* with too little room nothing comes out.                                 *)
RebuildsFollowPlans ==
  /\ last.call \in {"edit", "rebuild"} => last.status # "frame"
  /\ last.call = "edit" => last.status = "ok"
  /\ last.status = "buffer_too_small" => ~last.roomy
  /\ last.call = "rebuild" /\ ~last.roomy => last.status # "ok"

Store == INSTANCE Po35Voices WITH asked <- last.asked

(* Every sequence of calls, with fresh plans or stale ones, gives just the *)
(* recordings of the request that was served their new records, rates and  *)
(* counts, and leaves everything else as it was and where it was, packets  *)
(* of a later firmware between groups or inside those not edited among it. *)
ImplementsStore == Store!Spec

(* Edits of different slots do not get in each other's way: two at once    *)
(* are the two one after the other, in either order, packet for packet; so *)
(* what comes out of one edit has headers that agree with its data, and is *)
(* taken by the next.                                                      *)
Edited(f, request) ==
  [packets |-> EditRebuild(f, request, EditPlan(f, request).plan,
                           EditPlan(f, request).plan.frame_bytes,
                           EditPlan(f, request).plan.frame_bytes).packets,
   whole   |-> TRUE]

EditsCommute ==
  \A q \in Requests :
    /\ Len(q) = 2
    /\ EditPlan(current, q).status = "ok"
    => /\ Edited(Edited(current, <<q[1]>>), <<q[2]>>) = Edited(current, q)
       /\ Edited(Edited(current, <<q[2]>>), <<q[1]>>) = Edited(current, q)

=============================================================================
