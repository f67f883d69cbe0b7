------------------------------ MODULE Po33Edits ------------------------------
(***************************************************************************)
(* The edits of src/core/src/po33.c that add a sound or change a range:    *)
(* sample insert, sample detach, sound range, and the transfer of a single *)
(* sound, by a caller who holds a plan of each kind, rebuilds in any order *)
(* and goes on with the frame that came out.                               *)
(*                                                                         *)
(* A rebuild is one step: nothing runs between its packets but the         *)
(* library.  Overlapping buffers, null arguments and sums beyond SIZE_MAX  *)
(* or UINT32_MAX are left out.                                             *)
(***************************************************************************)
EXTENDS Po33Plans

CONSTANTS Frames,       \* the frames a caller may start from
          MelodicSlots, \* how many slots take an inserted sound: 8
          Slots,        \* slots a caller may name
          SampleRuns,   \* samples it may bring
          Targets, RawRanges,  \* records and ranges it may name
          MaxEdits      \* how often it goes on with what came out

ASSUME RecordSizesAssumption == PacketsPerBlock * MaxPayload >= HeaderBytes + BlockBytes
ASSUME EditorAssumption ==
  /\ Frames \subseteq Seq([tag : Tags, payload : Seq(0..255)])
  /\ MelodicSlots \in Nat /\ MaxEdits \in Nat
  /\ Slots \subseteq 0..255 /\ SampleRuns \subseteq Seq(0..255)
  /\ Targets \subseteq Nat /\ RawRanges \subseteq Nat \X Nat

VARIABLES current,  \* the frame the caller has got
          held,     \* a plan of each kind
          last,     \* the last call and what it returned
          edits,    \* how many frames have come out
          fresh,    \* history: slots that were given a sound
          backup    \* history: what current holds, see BackupIn

editsVars == <<current, held, last, edits, fresh, backup>>

Begin == [tag |-> "begin", payload |-> <<>>]
End   == [tag |-> "end", payload |-> <<>>]
Select(slot) == [tag |-> "select", payload |-> <<slot>>]

(***************************************************************************)
(* Packets of a new sound.                                                 *)
(***************************************************************************)
RawBytes(value) == [i \in 1..RangeBytes |-> (value \div 256^(i - 1)) % 256]

Blocks(bytes) == (bytes + BlockBytes) \div BlockBytes

AllocationBytes(bytes) == Blocks(bytes) * BlockBytes

NewRecordBytes(bytes) ==
  HeaderBytes + Blocks(bytes) * (BlockBytes + PacketsPerBlock * OverheadBytes)

Chopped(data) ==
  [k \in 1..((Len(data) + MaxPayload - 1) \div MaxPayload) |->
     [tag |-> "data",
      payload |-> SubSeq(data, (k - 1) * MaxPayload + 1, Smaller(k * MaxPayload, Len(data)))]]

(* The header goes with the first block; every block starts a packet. *)
SampleRecord(slot, samples) ==
  LET sample(i) == IF i <= Len(samples) THEN samples[i] ELSE 0
      block(b)  == [i \in 1..BlockBytes |-> sample((b - 1) * BlockBytes + i)]
      header    == RawBytes(0) \o RawBytes(Len(samples)) \o <<slot>>
  IN  FlattenSeq([b \in 1..Blocks(Len(samples)) |->
        Chopped(IF b = 1 THEN header \o block(b) ELSE block(b))])

(* A builder that fills a buffer: packets between BEGIN and END. *)
Failed(status) == [status |-> status, frame |-> <<>>]

Built(packets, room) ==
  LET whole == <<Begin>> \o packets \o <<End>>
  IN  IF FrameLen(whole) > room THEN Failed("buffer_too_small")
      ELSE [status |-> "ok", frame |-> whole]

(* The packets of a frame but BEGIN and END, each replaced by new[i]. *)
Rewritten(f, new, room) ==
  Built(FlattenSeq([i \in DOMAIN f |->
          IF f[i].tag \in {"begin", "end"} THEN <<>> ELSE new[i]]), room)

Within(f, i, span) == span.offset <= OffsetOf(f, i) /\ OffsetOf(f, i) < SpanEnd(span)

(* The first reason that holds. *)
FirstReason(reasons) ==
  LET held_at == { i \in DOMAIN reasons : reasons[i].holds }
  IN  IF held_at = {} THEN "none" ELSE reasons[Min(held_at)].reason

Reason(holds, reason) == [holds |-> holds, reason |-> reason]

Verdict(status, plan) == [status |-> status, plan |-> plan]

(***************************************************************************)
(* Insert: a sound for a selector that has none.                           *)
(***************************************************************************)
NoInsertion ==
  [frame_bytes |-> 0, sample_bytes |-> 0, allocation |-> 0, offset |-> NoIndex,
   slot |-> NoSelector, reason |-> "none"]

SelectsOf(f, slot) == { i \in DOMAIN f : f[i] = Select(slot) }

GroupOf(f, i) ==
  { j \in DOMAIN f : j > i /\ \A k \in (i + 1)..j : f[k].tag \notin {"select", "end"} }

ScannedGroups(f, slot) == UNION { GroupOf(f, i) : i \in SelectsOf(f, slot) }

InsertReason(f, seen, slot) ==
  LET group == ScannedGroups(f, slot)
  IN  FirstReason(<< Reason(Cardinality(SelectsOf(f, slot)) > 1, "duplicate_selector"),
                     Reason(\E j \in group : f[j].tag = "data", "occupied"),
                     Reason(group # {}, "unknown_extension"),
                     Reason(\E r \in DOMAIN seen : seen[r].source = slot, "referenced") >>)

InsertPlan(f, slot, samples) ==
  LET refused(status, reason) == Verdict(status, [NoInsertion EXCEPT !.reason = reason])
      judged(reason) ==
        IF reason # "none" THEN refused("parse", reason)
        ELSE Verdict("ok",
               [frame_bytes  |-> FrameLen(f) + NewRecordBytes(Len(samples)),
                sample_bytes |-> Len(samples),
                allocation   |-> AllocationBytes(Len(samples)),
                offset       |-> OffsetOf(f, Max(SelectsOf(f, slot))),
                slot         |-> slot,
                reason       |-> "none"])
      parsed(parse) ==
        IF ExactStatus(f, parse) # "ok" THEN refused("frame", "none")
        ELSE IF SelectsOf(f, slot) = {} THEN refused("range", "missing_selector")
        ELSE judged(InsertReason(f, parse.stream.seen, slot))
  IN  IF slot >= MelodicSlots THEN refused("range", "slot_out_of_range")
      ELSE IF samples = <<>> THEN refused("range", "none")
      ELSE parsed(Parsed(f))

(* Out and workspace have the given sizes. *)
InsertRebuild(f, slot, samples, plan, workspace, capacity) ==
  LET placed == [i \in DOMAIN f |-> IF OffsetOf(f, i) # plan.offset THEN <<f[i]>>
                                    ELSE <<f[i]>> \o SampleRecord(slot, samples)]
      checked(result) ==
        IF result.status = "ok" /\ FrameLen(result.frame) # plan.frame_bytes
        THEN Failed("frame") ELSE result
  IN  IF InsertPlan(f, slot, samples) # Verdict("ok", plan) THEN Failed("invalid_arg")
      ELSE IF workspace < plan.frame_bytes \/ capacity < plan.frame_bytes
      THEN Failed("buffer_too_small")
      ELSE checked(Rewritten(f, placed, workspace))

(***************************************************************************)
(* Detach: a pool of its own for an alias.  Its data is stripped, then the *)
(* sound is inserted.                                                      *)
(***************************************************************************)
NoDetachment ==
  [frame_bytes |-> 0, workspace_bytes |-> 0, intermediate |-> 0, sample_bytes |-> 0,
   allocation |-> 0, data |-> NoSpan, slot |-> NoSelector, source |-> NoSelector,
   reason |-> "none"]

DetachReason(f, seen, target, slot) ==
  FirstReason(<<
    Reason(Cardinality(SelectsOf(f, slot)) # 1, "duplicate_target"),
    Reason(target.data_bytes # HeaderBytes, "not_alias"),
    Reason("unknown_extension" \in target.flags, "unknown_extension"),
    Reason(OwnersOf(seen, target.source) = {}, "source_unresolved"),
    Reason(\/ Cardinality(OwnersOf(seen, target.source)) # 1
           \/ Cardinality(SelectsOf(f, target.source)) # 1, "source_ambiguous"),
    Reason(\E r \in DOMAIN seen : seen[r].selector # slot /\ seen[r].source = slot,
           "referenced_target") >>)

DetachPlan(f, slot, samples) ==
  LET refused(status, reason) == Verdict(status, [NoDetachment EXCEPT !.reason = reason])
      sized(target, base) ==
        Verdict("ok",
          [frame_bytes     |-> base + NewRecordBytes(Len(samples)),
           workspace_bytes |-> base + (base + NewRecordBytes(Len(samples))),
           intermediate    |-> base,
           sample_bytes    |-> Len(samples),
           allocation      |-> AllocationBytes(Len(samples)),
           data            |-> target.data,
           slot            |-> slot,
           source          |-> target.source,
           reason          |-> "none"])
      judged(seen, target) ==
        IF DetachReason(f, seen, target, slot) # "none"
        THEN refused("parse", DetachReason(f, seen, target, slot))
        ELSE sized(target, FrameLen(f) - target.data.length)
      parsed(parse) ==
        IF ExactStatus(f, parse) # "ok" THEN refused("frame", "none")
        ELSE IF Named(parse.stream.seen, slot) = {} THEN refused("range", "missing_target")
        ELSE judged(parse.stream.seen, parse.stream.seen[Max(Named(parse.stream.seen, slot))])
  IN  IF slot >= MelodicSlots THEN refused("range", "slot_out_of_range")
      ELSE IF samples = <<>> THEN refused("range", "none")
      ELSE parsed(Parsed(f))

(* Mutant: one packet only is stripped. *)
StrippedOnce(f, span, room) ==
  LET kept == [i \in DOMAIN f |-> IF OffsetOf(f, i) = span.offset THEN <<>> ELSE <<f[i]>>]
  IN  Rewritten(f, kept, room)

Stripped(f, span, room) ==
  LET kept == [i \in DOMAIN f |-> IF Within(f, i, span) THEN <<>> ELSE <<f[i]>>]
  IN  IF \E i \in DOMAIN f : Within(f, i, span) /\ f[i].tag = "other"
      THEN Failed("frame") ELSE Rewritten(f, kept, room)

DetachRebuild(f, slot, samples, plan, workspace, capacity) ==
  LET inserted(base, insertion) ==
        IF insertion.status # "ok" \/ insertion.plan.frame_bytes # plan.frame_bytes
        THEN Failed("frame")
        ELSE InsertRebuild(base, slot, samples, insertion.plan,
                           workspace - plan.intermediate, capacity)
      stripped(base) ==
        IF base.status # "ok" \/ FrameLen(base.frame) # plan.intermediate
        THEN Failed("frame")
        ELSE inserted(base.frame, InsertPlan(base.frame, slot, samples))
  IN  IF DetachPlan(f, slot, samples) # Verdict("ok", plan) THEN Failed("invalid_arg")
      ELSE IF workspace < plan.workspace_bytes \/ capacity < plan.frame_bytes
      THEN Failed("buffer_too_small")
      ELSE stripped(Stripped(f, plan.data, plan.intermediate))

(***************************************************************************)
(* Range: other coordinates for a record, within the pool it refers to.    *)
(***************************************************************************)
NoRange ==
  [frame_bytes |-> 0, target |-> NoIndex, data |-> NoSpan, pool |-> NoIndex,
   allocation |-> 0, start |-> 0, end |-> 0, selector |-> NoSelector,
   source |-> NoSelector, reason |-> "none"]

RangePlan(f, t, start, end) ==
  LET refused(status, reason) == Verdict(status, [NoRange EXCEPT !.reason = reason])
      sized(seen, target, allocation) ==
        IF start >= end \/ end >= allocation THEN refused("range", "invalid_range")
        ELSE Verdict("ok",
               [frame_bytes |-> FrameLen(f), target |-> t, data |-> target.data,
                pool |-> PoolNamed(seen, target.source), allocation |-> allocation,
                start |-> start, end |-> end, selector |-> target.selector,
                source |-> target.source, reason |-> "none"])
      judged(seen, target, owners) ==
        IF Cardinality(Named(seen, target.selector)) > 1
        THEN refused("parse", "duplicate_target")
        ELSE IF "unknown_extension" \in target.flags
        THEN refused("parse", "unknown_target_extension")
        ELSE IF owners = {} THEN refused("parse", "source_unresolved")
        ELSE IF Cardinality(owners) > 1 THEN refused("parse", "source_ambiguous")
        ELSE sized(seen, target, SampleBytes(seen[Max(owners)]))
      parsed(parse, seen) ==
        IF ExactStatus(f, parse) # "ok" THEN refused("frame", "none")
        ELSE IF t \notin DOMAIN seen THEN refused("range", "target_out_of_range")
        ELSE judged(seen, seen[t], OwnersOf(seen, seen[t].source))
  IN  parsed(Parsed(f), Parsed(f).stream.seen)

(* The bytes of the range are patched wherever packets split them. *)
DataBefore(f, i, span) ==
  LET before == { j \in 1..(i - 1) : Within(f, j, span) /\ f[j].tag = "data" }
  IN  MapThenSumSet(LAMBDA j : Len(f[j].payload), before)

(* Mutant: the header is taken to be in one packet. *)
PatchedWhole(f, i, plan) ==
  LET raw == RawBytes(plan.start) \o RawBytes(plan.end)
  IN  [f[i] EXCEPT !.payload = [k \in DOMAIN @ |-> IF k <= Len(raw) THEN raw[k] ELSE @[k]]]

Patched(f, i, plan) ==
  LET raw    == RawBytes(plan.start) \o RawBytes(plan.end)
      before == DataBefore(f, i, plan.data)
  IN  [f[i] EXCEPT !.payload =
         [k \in DOMAIN @ |-> IF before + k <= Len(raw) THEN raw[before + k] ELSE @[k]]]

RangeRebuild(f, t, start, end, plan, workspace, capacity) ==
  LET patched == [i \in DOMAIN f |-> IF f[i].tag = "data" /\ Within(f, i, plan.data)
                                     THEN <<Patched(f, i, plan)>> ELSE <<f[i]>>]
      checked(result) ==
        IF /\ result.status = "ok"
           /\ \/ FrameLen(result.frame) # plan.frame_bytes
              \/ DataBefore(f, Len(f) + 1, plan.data) < 2 * RangeBytes
        THEN Failed("frame") ELSE result
  IN  IF RangePlan(f, t, start, end) # Verdict("ok", plan) THEN Failed("invalid_arg")
      ELSE IF workspace < plan.frame_bytes \/ capacity < plan.frame_bytes
      THEN Failed("buffer_too_small")
      ELSE checked(Rewritten(f, patched, workspace))

(***************************************************************************)
(* The transfer of a single sound.                                         *)
(***************************************************************************)
TransferBytes(bytes) == PreambleBytes + 3 * OverheadBytes + 1 + NewRecordBytes(bytes)

TransferBuild(slot, samples, capacity) ==
  IF slot >= MelodicSlots \/ samples = <<>> THEN Failed("range")
  ELSE IF capacity < TransferBytes(Len(samples)) THEN Failed("buffer_too_small")
  ELSE Built(<<Select(slot)>> \o SampleRecord(slot, samples), capacity)

(***************************************************************************)
(* A frame as a backup: the packets before the first selector, and a group *)
(* for every selector.                                                     *)
(***************************************************************************)
SoundOf(data) ==
  IF data = <<>> THEN [range |-> <<>>, source |-> NoSelector, audio |-> <<>>]
  ELSE [range  |-> SubSeq(data, 1, 2 * RangeBytes),
        source |-> data[HeaderBytes],
        audio  |-> SubSeq(data, HeaderBytes + 1, Len(data))]

Gathered(sofar, p) ==
  CASE p.tag \in {"begin", "end"} -> sofar
    [] p.tag = "select" ->
         [sofar EXCEPT !.groups = Append(@, [selector |-> p.payload[1], data |-> <<>>,
                                             extension |-> <<>>])]
    [] p.tag = "data"  -> [sofar EXCEPT !.groups[Len(sofar.groups)].data = @ \o p.payload]
    [] p.tag = "other" -> IF sofar.groups = <<>> THEN [sofar EXCEPT !.settings = Append(@, p)]
                          ELSE [sofar EXCEPT !.groups[Len(sofar.groups)].extension = Append(@, p)]

BackupIn(f) ==
  LET gathered == FoldLeft(Gathered, [settings |-> <<>>, groups |-> <<>>], f)
  IN  [gathered EXCEPT !.groups =
         [g \in DOMAIN @ |-> [selector  |-> @[g].selector,
                              sound     |-> SoundOf(@[g].data),
                              extension |-> @[g].extension]]]

(***************************************************************************)
(* The calls.  A plan is kept in the caller's hands for as long as it      *)
(* likes, and may be handed to a rebuild of another frame, for another       *)
(* request, or with too little room.                                       *)
(***************************************************************************)
Requests ==
  [kind : {"insert", "detach"}, slot : Slots, samples : SampleRuns]
    \cup [kind : {"range"}, target : Targets, range : RawRanges]

Planned(f, q) ==
  CASE q.kind = "insert" -> InsertPlan(f, q.slot, q.samples)
    [] q.kind = "detach" -> DetachPlan(f, q.slot, q.samples)
    [] q.kind = "range"  -> RangePlan(f, q.target, q.range[1], q.range[2])

Rebuilt(f, q, plan, workspace, capacity) ==
  CASE q.kind = "insert" -> InsertRebuild(f, q.slot, q.samples, plan, workspace, capacity)
    [] q.kind = "detach" -> DetachRebuild(f, q.slot, q.samples, plan, workspace, capacity)
    [] q.kind = "range"  ->
         RangeRebuild(f, q.target, q.range[1], q.range[2], plan, workspace, capacity)

WorkspaceBytes(kind, plan) ==
  IF kind = "detach" THEN plan.workspace_bytes ELSE plan.frame_bytes

NoCall ==
  [call |-> "none", kind |-> "none", status |-> "ok", roomy |-> TRUE, asked |-> [kind |-> "none"]]

(* What was asked is kept of a call that gave the caller a frame.          *)
Call(call, q, status, roomy) ==
  [call |-> call, kind |-> q.kind, status |-> status, roomy |-> roomy,
   asked |-> IF call # "plan" /\ status = "ok" THEN q ELSE NoCall.asked]

(* The caller goes on with what came out; a failed call wrote nothing.     *)
GoOnWith(result, slots) ==
  IF result.status # "ok" THEN UNCHANGED <<current, edits, fresh, backup>>
  ELSE /\ current' = result.frame
       /\ backup' = BackupIn(result.frame)
       /\ edits' = edits + 1
       /\ fresh' = slots

NewSlots(q) == IF q.kind = "range" THEN fresh ELSE fresh \cup {q.slot}

Init ==
  /\ current \in Frames
  /\ held = [kind |-> "none"]
  /\ last = NoCall
  /\ edits = 0
  /\ fresh = {}
  /\ backup = BackupIn(current)

Plan(q) ==
  \E verdict \in {Planned(current, q)} :
    /\ held' = [kind |-> q.kind, plan |-> verdict.plan]
    /\ last' = Call("plan", q, verdict.status, TRUE)
    /\ UNCHANGED <<current, edits, fresh, backup>>

(* With the plan held, for any request of its kind. *)
Rebuild(q, roomy) ==
  /\ edits < MaxEdits
  /\ held.kind = q.kind
  /\ \E workspace \in {WorkspaceBytes(q.kind, held.plan) - (IF roomy THEN 0 ELSE 1)} :
     \E result \in {Rebuilt(current, q, held.plan, workspace, held.plan.frame_bytes)} :
       /\ GoOnWith(result, NewSlots(q))
       /\ last' = Call("rebuild", q, result.status, roomy)
  /\ UNCHANGED held

(* With a plan made at once, while another is held. *)
Edit(q) ==
  /\ edits < MaxEdits
  /\ \E verdict \in {Planned(current, q)} :
       /\ verdict.status = "ok"
       /\ \E result \in {Rebuilt(current, q, verdict.plan,
                                 WorkspaceBytes(q.kind, verdict.plan),
                                 verdict.plan.frame_bytes)} :
            /\ GoOnWith(result, NewSlots(q))
            /\ last' = Call("edit", q, result.status, TRUE)
  /\ UNCHANGED held

Transfer(slot, samples, roomy) ==
  /\ edits < MaxEdits
  /\ \E capacity \in {TransferBytes(Len(samples)) - (IF roomy THEN 0 ELSE 1)} :
     \E result \in {TransferBuild(slot, samples, capacity)} :
       /\ GoOnWith(result, {slot})
       /\ last' = Call("transfer", [kind |-> "transfer", slot |-> slot, samples |-> samples],
                       result.status, roomy)
  /\ UNCHANGED held

Next ==
  \/ \E q \in Requests : Plan(q)
  \/ \E slot \in Slots, samples \in SampleRuns, roomy \in BOOLEAN :
       Transfer(slot, samples, roomy)
  \/ \E q \in Requests, roomy \in BOOLEAN : Rebuild(q, roomy)
  \/ \E q \in Requests : Edit(q)

Spec == Init /\ [][Next]_editsVars

-----------------------------------------------------------------------------
(***************************************************************************)
(* Properties.                                                             *)
(***************************************************************************)
Statuses == {"ok", "range", "frame", "parse", "invalid_arg", "buffer_too_small"}

(* What the caller has is a frame of packets; calls answer with a status.  *)
EditsTypeOK ==
  /\ \A i \in DOMAIN current :
       /\ current[i].tag \in Tags
       /\ Len(current[i].payload) <= MaxPayload
       /\ \A k \in DOMAIN current[i].payload : current[i].payload[k] \in 0..255
  /\ held.kind \in {"none", "insert", "detach", "range"}
  /\ last.status \in Statuses
  /\ edits \in 0..MaxEdits
  /\ fresh \subseteq Slots

(* A plan is a promise: a rebuild with the plan just made, and the room it *)
(* names, never fails, so that the errors of the packet callbacks and of   *)
(* the final size check are out of reach; and a rebuild with less room     *)
(* says so, if it gets that far.                                           *)
RebuildsFollowPlans ==
  /\ last.call \in {"edit", "rebuild"} => last.status # "frame"
  /\ last.call = "edit" => last.status = "ok"
  /\ last.status = "buffer_too_small" => ~last.roomy
  /\ last.call \in {"rebuild", "transfer"} /\ ~last.roomy => last.status # "ok"

StoredRange(start, end) == RawBytes(start) \o RawBytes(end)

Backup == INSTANCE Po33Backup
  WITH settings <- backup.settings, groups <- backup.groups, asked <- last.asked, Stored <- StoredRange

(* Every sequence of these calls, with fresh plans or stale ones, edits a  *)
(* backup as its owner would expect: the group asked for gets the samples  *)
(* or the range asked for, only where that is allowed, and nothing else is *)
(* different.                                                              *)
ImplementsBackup == Backup!Spec

(* A sound just recorded is one the other edits take: samples of every     *)
(* length may replace it at full range, its account can be drawn up, and   *)
(* its range may be set anywhere below its last byte.                      *)
NewSoundsAreEditable ==
  \A slot \in fresh :
    \E t \in {CHOOSE t \in Named(Parsed(current).stream.seen, slot) : TRUE} :
      /\ \A run \in SampleRuns \ {<<>>} : EditPlan(current, t, Len(run), TRUE).status = "ok"
      /\ RangePlan(current, t, 0, SampleBytes(Parsed(current).stream.seen[t]) - 1).status = "ok"

(* The account follows: a recording adds one pool of the allocation its    *)
(* plan named, as the projection of that change says it would; setting a   *)
(* range changes no account.                                               *)
AccountFollowsEdits ==
  [][ last'.call \in {"edit", "rebuild"} /\ CapacityMeasure(current).status = "ok" =>
        \E before \in {CapacityMeasure(current).report},
           after \in {CapacityMeasure(current')} :
          /\ after.status = "ok"
          /\ IF last'.kind = "range" THEN after.report = before
             ELSE /\ after.report.pools = before.pools + 1
                  /\ after.report.unaligned = before.unaligned
                  /\ last'.call = "rebuild" =>
                       after.report.rounded = Projected(before, 0, held.plan.allocation)
    ]_current

=============================================================================
