---------------------------- MODULE Po33PoolEdit ----------------------------
(***************************************************************************)
(* Replacing the samples of a pool in a PO-33 frame: a caller plans the    *)
(* edit (po33_pool_edit_plan, po33_sample_edit_plan), perhaps changes its  *)
(* mind about frame or samples, and has the frame rebuilt in a workspace   *)
(* from which it is copied out (pool_edit_rebuild_internal of              *)
(* src/core/src/po33.c, one step per packet of the old frame).             *)
(*                                                                         *)
(* Buffers do not overlap: the checks that refuse overlapping ones are     *)
(* left out.  A packet is as in module Po33Sound.                          *)
(***************************************************************************)
EXTENDS Po33Plans

CONSTANTS Frames,       \* the frames a caller may start from
          Substitutes,  \* those it may turn to after planning
          Targets,      \* record indices it may ask for
          SampleRuns    \* the samples it may bring

ASSUME CallerAssumption ==
  /\ Frames \cup Substitutes \subseteq Seq([tag : Tags, payload : Seq(0..255)])
  /\ Targets \subseteq Nat /\ SampleRuns \subseteq Seq(0..255)

VARIABLES frame, target, samples, full,  \* the arguments of the calls
          stage,      \* what the caller and the rebuild are at
          status,     \* what the last call returned
          plan,       \* the plan the caller holds
          expected,   \* the plan the rebuild made again, and works by
          room,       \* workspace_bytes and out_capacity
          at,         \* the packet of the old frame the parser hands over next
          rebuild,    \* po33_pool_edit_rebuild_t and the builder in it
          out         \* the packets in out_frame, none while *out_frame_bytes is 0

arguments == <<frame, target, samples, full>>
editVars  == <<arguments, stage, status, plan, expected, room, at, rebuild, out>>

NoRebuild ==
  [packets |-> <<>>, length |-> 0, logical |-> 0, finished |-> FALSE, status |-> "ok"]

EditInit ==
  /\ frame \in Frames /\ target \in Targets /\ samples \in SampleRuns /\ full \in BOOLEAN
  /\ stage = "asking" /\ status = "ok" /\ plan = NoEdit /\ expected = NoEdit
  /\ room = 0 /\ at = 1 /\ rebuild = NoRebuild /\ out = <<>>

(***************************************************************************)
(* The payloads.                                                           *)
(***************************************************************************)
SampleAt(i) == IF i <= Len(samples) THEN samples[i] ELSE 0

(* The bytes of a range that begins at 0 and ends with the samples. *)
LengthByte(i) == (Len(samples) \div 256^i) % 256

(* The byte the pool's data has at index i, counted from 1, where b was.   *)
(* Mutant: the header a full edit writes has its halves swapped.           *)
DataByteSwapped(i, b) ==
  IF full /\ i <= RangeBytes THEN LengthByte(i - 1)
  ELSE IF full /\ i <= 2 * RangeBytes THEN 0
  ELSE IF i <= HeaderBytes THEN b ELSE SampleAt(i - HeaderBytes)

DataByte(i, b) ==
  IF full /\ i <= RangeBytes THEN 0
  ELSE IF full /\ i <= 2 * RangeBytes THEN LengthByte(i - RangeBytes - 1)
  ELSE IF i <= HeaderBytes THEN b ELSE SampleAt(i - HeaderBytes)

Replaced(logical, payload) ==
  [j \in DOMAIN payload |-> DataByte(logical + j, payload[j])]

(* The packets that add growth bytes: block by block, each block in        *)
(* packets as long as they may be and a shorter one.                       *)
ChunksPerBlock == (BlockBytes + MaxPayload - 1) \div MaxPayload

ChunkStart(k) == (k \div ChunksPerBlock) * BlockBytes + (k % ChunksPerBlock) * MaxPayload

ChunkLen(k) == Smaller(MaxPayload, BlockBytes - (k % ChunksPerBlock) * MaxPayload)

(* Mutant: the samples of every block begin with those of the first. *)
GrowthPacketsRepeating(existing, growth) ==
  [k \in 1..((growth \div BlockBytes) * ChunksPerBlock) |->
     [tag |-> "data",
      payload |-> [j \in 1..ChunkLen(k - 1) |->
                     SampleAt(existing + ChunkStart((k - 1) % ChunksPerBlock) + j)]]]

GrowthPackets(existing, growth) ==
  [k \in 1..((growth \div BlockBytes) * ChunksPerBlock) |->
     [tag |-> "data",
      payload |-> [j \in 1..ChunkLen(k - 1) |-> SampleAt(existing + ChunkStart(k - 1) + j)]]]

(***************************************************************************)
(* One packet of the old frame (pool_edit_rebuild_packet).  BEGIN and END  *)
(* are the builder's to write.                                             *)
(***************************************************************************)
Appended(r, packets) ==
  IF r.length + WireBytes(packets) > room THEN [r EXCEPT !.status = "buffer_too_small"]
  ELSE [r EXCEPT !.packets = @ \o packets, !.length = @ + WireBytes(packets)]

InTarget(offset) == expected.data.offset <= offset /\ offset < SpanEnd(expected.data)

TargetDataBytes == HeaderBytes + expected.replacement.existing

Grown(r, offset, p) ==
  IF r.status = "ok" /\ offset + WireLen(p) = SpanEnd(expected.data)
  THEN LET grown == Appended(r, GrowthPackets(expected.replacement.existing,
                                              expected.replacement.growth))
       IN  [grown EXCEPT !.finished = (grown.status = "ok")]
  ELSE r

RebuildStep(r, offset, p) ==
  IF p.tag \in {"begin", "end"} THEN r
  ELSE IF ~InTarget(offset) THEN Appended(r, <<p>>)
  ELSE IF \/ p.tag # "data"
          \/ offset + WireLen(p) > SpanEnd(expected.data)
          \/ r.logical + Len(p.payload) > TargetDataBytes
  THEN [r EXCEPT !.status = "frame"]
  ELSE Grown(Appended([r EXCEPT !.logical = @ + Len(p.payload)],
                      <<[p EXCEPT !.payload = Replaced(r.logical, @)]>>),
             offset, p)

(***************************************************************************)
(* The calls.                                                              *)
(***************************************************************************)
Plan ==
  LET keep(verdict) == /\ plan' = verdict.edit
                       /\ status' = verdict.status
                       /\ stage' = IF verdict.status = "ok" THEN "planned" ELSE "ended"
  IN  /\ stage = "asking"
      /\ keep(EditPlan(frame, target, Len(samples), full))
      /\ UNCHANGED <<arguments, expected, room, at, rebuild, out>>

ChangeSamples(run) ==
  /\ stage = "planned" /\ samples' = run
  /\ UNCHANGED <<frame, target, full, stage, status, plan, expected, room, at, rebuild, out>>

ChangeFrame(other) ==
  /\ stage = "planned" /\ frame' = other
  /\ UNCHANGED <<target, samples, full, stage, status, plan, expected, room, at, rebuild, out>>

(* The plan is made again and compared before anything is written. *)
(* Mutant: the figures are compared, the place is not. *)
PlanMatchesLoosely(verdict) ==
  verdict.status = "ok" /\ verdict.edit.replacement = plan.replacement

PlanMatches(verdict) == verdict.status = "ok" /\ verdict.edit = plan

RebuildBegin(bytes) ==
  LET begin(verdict) ==
        IF ~PlanMatches(verdict)
        THEN status' = "invalid_arg" /\ stage' = "ended" /\ UNCHANGED <<expected, rebuild>>
        ELSE IF bytes < verdict.edit.frame_bytes
        THEN status' = "buffer_too_small" /\ stage' = "ended" /\ UNCHANGED <<expected, rebuild>>
        ELSE /\ status' = "ok" /\ stage' = "rebuilding" /\ expected' = verdict.edit
             /\ rebuild' = [NoRebuild EXCEPT !.packets = <<[tag |-> "begin", payload |-> <<>>]>>,
                                             !.length = PreambleBytes + OverheadBytes]
  IN  /\ stage = "planned"
      /\ room' = bytes
      /\ begin(EditPlan(frame, target, Len(samples), full))
      /\ UNCHANGED <<arguments, plan, at, out>>

RebuildPacket ==
  /\ stage = "rebuilding" /\ at <= Len(frame)
  /\ rebuild' = RebuildStep(rebuild, OffsetOf(frame, at), frame[at])
  /\ status' = rebuild'.status
  /\ stage' = IF status' = "ok" THEN "rebuilding" ELSE "ended"
  /\ at' = at + 1
  /\ UNCHANGED <<arguments, plan, expected, room, out>>

(* The builder writes END; only then is the workspace copied out. *)
RebuildEnd ==
  LET end == [tag |-> "end", payload |-> <<>>]
      closed == Appended(rebuild, <<end>>)
  IN  /\ stage = "rebuilding" /\ at > Len(frame)
      /\ status' = IF ~rebuild.finished \/ rebuild.logical # TargetDataBytes THEN "frame"
                   ELSE IF closed.status = "ok" /\ closed.length # expected.frame_bytes
                   THEN "frame" ELSE closed.status
      /\ out' = IF status' = "ok" THEN closed.packets ELSE out
      /\ stage' = IF status' = "ok" THEN "rebuilt" ELSE "ended"
      /\ UNCHANGED <<arguments, plan, expected, room, at, rebuild>>

Rooms == {plan.frame_bytes - 1, plan.frame_bytes}

EditNext ==
  \/ Plan
  \/ \E run \in SampleRuns : ChangeSamples(run)
  \/ \E other \in Substitutes : ChangeFrame(other)
  \/ \E bytes \in Rooms : RebuildBegin(bytes)
  \/ RebuildPacket
  \/ RebuildEnd

EditSpec == EditInit /\ [][EditNext]_editVars

-----------------------------------------------------------------------------
(***************************************************************************)
(* Properties.                                                             *)
(***************************************************************************)
Statuses == {"ok", "range", "frame", "parse", "invalid_arg", "buffer_too_small"}

(* Every field holds a value of its C type. *)
EditTypeOK ==
  /\ stage \in {"asking", "planned", "rebuilding", "rebuilt", "ended"}
  /\ status \in Statuses
  /\ plan.frame_bytes \in Nat /\ plan.target \in Nat /\ plan.selector \in 0..255
  /\ plan.replacement.existing \in Nat /\ plan.replacement.growth \in Nat
  /\ stage = "rebuilding" => expected.frame_bytes \in Nat
  /\ room \in Int /\ at \in 1..(Len(frame) + 1)
  /\ rebuild.length \in Nat /\ rebuild.logical \in Nat /\ rebuild.finished \in BOOLEAN
  /\ rebuild.status \in Statuses

(* A plan's sizes are exact: at every packet what the builder has written, *)
(* what is left of the old frame and the growth still to come add up to    *)
(* the planned size.  A rebuild that begins is therefore never cut short   *)
(* by its own buffers, and ends with a frame, not with an error.           *)
StillToGrow ==
  IF rebuild.finished THEN 0
  ELSE WireBytes(GrowthPackets(plan.replacement.existing, plan.replacement.growth))

Remaining ==
  FrameLen(frame) - OffsetOf(frame, IF at = 1 THEN 2 ELSE at)

PlannedSizesAreExact ==
  /\ stage = "rebuilding" =>
       rebuild.length + Remaining + StillToGrow
         + (IF at > Len(frame) THEN OverheadBytes ELSE 0) = plan.frame_bytes
  /\ stage \in {"rebuilding", "rebuilt"} => status = "ok"
  /\ rebuild # NoRebuild => stage \in {"rebuilding", "rebuilt"}

(* What comes out is the old frame with one pool's samples replaced: the   *)
(* same records in the same order, and of each but the target the same     *)
(* selector, header, data length and relations; only places move, by the   *)
(* planned growth, and only behind the target.  The target keeps its       *)
(* selector and source, and its range unless a full edit set it.           *)
RecordsIn(f) == Topology(Parsed(f).stream.seen).records

Moved(span, growth) == [span EXCEPT !.offset = @ + growth]

WireGrowth == plan.frame_bytes - FrameLen(frame)

Untouched(old, new) ==
  new = IF old.data.offset > plan.data.offset
        THEN [old EXCEPT !.data = Moved(@, WireGrowth), !.selection = Moved(@, WireGrowth)]
        ELSE old

TargetRange(old) ==
  IF ~full THEN old.range
  ELSE [i \in 1..(2 * RangeBytes) |->
          IF i <= RangeBytes THEN 0 ELSE (Len(samples) \div 256^(i - RangeBytes - 1)) % 256]

OthersUpTo(f) ==
  LET run[k \in 0..Len(f)] ==
        IF k = 0 THEN <<>>
        ELSE IF f[k].tag = "other" THEN Append(run[k-1], f[k]) ELSE run[k-1]
  IN  run

OthersOf(f) == OthersUpTo(f)[Len(f)]

OnlyTheTargetChanges ==
  stage = "rebuilt" =>
    /\ ExactStatus(out, Parsed(out)) = "ok"
    /\ DOMAIN RecordsIn(out) = DOMAIN RecordsIn(frame)
    /\ \A i \in DOMAIN RecordsIn(frame) :
         IF i # target THEN Untouched(RecordsIn(frame)[i], RecordsIn(out)[i])
         ELSE RecordsIn(out)[i] =
                [RecordsIn(frame)[i] EXCEPT !.range = TargetRange(RecordsIn(frame)[i]),
                                            !.data.length = @ + WireGrowth]
    /\ OthersOf(out) = OthersOf(frame)

(* The target's pool then holds the samples, all of them and in order,     *)
(* and silence behind them to the end of its allocation; a full edit       *)
(* leaves at least the guard byte silent.                                  *)
PoolData(f, span) ==
  FlattenSeq([j \in DOMAIN f |->
    IF f[j].tag = "data" /\ span.offset <= OffsetOf(f, j) /\ OffsetOf(f, j) < SpanEnd(span)
    THEN f[j].payload ELSE <<>>])

SamplesArrive ==
  stage = "rebuilt" =>
    LET data == PoolData(out, RecordsIn(out)[target].data)
        body == SubSeq(data, HeaderBytes + 1, Len(data))
    IN  /\ Len(body) = plan.replacement.required
        /\ SubSeq(body, 1, Len(samples)) = samples
        /\ \A i \in (Len(samples) + 1)..Len(body) : body[i] = 0
        /\ full => Len(body) > Len(samples)

(* An edit settles: for the frame that came out, the same edit is planned  *)
(* again, fits without growth and has the size of that frame.              *)
EditSettles ==
  stage = "rebuilt" =>
    LET again == EditPlan(out, target, Len(samples), full)
    IN  /\ again.status = "ok"
        /\ again.edit.replacement.fits
        /\ again.edit.frame_bytes = FrameLen(out)

(* The account projected for the planned change is the account of the      *)
(* frame that comes out.                                                   *)
ProjectionHolds ==
  stage = "rebuilt" =>
    LET before == CapacityMeasure(frame)
        after  == CapacityMeasure(out)
    IN  before.status = "ok" =>
          /\ after.status = "ok"
          /\ after.report.rounded =
               Projected(before.report, plan.replacement.existing, plan.replacement.required)
          /\ after.report.pools = before.report.pools
          /\ after.report.shared = before.report.shared

(* The samples are there, in a frame that can be edited on.                *)
SamplesStay == EditTypeOK /\ SamplesArrive /\ EditSettles


=============================================================================
