----------------------------- MODULE Po33Plans ------------------------------
(***************************************************************************)
(* What src/core/src/po33.c says about replacing the samples of a pool     *)
(* before anything is written: the plan over a topology                    *)
(* (po33_pool_replacement_plan), the plan over a frame                     *)
(* (pool_edit_plan_internal, behind po33_pool_edit_plan and                *)
(* po33_sample_edit_plan), and the account of sample storage.              *)
(*                                                                         *)
(* The two plans are two pieces of code for one question.  Guards against  *)
(* sums beyond SIZE_MAX are left out: no size here comes near it.          *)
(***************************************************************************)
EXTENDS Po33Sound

NoPlan ==
  [reason |-> "none", pool |-> NoIndex, requested |-> 0, existing |-> 0,
   required |-> 0, growth |-> 0, references |-> 0, affected |-> 0,
   fits |-> FALSE, growth_required |-> FALSE, growth_eligible |-> FALSE]

Rounded(bytes) == ((bytes + BlockBytes - 1) \div BlockBytes) * BlockBytes

Granted(plan)                == [status |-> "ok", plan |-> plan]
Refused(plan, status, reason) ==
  [status |-> status, plan |-> [plan EXCEPT !.reason = reason]]

(* The first objection that holds refuses the plan. *)
Objection(holds, status, reason) ==
  [holds |-> holds, status |-> status, reason |-> reason]

Judged(plan, objections) ==
  LET first(held) ==
        IF held = {} THEN Granted([plan EXCEPT !.growth_eligible =
                                     plan.existing % BlockBytes = 0])
        ELSE Refused(plan, objections[Min(held)].status, objections[Min(held)].reason)
  IN  first({ i \in DOMAIN objections : objections[i].holds })

(* Who refers to pool p, and what that says about the plan for it. *)
Counted(plan, p, target, referring) ==
  [plan EXCEPT !.pool = p,
               !.references = Cardinality(referring),
               !.affected   = 1 + Cardinality(referring \ {target})]

Sized(plan, existing, wanted) ==
  LET sized(required) ==
        [plan EXCEPT !.existing = existing, !.required = required,
                     !.growth = required - existing,
                     !.fits = wanted <= existing, !.growth_required = wanted > existing]
  IN  sized(IF wanted <= existing THEN existing ELSE Rounded(wanted))

Unaligned(plan) ==
  Objection(plan.existing % BlockBytes # 0 /\ plan.growth_required,
            "range", "existing_allocation_unaligned")

(***************************************************************************)
(* The plan over a topology.                                               *)
(***************************************************************************)
BoundaryValid(r, pool) ==
  /\ r.selection.length # 0 /\ r.data.length # 0
  /\ r.data = pool.data
  /\ pool.data.length >= pool.data_bytes + OverheadBytes
  /\ SpanEnd(r.selection) <= r.data.offset

Strays(records, selector, p) ==
  \E i \in DOMAIN records :
    \/ records[i].source = selector /\ records[i].referenced # p
    \/ /\ records[i].referenced = p
       /\ \/ records[i].source # selector
          \/ records[i].flags
               \cap {"duplicate_selector", "source_unresolved", "source_ambiguous"} # {}

ReplacementPlan(top, t, requested) ==
  LET asked == [NoPlan EXCEPT !.requested = requested]
      judged(target, pool, counted) ==
        IF \/ pool.owner # t \/ pool.data_bytes <= HeaderBytes
           \/ ~BoundaryValid(target, pool)
           \/ \E k \in DOMAIN top.pools : k # target.owned /\ top.pools[k].owner = t
        THEN Refused(counted, "parse", "ambiguous_group_boundary")
        ELSE LET sized == Sized(counted, pool.data_bytes - HeaderBytes, requested)
             IN  Judged(sized,
                   << Objection("duplicate_selector" \in target.flags,
                                "parse", "duplicate_target_selector"),
                      Objection("source_ambiguous" \in target.flags,
                                "parse", "ambiguous_selector"),
                      Objection("unknown_extension" \in target.flags,
                                "parse", "unknown_target_extension"),
                      Objection(Strays(top.records, target.selector, target.owned),
                                "parse", "ambiguous_selector"),
                      Unaligned(sized) >>)
      owned(target) ==
        IF "header_only" \in target.flags \/ target.owned = NoIndex
        THEN Refused(asked, "range", "target_not_owned")
        ELSE IF target.owned > Len(top.pools)
        THEN Refused(asked, "parse", "ambiguous_group_boundary")
        ELSE judged(target, top.pools[target.owned],
                    Counted(asked, target.owned, t,
                            { i \in DOMAIN top.records :
                                top.records[i].referenced = target.owned }))
  IN  IF t \notin DOMAIN top.records
      THEN Refused(asked, "range", "target_record_out_of_range")
      ELSE owned(top.records[t])

(***************************************************************************)
(* The plan over a frame, for samples of the given length; full asks for   *)
(* the whole pool as range (po33_sample_edit_plan), which takes one more   *)
(* byte, a guard, and a pool nobody else refers to.                        *)
(***************************************************************************)
NoSelector == 255

NoEdit ==
  [frame_bytes |-> 0, target |-> NoIndex, data |-> NoSpan, selector |-> NoSelector,
   replacement |-> NoPlan]

(* Mutant: the overhead must be exceeded. *)
TargetBoundaryStrict(r) ==
  /\ r.selection.length # 0 /\ r.data.length # 0
  /\ r.data_bytes > HeaderBytes
  /\ r.data.length > r.data_bytes + OverheadBytes
  /\ SpanEnd(r.selection) <= r.data.offset

TargetBoundaryValid(r) ==
  /\ r.selection.length # 0 /\ r.data.length # 0
  /\ r.data_bytes > HeaderBytes
  /\ r.data.length >= r.data_bytes + OverheadBytes
  /\ SpanEnd(r.selection) <= r.data.offset

(* What the measure m says of a record, and the pool its source leads to.  *)
EditFlags(m, r) ==
  { f \in {"duplicate_selector"} : m.named[r.selector] > 1 }
  \cup { f \in {"source_unresolved"} : m.owners[r.source] = 0 }
  \cup { f \in {"source_ambiguous"}  : m.owners[r.source] > 1 }

EditReference(m, r) == IF m.owners[r.source] = 1 THEN m.owner_pool[r.source] ELSE NoIndex

EditReferring(m, seen, p) == { i \in DOMAIN seen : EditReference(m, seen[i]) = p }

EditStrays(m, seen, selector, p) ==
  \E i \in DOMAIN seen :
    \/ seen[i].source = selector /\ EditReference(m, seen[i]) # p
    \/ /\ EditReference(m, seen[i]) = p
       /\ seen[i].source # selector \/ EditFlags(m, seen[i]) # {}

NewFrameBytes(frame, plan) ==
  FrameLen(frame)
    + (plan.growth \div BlockBytes) * (BlockBytes + PacketsPerBlock * OverheadBytes)

StorageBytes(bytes, full) == IF full THEN bytes + 1 ELSE bytes

EditPlan(frame, t, bytes, full) ==
  LET asked == [NoPlan EXCEPT !.requested = bytes]
      judged(m, seen, target, counted) ==
        IF ~TargetBoundaryValid(target)
        THEN Refused(counted, "parse", "ambiguous_group_boundary")
        ELSE LET sized == Sized(counted, target.data_bytes - HeaderBytes,
                                StorageBytes(bytes, full))
             IN  Judged(sized,
                   << Objection("duplicate_selector" \in EditFlags(m, target),
                                "parse", "duplicate_target_selector"),
                      Objection("source_ambiguous" \in EditFlags(m, target),
                                "parse", "ambiguous_selector"),
                      Objection("unknown_extension" \in target.flags,
                                "parse", "unknown_target_extension"),
                      Objection(EditStrays(m, seen, target.selector, counted.pool),
                                "parse", "ambiguous_selector"),
                      Objection(full /\ (counted.references # 1
                                           \/ target.source # target.selector),
                                "parse", "not_exclusive"),
                      Unaligned(sized) >>)
      measured(m, seen) ==
        IF t \notin DOMAIN seen
        THEN Refused(asked, "range", "target_record_out_of_range")
        ELSE IF "header_only" \in seen[t].flags \/ PoolOf(seen, t) = NoIndex
        THEN Refused(asked, "range", "target_not_owned")
        ELSE judged(m, seen, seen[t],
                    Counted(asked, PoolOf(seen, t), t,
                            EditReferring(m, seen, PoolOf(seen, t))))
      planned(seen, verdict) ==
        [status |-> verdict.status,
         edit   |-> IF verdict.status # "ok"
                    THEN [NoEdit EXCEPT !.replacement = verdict.plan]
                    ELSE [frame_bytes |-> NewFrameBytes(frame, verdict.plan),
                          target |-> t, data |-> seen[t].data,
                          selector |-> seen[t].selector,
                          replacement |-> verdict.plan]]
      parsed(parse) ==
        IF ExactStatus(frame, parse) # "ok"
        THEN [status |-> "frame", edit |-> NoEdit]
        ELSE planned(parse.stream.seen, measured(Measured(parse.stream.seen), parse.stream.seen))
  IN  IF full /\ bytes = 0 THEN [status |-> "range", edit |-> NoEdit]
      ELSE parsed(Parsed(frame))

(***************************************************************************)
(* The account of sample storage (po33_capacity_measure), and what it      *)
(* would be with one pool changed (po33_capacity_project_pool_change).     *)
(***************************************************************************)
SampleBytes(r) == r.data_bytes - HeaderBytes

(* A selector named twice, with data or without, or anything but data      *)
(* after a selector.                                                       *)
Unsafe(frame) ==
  \E i, j \in DOMAIN frame :
    /\ i < j /\ frame[i].tag = "select"
    /\ \/ frame[j].tag = "other"
       \/ frame[j].tag = "select" /\ frame[j].payload = frame[i].payload

(* What the first k numbers of a run add up to. *)
TotalUpTo(run) ==
  LET sum[k \in 0..Len(run)] == IF k = 0 THEN 0 ELSE sum[k-1] + run[k]
  IN  sum

Total(run) == TotalUpTo(run)[Len(run)]

(* A record without samples adds no bytes. *)
CapacityReport(frame, seen) ==
  LET owning == { i \in DOMAIN seen : OwnsPool(seen[i]) }
  IN  [frame_bytes |-> FrameLen(frame),
       pools       |-> Cardinality(owning),
       aliases     |-> Cardinality(DOMAIN seen \ owning),
       shared      |-> Cardinality({ seen[i].source : i \in
                         { j \in DOMAIN seen : \E k \in DOMAIN seen \ {j} :
                             seen[j].source = seen[k].source } }),
       unaligned   |-> Cardinality({ i \in owning :
                                       SampleBytes(seen[i]) % BlockBytes # 0 }),
       serialized  |-> Total([i \in DOMAIN seen |-> SampleBytes(seen[i])]),
       rounded     |-> Total([i \in DOMAIN seen |-> Rounded(SampleBytes(seen[i]))])]

CapacityMeasure(frame) ==
  LET measured(parse) ==
        IF ExactStatus(frame, parse) # "ok" THEN [status |-> "frame"]
        ELSE IF Unsafe(frame) \/ \E i \in DOMAIN parse.stream.seen :
                  OwnersOf(parse.stream.seen, parse.stream.seen[i].source) = {}
        THEN [status |-> "parse"]
        ELSE [status |-> "ok", report |-> CapacityReport(frame, parse.stream.seen)]
  IN  measured(Parsed(frame))

(* Mutant: the old allocation is still counted. *)
ProjectedTwice(report, old, new) == report.rounded + Rounded(new)

Projected(report, old, new) == report.rounded - Rounded(old) + Rounded(new)

=============================================================================
