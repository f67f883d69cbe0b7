---------------------------- MODULE Po33Topology ----------------------------
(***************************************************************************)
(* A PO-33 frame read packet by packet by the sound stream of              *)
(* src/core/src/po33.c (topology_parse_records), from any sender: packets  *)
(* come in any order, the parser and the stream decide what to make of     *)
(* them.  Once END is read, what the stream saw is the input of the        *)
(* topology and the plans of module Po33Plans.                             *)
(***************************************************************************)
EXTENDS Po33Plans

CONSTANTS Packets,      \* the packets a frame may hold
          MaxPackets,   \* how many of them at most
          Requests      \* the sample lengths plans are asked for

ASSUME PacketsAssumption ==
  Packets \subseteq [tag : Tags, payload : Seq(0..255)]
ASSUME RequestsAssumption == MaxPackets \in Nat /\ Requests \subseteq Nat

VARIABLES frame,    \* the packets received
          parse     \* the parser and its stream after them

topologyVars == <<frame, parse>>

TopologyInit == frame = <<>> /\ parse = NewParse

(* The next packet; one more after END, which only some callers mind. *)
Receive(p) ==
  /\ parse.status \in {"more", "done"} /\ parse.count = Len(frame)
  /\ Len(frame) < MaxPackets
  /\ frame' = Append(frame, p)
  /\ parse' = ParseStep(parse, p)

TopologyNext == \E p \in Packets : Receive(p)

TopologySpec == TopologyInit /\ [][TopologyNext]_topologyVars

-----------------------------------------------------------------------------
(***************************************************************************)
(* Properties.                                                             *)
(***************************************************************************)
(* Every field holds a value of its C type. *)
TopologyTypeOK ==
  /\ frame \in Seq(Packets)
  /\ parse.pos \in Nat /\ parse.count \in Nat
  /\ parse.status \in {"more", "done", "stopped", "bad"}
  /\ parse.stream.status \in {"ok", "frame"}
  /\ parse.stream.record \in Gathering
  /\ parse.stream.seen \in Seq(Observation)

(* Spans lie in the frame in the order of the packets and do not overlap:  *)
(* a record's selector, its data, the next record's selector.  A data      *)
(* span is longer than the data in it by a packet's overhead at least.     *)
(* Subtractions between offsets (data length, growth of a span) never      *)
(* wrap, and the boundary checks of both plans rest on it.                 *)
SpansInOrder ==
  LET seen == parse.stream.seen
      r    == parse.stream.record
  IN  /\ \A i \in DOMAIN seen :
           /\ PreambleBytes <= seen[i].selection.offset
           /\ SpanEnd(seen[i].selection) <= seen[i].data.offset
           /\ seen[i].data.length >= seen[i].data_bytes + OverheadBytes
           /\ SpanEnd(seen[i].data) <= parse.pos
           /\ i + 1 \in DOMAIN seen =>
                SpanEnd(seen[i].data) <= seen[i+1].selection.offset
           /\ r.active => SpanEnd(seen[i].data) <= r.selection.offset
      /\ r.active => SpanEnd(r.selection) <= parse.pos
      /\ r.have_data =>
           /\ r.active
           /\ SpanEnd(r.selection) <= r.first
           /\ r.end >= r.first + r.data_bytes + OverheadBytes
           /\ r.end <= parse.pos

(* The records are exactly the groups of the frame: one for each selector  *)
(* with data before the next selector or END, in order; its header the     *)
(* first bytes of the group's data, wherever packets split it; its span    *)
(* from the group's first data packet to its last; marked as extended if   *)
(* anything else stands in the group, before, between or after the data.   *)
RecordsAreGroups ==
  parse.status = "done" =>
    LET begun == Recorded(frame, parse.count)
    IN  parse.stream.seen = [k \in 1..Cardinality(begun) |-> GroupAt(frame, Nth(begun, k))]

(* The plan over the topology and the plan over the frame are two          *)
(* implementations of one decision: for every record and every length they *)
(* return the same status, the same reason and the same figures.           *)
Exact == ExactStatus(frame, parse) = "ok"

PlansAgree ==
  Exact =>
    \A t \in 1..(Len(parse.stream.seen) + 1), n \in Requests :
      LET over_topology == ReplacementPlan(Topology(parse.stream.seen), t, n)
          over_frame    == EditPlan(frame, t, n, FALSE)
      IN  /\ over_topology.status = over_frame.status
          /\ over_topology.plan = over_frame.edit.replacement

(* The counters of the two measuring passes, which stop at two, and the    *)
(* topology they make room for agree: a build in arrays of exactly the     *)
(* required sizes fills them and writes nothing past them.                 *)
RequirementsAreExact ==
  RecordsStatus(parse) = "ok" =>
    LET need == Requirements(parse.stream.seen)
        top  == Topology(parse.stream.seen)
    IN  /\ need.records = Len(top.records)
        /\ need.pools = Len(top.pools)
        /\ need.references = Len(top.references)

(* A plan is granted only when replacing the samples can surprise nobody:  *)
(* no other record has the target's selector, every record whose source    *)
(* names that selector refers to the target's pool, nobody else does, and  *)
(* the plan counts them all.  And no plan is ever refused for the          *)
(* boundaries of a group: the topology of a frame has sound ones.          *)
GrantedPlansAreUnambiguous ==
  Exact =>
    LET seen == parse.stream.seen
        top  == Topology(seen)
    IN  \A t \in DOMAIN seen, n \in Requests :
          LET verdict == ReplacementPlan(top, t, n)
              sharers == { i \in DOMAIN seen : seen[i].source = seen[t].selector }
          IN  /\ verdict.plan.reason # "ambiguous_group_boundary"
              /\ verdict.status = "ok" =>
                   /\ Named(seen, seen[t].selector) = {t}
                   /\ sharers = { i \in DOMAIN seen :
                                    top.records[i].referenced = verdict.plan.pool }
                   /\ verdict.plan.affected = Cardinality(sharers \cup {t})
                   /\ verdict.plan.required >= n

(* What the stream recorded are the groups of the frame, of their types,   *)
(* and as many as were counted for.                                        *)
RecordsAreExact == TopologyTypeOK /\ RecordsAreGroups /\ RequirementsAreExact


=============================================================================
