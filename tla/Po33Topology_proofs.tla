------------------------- MODULE Po33Topology_proofs -------------------------
(***************************************************************************)
(* What a PO-33 call may rely on before it rebuilds anything.              *)
(*                                                                         *)
(* First the frame it is given (Po33Topology), read packet by packet:      *)
(* types, spans and records of the stream, the sizes of the topology built *)
(* from them, and the two plans of a replacement, one over the topology    *)
(* and one that measures the frame: they agree, and what they grant is     *)
(* unambiguous.  All of it follows from what Po33Sound_proofs says of a    *)
(* frame, once the parser is known to stand where a parse from the start   *)
(* would.                                                                  *)
(*                                                                         *)
(* Then the memory it is given (PoAliases): for every size of memory and   *)
(* every arrangement of the regions in it, a rebuilding call keeps what it *)
(* reads, returns its result whole and refuses only regions that share     *)
(* something, or that reach the end of memory, or that are missing.        *)
(***************************************************************************)
EXTENDS Po33Topology, PoAliases, Po33Sound_proofs

(* The inductive invariant: the parser stands where it would after parsing *)
(* the packets received from the start, with a stream that is in order.    *)
ParseInv ==
  /\ frame \in Seq(Packets)
  /\ parse \in Parsers
  /\ parse = Parsed(frame)

LEMMA PacketsAre == Packets \subseteq Packet
  BY PacketsAssumption DEF Packet

LEMMA InitParse == TopologyInit => ParseInv
<1> SUFFICES ASSUME TopologyInit PROVE ParseInv
  OBVIOUS
<1>1. frame = <<>> /\ parse = NewParse
  BY DEF TopologyInit
<1>2. <<>> \in Seq(Packet) /\ Len(<<>>) = 0 /\ <<>> \in Seq(Packets)
  OBVIOUS
<1>3. Parsed(<<>>) = NewParse
  BY <1>2, ParsedRun DEF Parsed
<1> QED  BY <1>1, <1>2, <1>3, NewParseKept DEF ParseInv

LEMMA ReceiveKeeps ==
  ASSUME ParseInv, NEW p \in Packets, Receive(p)
  PROVE  ParseInv'
<1>1. frame' = Append(frame, p) /\ parse' = ParseStep(parse, p)
  BY DEF Receive
<1>2. frame \in Seq(Packet) /\ p \in Packet
  BY PacketsAre DEF ParseInv
<1>3. frame' \in Seq(Packets)
  BY <1>1 DEF ParseInv
<1>4. parse' \in Parsers
  BY <1>1, <1>2, ParseStepKeeps DEF ParseInv
<1>5. parse' = Parsed(frame')
  BY <1>1, <1>2, ParsedAppend DEF ParseInv
<1> QED  BY <1>3, <1>4, <1>5 DEF ParseInv

LEMMA StreamStep == ParseInv /\ [TopologyNext]_topologyVars => ParseInv'
<1>1. ASSUME ParseInv, TopologyNext PROVE ParseInv'
  BY <1>1, ReceiveKeeps DEF TopologyNext
<1>2. ASSUME ParseInv, UNCHANGED topologyVars PROVE ParseInv'
  BY <1>2 DEF topologyVars, ParseInv
<1> QED  BY <1>1, <1>2

THEOREM StreamInvariant == TopologySpec => []ParseInv
<1> QED  BY InitParse, StreamStep, PTL DEF TopologySpec

LEMMA ParseTypes == ParseInv => TopologyTypeOK
<1> SUFFICES ASSUME ParseInv PROVE TopologyTypeOK
  OBVIOUS
<1>1. parse \in Parsers /\ frame \in Seq(Packets)
  BY DEF ParseInv
<1> QED  BY <1>1, ParserFacts DEF TopologyTypeOK, Stream

LEMMA ParseSpans == ParseInv => SpansInOrder
<1> SUFFICES ASSUME ParseInv PROVE SpansInOrder
  OBVIOUS
<1> DEFINE s == parse.stream
<1>1. StreamInv(s, parse.pos)
  BY ParserFacts DEF ParseInv
<1> HIDE DEF s
<1>2. SpansInOrder <=>
      LET seen == s.seen
          r    == s.record
      IN  /\ \A i \in DOMAIN seen :
               /\ PreambleBytes <= seen[i].selection.offset
               /\ SpanEnd(seen[i].selection) <= seen[i].data.offset
               /\ seen[i].data.length >= seen[i].data_bytes + OverheadBytes
               /\ SpanEnd(seen[i].data) <= parse.pos
               /\ i + 1 \in DOMAIN seen =>
                    SpanEnd(seen[i].data) <= seen[i+1].selection.offset
               /\ r.active => SpanEnd(seen[i].data) <= r.selection.offset
          /\ r.active => SpanEnd(r.selection) <= parse.pos
          /\ r.have_data =>
               /\ r.active
               /\ SpanEnd(r.selection) <= r.first
               /\ r.end >= r.first + r.data_bytes + OverheadBytes
               /\ r.end <= parse.pos
  BY DEF SpansInOrder, s
<1> QED  BY <1>1, <1>2 DEF StreamInv, InOrder, Before, Gathered

(* Every field of the parser and of the stream keeps its C type.           *)
THEOREM TopologyTypeCorrect == TopologySpec => []TopologyTypeOK
<1> QED  BY StreamInvariant, ParseTypes, PTL

(* The spans the sound stream records (po33.c:197-290) lie in the frame in *)
(* the order of its packets and do not overlap, whatever packets arrive:   *)
(* the subtractions po33.c makes between their offsets never wrap.         *)
THEOREM SpansAreInOrder == TopologySpec => []SpansInOrder
<1> QED  BY StreamInvariant, ParseSpans, PTL

-----------------------------------------------------------------------------
LEMMA ParsePlans == ParseInv => GrantedPlansAreUnambiguous
<1> SUFFICES ASSUME ParseInv PROVE GrantedPlansAreUnambiguous
  OBVIOUS
<1> DEFINE seen == parse.stream.seen
<1>1. seen \in Seq(Observation) /\ InOrder(seen)
  BY ParserFacts DEF ParseInv, StreamInv, Stream
<1> HIDE DEF seen
<1>2. \A t \in DOMAIN seen, n \in Requests :
        Unambiguous(seen, t, n, ReplacementPlan(Topology(seen), t, n))
  BY <1>1, VerdictIsUnambiguous, RequestsAssumption
<1>3. \A p : { i \in DOMAIN seen : Topology(seen).records[i].referenced = p }
              = Referring(seen, p)
  <2>1. \A i \in DOMAIN seen :
          Topology(seen).records[i].referenced = PoolNamed(seen, seen[i].source)
    BY <1>1, RecordEntry
  <2> QED  BY <2>1 DEF Referring
<1>4. \A t \in DOMAIN seen, n \in Requests :
        LET verdict == ReplacementPlan(Topology(seen), t, n)
            sharers == { i \in DOMAIN seen : seen[i].source = seen[t].selector }
        IN  /\ verdict.plan.reason # "ambiguous_group_boundary"
            /\ verdict.status = "ok" =>
                 /\ Named(seen, seen[t].selector) = {t}
                 /\ sharers = { i \in DOMAIN seen :
                                  Topology(seen).records[i].referenced = verdict.plan.pool }
                 /\ verdict.plan.affected = Cardinality(sharers \cup {t})
                 /\ verdict.plan.required >= n
  BY <1>2, <1>3 DEF Unambiguous
<1> QED  BY <1>4 DEF GrantedPlansAreUnambiguous, seen

(* A replacement plan is granted (po33_pool_replacement_plan) only when    *)
(* the samples are the business of the records it counts and of nobody     *)
(* else, for every frame whose stream ended well and every length; and the *)
(* boundary check of the plan never fires on the topology of a frame.      *)
THEOREM GrantsAreUnambiguous == TopologySpec => []GrantedPlansAreUnambiguous
<1> QED  BY StreamInvariant, ParsePlans, PTL

LEMMA ParseAgrees == ParseInv => PlansAgree
<1> SUFFICES ASSUME ParseInv, Exact,
                    NEW t \in 1..(Len(parse.stream.seen) + 1), NEW n \in Requests
             PROVE  LET over_topology == ReplacementPlan(Topology(parse.stream.seen), t, n)
                        over_frame    == EditPlan(frame, t, n, FALSE)
                    IN  /\ over_topology.status = over_frame.status
                        /\ over_topology.plan = over_frame.edit.replacement
  BY DEF PlansAgree
<1> DEFINE seen == parse.stream.seen
<1>1. seen \in Seq(Observation) /\ InOrder(seen)
  BY ParserFacts DEF ParseInv, StreamInv, Stream
<1>2. parse = Parsed(frame) /\ ExactStatus(frame, parse) = "ok" /\ n \in Nat
  BY RequestsAssumption DEF ParseInv, Exact
<1>3. /\ EditPlan(frame, t, n, FALSE).status = FrameVerdict(seen, t, n).status
      /\ EditPlan(frame, t, n, FALSE).edit.replacement = FrameVerdict(seen, t, n).plan
  BY <1>2, FramePlan
<1> HIDE DEF seen
<1>4. ReplacementPlan(Topology(seen), t, n) = FrameVerdict(seen, t, n)
  BY <1>1, <1>2, VerdictsAgree
<1> QED  BY <1>3, <1>4 DEF seen

(* po33_pool_replacement_plan, over a topology, and pool_edit_plan_internal*)
(* (po33.c), over the frame, are one decision: the same status and the     *)
(* same plan for every frame, every record and every length, although one  *)
(* counts by search and the other with counters that stop at two.          *)
THEOREM TheTwoPlansAgree == TopologySpec => []PlansAgree
<1> QED  BY StreamInvariant, ParseAgrees, PTL

(* Arrays of the required sizes, measured before anything is built, are    *)
(* exactly filled by the topology of the frame.                            *)
THEOREM RequirementsHold == TopologySpec => []RequirementsAreExact
<1>1. ParseInv => RequirementsAreExact
  <2> SUFFICES ASSUME ParseInv PROVE RequirementsAreExact
    OBVIOUS
  <2> DEFINE seen == parse.stream.seen
  <2>1. seen \in Seq(Observation)
    BY ParserFacts DEF ParseInv, Stream
  <2> HIDE DEF seen
  <2>2. /\ Requirements(seen).records = Len(Topology(seen).records)
        /\ Requirements(seen).pools = Len(Topology(seen).pools)
        /\ Requirements(seen).references = Len(Topology(seen).references)
    BY <2>1, RequirementsMatch
  <2> QED  BY <2>2 DEF RequirementsAreExact, seen
<1> QED  BY <1>1, StreamInvariant, PTL

-----------------------------------------------------------------------------
LEMMA ParseRecords == ParseInv => RecordsAreGroups
<1> SUFFICES ASSUME ParseInv, parse.status = "done" PROVE RecordsAreGroups
  BY DEF RecordsAreGroups
<1>1. frame \in Seq(Packet) /\ parse = Parsed(frame)
  BY PacketsAre DEF ParseInv
<1>2. parse.stream.seen = RecordsOf(frame, Recorded(frame, parse.count))
  BY <1>1, DoneGroups
<1> QED  BY <1>2 DEF RecordsAreGroups, RecordsOf

(* Every record the stream makes of a frame (topology_packet, po33.c:197-  *)
(* 290) is a group of the frame, and every group with data is a record, in *)
(* their order, however packets split the data and whatever stands among   *)
(* it; the records have their types and were counted right.                *)
THEOREM RecordsHold == TopologySpec => []RecordsAreExact
<1>1. TopologyTypeOK /\ RecordsAreGroups /\ RequirementsAreExact => RecordsAreExact
  BY DEF RecordsAreExact
<1> QED  BY <1>1, StreamInvariant, ParseRecords, TopologyTypeCorrect, RequirementsHold, PTL

-----------------------------------------------------------------------------
(***************************************************************************)
(* The regions of memory.                                                  *)
(***************************************************************************)
Writers == {"caller", "cleared", "workspace", "out", "length"}

Stages == {"called", "cleared", "invalid", "planned", "buffer", "rebuilt", "frame", "ok"}

(* A call that got past the arguments has all it needs, well apart, and    *)
(* after the sizes were compared it has room for the frame.                *)
Taken == pc \in {"planned", "buffer", "rebuilt", "frame", "ok"}

AliasType ==
  /\ \A r \in Regions : at[r] \in (0..Top) \cup {Null} /\ size[r] \in Nat
  /\ size["length"] # 0
  /\ memory \in [0..Top -> Writers]
  /\ pc \in Stages

(* What was written lies in a region the call may write, and only when no  *)
(* region it may write shares anything.                                    *)
WrittenWhereAllowed ==
  \A a \in 0..Top : memory[a] # "caller" =>
    ~InvalidAliases /\ \E r \in {"workspace", "out", "length"} : a \in Covered(r)

AliasInv ==
  /\ AliasType
  /\ WrittenWhereAllowed
  /\ Taken => ~Missing /\ ~InvalidAliases
  /\ pc \in {"planned", "rebuilt", "frame", "ok"} =>
       Required <= size["workspace"] /\ Required <= size["out"]
  /\ pc = "invalid" => InvalidAliases \/ Missing
  /\ ResultStands

(* Regions with an address in common clash, and so do regions whose end is *)
(* out of reach; no others do.                                             *)
LEMMA SharingClashes ==
  ASSUME AliasType, NEW r \in Regions, NEW s \in Regions,
         NEW a \in Covered(r), a \in Covered(s)
  PROVE  Clash(r, s)
<1>1. /\ at[r] \in (0..Top) \cup {Null} /\ size[r] \in Nat
      /\ at[s] \in (0..Top) \cup {Null} /\ size[s] \in Nat
  BY DEF AliasType
<1>2. at[r] # Null /\ a \in at[r]..(at[r] + size[r] - 1)
  BY DEF Covered
<1>3. at[s] # Null /\ a \in at[s]..(at[s] + size[s] - 1)
  BY DEF Covered
<1>4. Bytes(r) = size[r] /\ Bytes(s) = size[s]
  BY <1>2, <1>3 DEF Bytes
<1>5. at[r] < at[s] + size[s] /\ at[s] < at[r] + size[r] /\ size[r] # 0 /\ size[s] # 0
  BY <1>1, <1>2, <1>3 DEF Null
<1> QED  BY <1>4, <1>5 DEF Clash, RangesOverlap

LEMMA ClashesShare ==
  ASSUME AliasType, NEW r \in Regions, NEW s \in Regions, Clash(r, s), ~Ends
  PROVE  Covered(r) \cap Covered(s) # {}
<1>1. /\ at[r] \in (0..Top) \cup {Null} /\ size[r] \in Nat
      /\ at[s] \in (0..Top) \cup {Null} /\ size[s] \in Nat
  BY DEF AliasType
<1>2. Bytes(r) # 0 /\ Bytes(s) # 0
  BY DEF Clash, RangesOverlap
<1>3. /\ at[r] # Null /\ at[s] # Null /\ Bytes(r) = size[r] /\ Bytes(s) = size[s]
      /\ size[r] # 0 /\ size[s] # 0
  BY <1>2 DEF Bytes
<1>4. ~(at[r] + size[r] > Top) /\ ~(at[s] + size[s] > Top)
  BY <1>3 DEF Ends
<1>5. at[r] < at[s] + size[s] /\ at[s] < at[r] + size[r]
  BY <1>3, <1>4 DEF Clash, RangesOverlap
<1> DEFINE a == IF at[r] <= at[s] THEN at[s] ELSE at[r]
<1>6. a \in at[r]..(at[r] + size[r] - 1) /\ a \in at[s]..(at[s] + size[s] - 1)
  BY <1>1, <1>3, <1>5 DEF Null
<1> QED  BY <1>3, <1>6 DEF Covered

LEMMA InitHolds == AliasInit => AliasInv
<1> SUFFICES ASSUME AliasInit PROVE AliasInv
  OBVIOUS
<1>1. /\ memory = [a \in 0..Top |-> "caller"] /\ pc = "called"
  BY DEF AliasInit
<1>2. /\ at["frame"] \in Pointers["frame"] /\ at["samples"] \in Pointers["samples"]
      /\ at["plan"] \in Pointers["plan"] /\ at["workspace"] \in Pointers["workspace"]
      /\ at["out"] \in Pointers["out"] /\ at["length"] \in Pointers["length"]
  BY DEF AliasInit
<1>3. /\ size["frame"] \in Sizes["frame"] /\ size["samples"] \in Sizes["samples"]
      /\ size["plan"] \in Sizes["plan"] /\ size["workspace"] \in Sizes["workspace"]
      /\ size["out"] \in Sizes["out"] /\ size["length"] \in Sizes["length"]
  BY DEF AliasInit
<1>4. Regions = {"frame", "samples", "plan", "workspace", "out", "length"}
  BY DEF Regions, Inputs, Storage
<1>5. /\ \A r \in Regions : Pointers[r] \subseteq (0..Top) \cup {Null}
      /\ \A r \in Regions : Sizes[r] \subseteq Nat
      /\ 0 \notin Sizes["length"]
  BY AliasesAssumption
<1>6. \A r \in Regions : at[r] \in (0..Top) \cup {Null} /\ size[r] \in Nat
  BY <1>2, <1>3, <1>4, <1>5
<1>7. size["length"] # 0
  BY <1>3, <1>5
<1>8. memory \in [0..Top -> Writers]
  BY <1>1 DEF Writers
<1>9. AliasType
  BY <1>1, <1>6, <1>7, <1>8 DEF AliasType, Stages
<1>10. WrittenWhereAllowed
  BY <1>1 DEF WrittenWhereAllowed
<1> QED  BY <1>1, <1>9, <1>10 DEF AliasInv, Taken, ResultStands

(* Writing the first octets of a region.                                   *)
LEMMA WritingStays ==
  ASSUME AliasType, WrittenWhereAllowed, ~InvalidAliases,
         NEW r \in {"workspace", "out", "length"}, at[r] # Null,
         NEW n \in Nat, n <= size[r], NEW who \in Writers,
         NEW now, now = Written(r, n, who)
  PROVE  /\ now \in [0..Top -> Writers]
         /\ \A a \in 0..Top : now[a] # "caller" =>
              \E s \in {"workspace", "out", "length"} : a \in Covered(s)
         /\ \A a \in 0..Top : now[a] = IF a \in at[r]..(at[r] + n - 1) THEN who ELSE memory[a]
<1>1. memory \in [0..Top -> Writers]
  BY DEF AliasType
<1>2. DOMAIN memory = 0..Top
  BY <1>1
<1>3. now = [a \in 0..Top |-> IF a \in at[r]..(at[r] + n - 1) THEN who ELSE memory[a]]
  BY <1>2 DEF Written
<1>4. now \in [0..Top -> Writers]
  BY <1>1, <1>3
<1>5. \A a \in 0..Top : now[a] = IF a \in at[r]..(at[r] + n - 1) THEN who ELSE memory[a]
  BY <1>3
<1>6. ASSUME NEW a \in 0..Top, now[a] # "caller"
      PROVE  \E s \in {"workspace", "out", "length"} : a \in Covered(s)
  <2>1. CASE a \in at[r]..(at[r] + n - 1)
    <3>1. r \in Regions
      BY DEF Regions, Storage
    <3>2. at[r] \in (0..Top) \cup {Null} /\ size[r] \in Nat
      BY <3>1 DEF AliasType
    <3>3. a \in at[r]..(at[r] + size[r] - 1)
      BY <2>1, <3>2 DEF Null
    <3> QED  BY <3>3 DEF Covered
  <2>2. CASE a \notin at[r]..(at[r] + n - 1)
    <3>1. memory[a] # "caller"
      BY <1>5, <1>6, <2>2
    <3> QED  BY <3>1 DEF WrittenWhereAllowed
  <2> QED  BY <2>1, <2>2
<1> QED  BY <1>4, <1>5, <1>6

LEMMA ArgumentsStand ==
  ASSUME UNCHANGED <<at, size>>
  PROVE  /\ \A r : Covered(r)' = Covered(r)
         /\ InvalidAliases' <=> InvalidAliases
         /\ Missing' <=> Missing
<1>1. at' = at /\ size' = size
  OBVIOUS
<1> QED  BY <1>1 DEF Covered, InvalidAliases, Missing, Clash, Bytes

LEMMA StepHolds == AliasInv /\ [AliasNext]_aliasVars => AliasInv'
<1> SUFFICES ASSUME AliasInv, [AliasNext]_aliasVars PROVE AliasInv'
  OBVIOUS
<1>0. Required \in Nat /\ Top \in Nat
  BY AliasesAssumption
<1>1. /\ AliasType /\ WrittenWhereAllowed
      /\ Taken => ~Missing /\ ~InvalidAliases
      /\ pc \in {"planned", "rebuilt", "frame", "ok"} =>
           Required <= size["workspace"] /\ Required <= size["out"]
      /\ pc = "invalid" => InvalidAliases \/ Missing
  BY DEF AliasInv
<1>2. at' = at /\ size' = size
  BY DEF AliasNext, Clear, Refuse, Check, RebuildWorkspace, Deliver, aliasVars
<1>3. /\ \A r : Covered(r)' = Covered(r)
      /\ InvalidAliases' <=> InvalidAliases
      /\ Missing' <=> Missing
  BY <1>2, ArgumentsStand
<1>4. ASSUME memory' \in [0..Top -> Writers], pc' \in Stages PROVE AliasType'
  BY <1>1, <1>2, <1>4 DEF AliasType
<1>5. ASSUME memory' = memory PROVE WrittenWhereAllowed'
  BY <1>1, <1>3, <1>5 DEF WrittenWhereAllowed
<1>6. memory \in [0..Top -> Writers] /\ pc \in Stages
  BY <1>1 DEF AliasType
<1>7. ASSUME ~InvalidAliases,
             \A a \in 0..Top : memory'[a] # "caller" =>
               \E r \in {"workspace", "out", "length"} : a \in Covered(r)
      PROVE  WrittenWhereAllowed'
  BY <1>3, <1>7 DEF WrittenWhereAllowed
<1>8. \A r \in {"workspace", "out", "length"} : ~Missing => at[r] # Null
  BY DEF Missing, Storage
<1>9. CASE Clear
  <2>1. pc' = "cleared" /\ memory' = IF CanClear THEN Written("length", size["length"], "cleared")
                                     ELSE memory
    BY <1>9 DEF Clear
  <2>2. CASE CanClear
    <3>1. at["length"] # Null /\ ~InvalidAliases
      BY <2>2 DEF CanClear
    <3>2. size["length"] \in Nat /\ size["length"] <= size["length"]
      BY <1>1 DEF AliasType, Regions, Storage
    <3>3. memory' = Written("length", size["length"], "cleared")
      BY <2>1, <2>2
    <3>4. /\ memory' \in [0..Top -> Writers]
          /\ \A a \in 0..Top : memory'[a] # "caller" =>
               \E r \in {"workspace", "out", "length"} : a \in Covered(r)
      BY <1>1, <3>1, <3>2, <3>3, WritingStays DEF Writers
    <3> QED  BY <1>4, <1>7, <2>1, <3>1, <3>4 DEF AliasInv, Taken, ResultStands, Stages
  <2>3. CASE ~CanClear
    BY <1>4, <1>5, <1>6, <2>1, <2>3 DEF AliasInv, Taken, ResultStands, Stages
  <2> QED  BY <2>2, <2>3
<1>10. CASE Refuse
  <2>1. pc' = "invalid" /\ memory' = memory /\ (InvalidAliases \/ Missing)
    BY <1>10 DEF Refuse
  <2> QED  BY <1>3, <1>4, <1>5, <1>6, <2>1 DEF AliasInv, Taken, ResultStands, Stages
<1>11. CASE Check
  <2>1. /\ memory' = memory /\ ~Missing /\ ~InvalidAliases
        /\ pc' = IF size["workspace"] < Required \/ size["out"] < Required
                 THEN "buffer" ELSE "planned"
    BY <1>11 DEF Check
  <2>2. size["workspace"] \in Nat /\ size["out"] \in Nat
    BY <1>1 DEF AliasType, Regions, Storage
  <2>3. pc' = "planned" => Required <= size["workspace"] /\ Required <= size["out"]
    BY <1>0, <2>1, <2>2
  <2>4. pc' \in {"buffer", "planned"}
    BY <2>1
  <2>5. AliasType' /\ WrittenWhereAllowed'
    BY <1>4, <1>5, <1>6, <2>1, <2>4 DEF Stages
  <2> QED  BY <1>2, <1>3, <2>1, <2>3, <2>4, <2>5 DEF AliasInv, Taken, ResultStands
<1>12. CASE RebuildWorkspace
  <2>1. /\ pc = "planned" /\ memory' = Written("workspace", Required, "workspace")
        /\ pc' \in {"rebuilt", "frame"}
    BY <1>12 DEF RebuildWorkspace
  <2>2. ~Missing /\ ~InvalidAliases /\ Required <= size["workspace"] /\ Required <= size["out"]
    BY <1>1, <2>1 DEF Taken
  <2>3. /\ memory' \in [0..Top -> Writers]
        /\ \A a \in 0..Top : memory'[a] # "caller" =>
             \E r \in {"workspace", "out", "length"} : a \in Covered(r)
    <3>1. at["workspace"] # Null /\ "workspace" \in Writers
      BY <1>8, <2>2 DEF Writers
    <3> QED  BY <1>0, <1>1, <2>1, <2>2, <3>1, WritingStays
  <2> QED  BY <1>2, <1>3, <1>4, <1>7, <2>1, <2>2, <2>3 DEF AliasInv, Taken, ResultStands, Stages
<1>13. CASE Deliver
  <2> DEFINE whole == Written("out", Required, "out")
  <2>1. pc = "rebuilt" /\ memory' = [whole EXCEPT ![at["length"]] = "length"] /\ pc' = "ok"
    BY <1>13 DEF Deliver
  <2>2. ~Missing /\ ~InvalidAliases /\ Required <= size["workspace"] /\ Required <= size["out"]
    BY <1>1, <2>1 DEF Taken
  <2>3. /\ whole \in [0..Top -> Writers]
        /\ \A a \in 0..Top : whole[a] # "caller" =>
             \E r \in {"workspace", "out", "length"} : a \in Covered(r)
        /\ \A a \in 0..Top :
             whole[a] = IF a \in at["out"]..(at["out"] + Required - 1) THEN "out" ELSE memory[a]
    <3>1. at["out"] # Null /\ "out" \in Writers
      BY <1>8, <2>2 DEF Writers
    <3> QED  BY <1>0, <1>1, <2>2, <3>1, WritingStays
  <2> HIDE DEF whole
  <2>4. /\ at["length"] \in 0..Top /\ size["length"] \in Nat /\ size["length"] # 0
        /\ at["out"] \in 0..Top /\ size["out"] \in Nat
    BY <1>1, <1>8, <2>2 DEF AliasType, Regions, Storage
  <2>5. at["length"] \in Covered("length")
    BY <2>4 DEF Covered, Null
  <2>6. /\ memory' \in [0..Top -> Writers]
        /\ \A a \in 0..Top : memory'[a] = IF a = at["length"] THEN "length" ELSE whole[a]
    BY <2>1, <2>3, <2>4 DEF Writers
  <2>7. \A a \in 0..Top : memory'[a] # "caller" =>
          \E r \in {"workspace", "out", "length"} : a \in Covered(r)
    BY <2>3, <2>5, <2>6
  <2>8. ~Clash("out", "length")
    BY <2>2 DEF InvalidAliases, Regions, Storage
  <2>9. ASSUME NEW a \in at["out"]..(at["out"] + Required - 1)
        PROVE  a \in 0..Top /\ memory'[a] = "out"
    <3>1. a \in at["out"]..(at["out"] + size["out"] - 1) /\ size["out"] # 0
      BY <1>0, <2>2, <2>4, <2>9
    <3>2. Bytes("out") = size["out"] /\ Bytes("length") = size["length"]
      BY <2>4 DEF Bytes, Null
    <3>3. /\ ~(at["out"] + size["out"] > Top)
          /\ ~(at["out"] < at["length"] + size["length"] /\ at["length"] < at["out"] + size["out"])
      BY <2>4, <2>8, <3>1, <3>2 DEF Clash, RangesOverlap
    <3>4. a \in 0..Top /\ a # at["length"]
      BY <1>0, <2>2, <2>4, <2>9, <3>1, <3>3
    <3>5. whole[a] = "out"
      BY <2>3, <2>9, <3>4
    <3> QED  BY <2>6, <3>4, <3>5
  <2>10. ResultStands'
    <3>1. memory'[at["length"]] = "length"
      BY <2>4, <2>6
    <3> QED  BY <1>2, <2>9, <3>1 DEF ResultStands
  <2> QED  BY <1>2, <1>3, <1>4, <1>7, <2>1, <2>2, <2>6, <2>7, <2>10 DEF AliasInv, Taken, Stages
<1>14. CASE UNCHANGED aliasVars
  <2>1. pc' = pc /\ memory' = memory
    BY <1>14 DEF aliasVars
  <2>2. ResultStands'
    BY <1>2, <2>1 DEF ResultStands, AliasInv
  <2> QED  BY <1>1, <1>2, <1>3, <1>4, <1>5, <1>6, <2>1, <2>2 DEF AliasInv, Taken
<1> QED  BY <1>9, <1>10, <1>11, <1>12, <1>13, <1>14 DEF AliasNext

LEMMA InvGivesMemory == AliasInv => MemoryIsKept
<1> SUFFICES ASSUME AliasInv PROVE MemoryIsKept
  OBVIOUS
<1>1. AliasType /\ WrittenWhereAllowed /\ ResultStands
  BY DEF AliasInv
<1>2. InputsAreKept
  <2> SUFFICES ASSUME NEW r \in Inputs \cup {"plan"}, NEW a \in Covered(r), a \in 0..Top,
                      memory[a] # "caller"
               PROVE  FALSE
    BY DEF InputsAreKept
  <2>1. PICK s \in {"workspace", "out", "length"} : a \in Covered(s)
    BY <1>1 DEF WrittenWhereAllowed
  <2>2. ~InvalidAliases
    BY <1>1 DEF WrittenWhereAllowed
  <2>3. r \in Regions /\ s \in Storage /\ s \in Regions /\ r # s
    BY DEF Regions, Inputs, Storage
  <2>4. Clash(s, r)
    BY <1>1, <2>1, <2>3, SharingClashes
  <2> QED  BY <2>2, <2>3, <2>4 DEF InvalidAliases
<1>3. OnlySharingIsRefused
  <2> SUFFICES ASSUME pc = "invalid", ~Ends, ~Missing PROVE ~Apart
    BY DEF OnlySharingIsRefused
  <2>1. InvalidAliases
    BY DEF AliasInv
  <2>2. PICK r \in Storage : \E s \in Regions \ {r} : Clash(r, s)
    BY <2>1 DEF InvalidAliases
  <2>3. PICK s \in Regions \ {r} : Clash(r, s)
    BY <2>2
  <2>4. r \in Regions /\ s \in Regions
    BY DEF Regions
  <2>5. Covered(r) \cap Covered(s) # {}
    BY <1>1, <2>3, <2>4, ClashesShare
  <2> QED  BY <2>5 DEF Apart
<1> QED  BY <1>1, <1>2, <1>3 DEF MemoryIsKept

(* Whatever regions a rebuilding call is given, in a memory of any size    *)
(* (edit_rebuild_has_invalid_aliases and the order of clearing, refusing,  *)
(* writing and copying out of po33.c and po35.c): no octet of the frame,   *)
(* the samples or the plan is written, a call that succeeds leaves the     *)
(* frame and its length each whole, and only regions that share something, *)
(* reach the end of memory or are missing are refused.                     *)
THEOREM RegionsAreRespected == AliasSpec => []MemoryIsKept
<1>1. AliasInit => AliasInv
  BY InitHolds
<1>2. AliasInv => MemoryIsKept
  BY InvGivesMemory
<1>3. AliasInv /\ [AliasNext]_aliasVars => AliasInv'
  BY StepHolds
<1> QED  BY <1>1, <1>2, <1>3, PTL DEF AliasSpec

=============================================================================
