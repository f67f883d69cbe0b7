----------------------------- MODULE Po33Sound ------------------------------
(***************************************************************************)
(* Sounds in a PO-33 frame, from src/core/src/po33.c: the packet sequence  *)
(* po33_frame_parse hands over, the stream that groups it into sound       *)
(* records (topology_packet and the functions it calls) and the topology   *)
(* of sounds and sample pools built from the records.                      *)
(*                                                                         *)
(* A frame is its sequence of packets: whitening and trailers are module   *)
(* POWire's, a packet here is one whose trailer was right.  Offsets and    *)
(* lengths are those of the bytes on the wire.  Record and pool indices    *)
(* count from 1, and NoIndex stands for SIZE_MAX.                          *)
(***************************************************************************)
EXTENDS Integers, SequencesExt

CONSTANTS PreambleBytes,    \* PO33_PREAMBLE_BYTES: 4096
          RangeBytes,       \* bytes of a range coordinate in the header: 4
          BlockBytes,       \* PO33_POOL_ALLOCATION_BLOCK_BYTES: 4096
          MaxPayload,       \* PO_MAX_PAYLOAD: 255
          PacketsPerBlock   \* the 17 that the size arithmetic spells out

ASSUME SizesAssumption ==
  /\ PreambleBytes \in Nat
  /\ RangeBytes \in Nat \ {0} /\ BlockBytes \in Nat \ {0} /\ MaxPayload \in Nat \ {0}
  /\ PacketsPerBlock \in Nat
  /\ PacketsPerBlock * MaxPayload >= BlockBytes
  /\ (PacketsPerBlock - 1) * MaxPayload < BlockBytes

OverheadBytes == 5
HeaderBytes   == 2 * RangeBytes + 1     \* PO33_SOUND_HEADER_BYTES: 9
NoIndex       == 0

(* Settings, patterns and tags nobody knows are all "other" to a sound. *)
Tags == {"begin", "select", "data", "other", "end"}

Smaller(a, b) == IF a < b THEN a ELSE b

WireLen(p)       == OverheadBytes + Len(p.payload)

WireBytesUpTo(run) ==
  LET sum[k \in 0..Len(run)] == IF k = 0 THEN 0 ELSE sum[k-1] + WireLen(run[k])
  IN  sum

WireBytes(run)   == WireBytesUpTo(run)[Len(run)]
FrameLen(frame)  == PreambleBytes + WireBytes(frame)
OffsetOf(frame, i) == FrameLen(SubSeq(frame, 1, i - 1))

(***************************************************************************)
(* The stream: the record being gathered, those finished, how it stands.   *)
(***************************************************************************)
NoSpan == [offset |-> 0, length |-> 0]

SpanEnd(span) == span.offset + span.length

Span == [offset : Nat, length : Nat]

Observation ==
  [selector : 0..255, range : Seq(0..255), source : 0..255, selection : Span, data : Span,
   data_bytes : Nat, flags : SUBSET {"header_only", "unknown_extension"}]

Gathering ==
  [active : BOOLEAN, selector : 0..255, header : Seq(0..255), data_bytes : Nat,
   selection : Span, first : Nat, end : Nat, have_data : BOOLEAN,
   unknown_extension : BOOLEAN]

NoRecord ==
  [active |-> FALSE, selector |-> 0, header |-> <<>>, data_bytes |-> 0,
   selection |-> NoSpan, first |-> 0, end |-> 0, have_data |-> FALSE,
   unknown_extension |-> FALSE]

NewStream == [record |-> NoRecord, seen |-> <<>>, status |-> "ok"]

Observed(record) ==
  [selector   |-> record.selector,
   range      |-> SubSeq(record.header, 1, 2 * RangeBytes),
   source     |-> record.header[HeaderBytes],
   selection  |-> record.selection,
   data       |-> [offset |-> record.first, length |-> record.end - record.first],
   data_bytes |-> record.data_bytes,
   flags      |-> { f \in {"header_only"} : record.data_bytes = HeaderBytes }
                    \cup { f \in {"unknown_extension"} : record.unknown_extension }]

(* A selector without data is dropped; a record is handed over complete or *)
(* fails the frame.  The callbacks of the passes below take every record.  *)
FinishRecord(s) ==
  IF ~s.record.have_data THEN [s EXCEPT !.record = NoRecord]
  ELSE IF Len(s.record.header) # HeaderBytes THEN [s EXCEPT !.status = "frame"]
  ELSE [s EXCEPT !.record = NoRecord, !.seen = Append(@, Observed(s.record))]

StartRecord(s, p, offset) ==
  LET start(finished) ==
        IF finished.status # "ok" THEN finished
        ELSE IF Len(p.payload) # 1 THEN [finished EXCEPT !.status = "frame"]
        ELSE [finished EXCEPT !.record =
                [NoRecord EXCEPT !.active = TRUE, !.selector = p.payload[1],
                                 !.selection = [offset |-> offset, length |-> WireLen(p)]]]
  IN  start(FinishRecord(s))

(* Mutant: every packet of the record moves its beginning. *)
AppendDataMoving(s, p, offset) ==
  IF ~s.record.active THEN [s EXCEPT !.status = "frame"]
  ELSE [s EXCEPT
         !.record.first      = offset,
         !.record.have_data  = TRUE,
         !.record.end        = offset + WireLen(p),
         !.record.header     = SubSeq(@ \o p.payload, 1,
                                      Smaller(HeaderBytes, Len(@) + Len(p.payload))),
         !.record.data_bytes = @ + Len(p.payload)]

AppendData(s, p, offset) ==
  IF ~s.record.active THEN [s EXCEPT !.status = "frame"]
  ELSE [s EXCEPT
         !.record.first      = IF s.record.have_data THEN @ ELSE offset,
         !.record.have_data  = TRUE,
         !.record.end        = offset + WireLen(p),
         !.record.header     = SubSeq(@ \o p.payload, 1,
                                      Smaller(HeaderBytes, Len(@) + Len(p.payload))),
         !.record.data_bytes = @ + Len(p.payload)]

(* Mutant: an extension is noted only once the record has data. *)
TopologyPacketLate(s, p, offset) ==
  IF p.tag = "select" THEN StartRecord(s, p, offset)
  ELSE IF p.tag = "data" THEN AppendData(s, p, offset)
  ELSE IF p.tag = "end" THEN FinishRecord(s)
  ELSE [s EXCEPT !.record.unknown_extension = @ \/ s.record.have_data]

TopologyPacket(s, p, offset) ==
  IF p.tag = "select" THEN StartRecord(s, p, offset)
  ELSE IF p.tag = "data" THEN AppendData(s, p, offset)
  ELSE IF p.tag = "end" THEN FinishRecord(s)
  ELSE [s EXCEPT !.record.unknown_extension = @ \/ s.record.active]

(***************************************************************************)
(* po33_frame_parse, with the stream as its callback: one packet at a      *)
(* time.  Running out of packets before END leaves the status at "more".   *)
(***************************************************************************)
NewParse ==
  [pos |-> PreambleBytes, count |-> 0, stream |-> NewStream, status |-> "more"]

Misplaced(count, p) ==
  \/ p.tag \in {"begin", "end"} /\ p.payload # <<>>
  \/ (count = 0) # (p.tag = "begin")

ParseStep(parse, p) ==
  LET fed(s) == [pos    |-> parse.pos + WireLen(p),
                 count  |-> parse.count + 1,
                 stream |-> s,
                 status |-> IF s.status # "ok" THEN "stopped"
                            ELSE IF p.tag = "end" THEN "done" ELSE "more"]
  IN  IF parse.status # "more" THEN parse
      ELSE IF Misplaced(parse.count, p) THEN [parse EXCEPT !.status = "bad"]
      ELSE fed(TopologyPacket(parse.stream, p, parse.pos))

ParsedUpTo(frame) ==
  LET run[k \in 0..Len(frame)] ==
        IF k = 0 THEN NewParse ELSE ParseStep(run[k-1], frame[k])
  IN  run

Parsed(frame) == ParsedUpTo(frame)[Len(frame)]

(* What topology_parse_records returns, and topology_parse_exact_records,  *)
(* which wants nothing after END.                                          *)
RecordsStatus(parse) ==
  IF parse.stream.status # "ok" THEN parse.stream.status
  ELSE IF parse.status # "done" THEN "frame" ELSE "ok"

ExactStatus(frame, parse) ==
  IF RecordsStatus(parse) = "ok" /\ parse.count # Len(frame) THEN "frame"
  ELSE RecordsStatus(parse)

(***************************************************************************)
(* What the stream should make of a frame, said of the frame as a whole:   *)
(* the group of a selector is what stands between it and the next selector *)
(* or END, and each group with data is a record.                           *)
(***************************************************************************)
Group(frame, i) ==
  { j \in DOMAIN frame :
      j > i /\ \A k \in (i + 1)..j : frame[k].tag \notin {"select", "end"} }

GroupData(frame, i) == { j \in Group(frame, i) : frame[j].tag = "data" }

DataOf(frame, js) ==
  FlattenSeq([j \in DOMAIN frame |-> IF j \in js THEN frame[j].payload ELSE <<>>])

GroupAt(frame, i) ==
  LET data  == DataOf(frame, GroupData(frame, i))
      first == Min(GroupData(frame, i))
      last  == Max(GroupData(frame, i))
  IN  [selector   |-> frame[i].payload[1],
       range      |-> SubSeq(data, 1, 2 * RangeBytes),
       source     |-> data[HeaderBytes],
       selection  |-> [offset |-> OffsetOf(frame, i), length |-> WireLen(frame[i])],
       data       |-> [offset |-> OffsetOf(frame, first),
                       length |-> WireBytes(SubSeq(frame, first, last))],
       data_bytes |-> Len(data),
       flags      |-> { f \in {"header_only"} : Len(data) = HeaderBytes }
                        \cup { f \in {"unknown_extension"} :
                                 \E j \in Group(frame, i) : frame[j].tag # "data" }]

Recorded(frame, n) ==
  { i \in 1..n : frame[i].tag = "select" /\ GroupData(frame, i) # {} }

(***************************************************************************)
(* The topology.                                                           *)
(***************************************************************************)
OwnsPool(r) == r.data_bytes > HeaderBytes

Named(seen, selector)    == { i \in DOMAIN seen : seen[i].selector = selector }
OwnersOf(seen, selector) == { i \in Named(seen, selector) : OwnsPool(seen[i]) }

(* The pool a record owns: pools are numbered as their owners come. *)
PoolOf(seen, i) ==
  IF OwnsPool(seen[i]) THEN Cardinality({ j \in 1..i : OwnsPool(seen[j]) }) ELSE NoIndex

(* The pool a source selector leads to, if exactly one record owns it. *)
PoolNamed(seen, source) ==
  IF Cardinality(OwnersOf(seen, source)) # 1 THEN NoIndex
  ELSE PoolOf(seen, CHOOSE i \in OwnersOf(seen, source) : TRUE)

(* Mutant: the second record of a selector is marked, the first is not. *)
LooseEndsAfter(seen, i) ==
  { f \in {"duplicate_selector"} : \E j \in Named(seen, seen[i].selector) : j < i }
  \cup { f \in {"source_unresolved"} : OwnersOf(seen, seen[i].source) = {} }
  \cup { f \in {"source_ambiguous"}  : Cardinality(OwnersOf(seen, seen[i].source)) > 1 }

LooseEnds(seen, i) ==
  { f \in {"duplicate_selector"} : Cardinality(Named(seen, seen[i].selector)) > 1 }
  \cup { f \in {"source_unresolved"} : OwnersOf(seen, seen[i].source) = {} }
  \cup { f \in {"source_ambiguous"}  : Cardinality(OwnersOf(seen, seen[i].source)) > 1 }

TopologyRecords(seen) ==
  [i \in DOMAIN seen |->
     [selector   |-> seen[i].selector,
      range      |-> seen[i].range,
      source     |-> seen[i].source,
      flags      |-> seen[i].flags \cup LooseEnds(seen, i),
      selection  |-> seen[i].selection,
      data       |-> seen[i].data,
      owned      |-> PoolOf(seen, i),
      referenced |-> PoolNamed(seen, seen[i].source)]]

(* Entries are appended to an array as the records come that call for one. *)
Nth(indices, k) ==
  CHOOSE i \in indices : Cardinality({ j \in indices : j <= i }) = k

Owners(seen) == { i \in DOMAIN seen : OwnsPool(seen[i]) }

PoolEntry(seen, i) ==
  [owner |-> i, data |-> seen[i].data, data_bytes |-> seen[i].data_bytes]

TopologyPools(seen) ==
  [k \in 1..Cardinality(Owners(seen)) |-> PoolEntry(seen, Nth(Owners(seen), k))]

Resolved(seen) == { i \in DOMAIN seen : PoolNamed(seen, seen[i].source) # NoIndex }

ReferenceEntry(seen, i) == [pool |-> PoolNamed(seen, seen[i].source), record |-> i]

TopologyReferences(seen) ==
  [k \in 1..Cardinality(Resolved(seen)) |-> ReferenceEntry(seen, Nth(Resolved(seen), k))]

Topology(seen) ==
  [records    |-> TopologyRecords(seen),
   pools      |-> TopologyPools(seen),
   references |-> TopologyReferences(seen)]

(***************************************************************************)
(* The passes that measure a frame before anything is built or planned:    *)
(* counters for each selector that stop at two, and the pool of its first  *)
(* owner.                                                                  *)
(***************************************************************************)
NewMeasure(selectors) ==
  [records |-> 0, pools |-> 0, named |-> [s \in selectors |-> 0],
   owners |-> [s \in selectors |-> 0], owner_pool |-> [s \in selectors |-> NoIndex]]

MeasureRecord(m, r) ==
  LET owned == IF OwnsPool(r) THEN 1 ELSE 0
  IN  [records    |-> m.records + 1,
       pools      |-> m.pools + owned,
       named      |-> [m.named EXCEPT ![r.selector] = Smaller(2, @ + 1)],
       owners     |-> [m.owners EXCEPT ![r.selector] = Smaller(2, @ + owned)],
       owner_pool |-> IF owned = 0 \/ m.owners[r.selector] # 0 THEN m.owner_pool
                      ELSE [m.owner_pool EXCEPT ![r.selector] = m.pools + 1]]

Selectors(seen) ==
  { seen[i].selector : i \in DOMAIN seen } \cup { seen[i].source : i \in DOMAIN seen }

MeasuredUpTo(seen) ==
  LET run[k \in 0..Len(seen)] ==
        IF k = 0 THEN NewMeasure(Selectors(seen)) ELSE MeasureRecord(run[k-1], seen[k])
  IN  run

Measured(seen) == MeasuredUpTo(seen)[Len(seen)]

(* po33_pool_topology_requirements: a second pass counts the references.   *)
Requirements(seen) ==
  LET counted(m) ==
        [records    |-> m.records, pools |-> m.pools,
         references |-> Cardinality({ i \in DOMAIN seen : m.owners[seen[i].source] = 1 })]
  IN  counted(Measured(seen))

=============================================================================
