-------------------------- MODULE Po33Sound_proofs --------------------------
(***************************************************************************)
(* What is true of the sound stream of a PO-33 frame, for every sequence   *)
(* of packets, every header length and every block length: the types of    *)
(* what it records, the order of the spans, that the records are the       *)
(* groups of the frame, and the lemmas about the topology and the plans    *)
(* which the proofs about reading a frame and about editing one both use.  *)
(***************************************************************************)
EXTENDS Po33Plans, RunTheorems, SequenceTheorems, FunctionTheorems, TLAPS

Stream == [record : Gathering, seen : Seq(Observation), status : {"ok", "frame"}]

Packet == [tag : Tags, payload : Seq(0..255)]

LEMMA TopologyConstants ==
  /\ OverheadBytes = 5 /\ HeaderBytes \in Nat /\ HeaderBytes = 2 * RangeBytes + 1
  /\ PreambleBytes \in Nat /\ RangeBytes \in Nat
  BY SizesAssumption DEF OverheadBytes, HeaderBytes

(* Everything recorded lies before a place in the frame.                   *)
Before(seen, place) == \A i \in DOMAIN seen : SpanEnd(seen[i].data) <= place

(* What was recorded is in order; a record's selector is a packet, so its  *)
(* span is never empty.                                                    *)
InOrder(seen) ==
  \A i \in DOMAIN seen :
    /\ PreambleBytes <= seen[i].selection.offset
    /\ seen[i].selection.length # 0
    /\ SpanEnd(seen[i].selection) <= seen[i].data.offset
    /\ seen[i].data.length >= seen[i].data_bytes + OverheadBytes
    /\ i + 1 \in DOMAIN seen => SpanEnd(seen[i].data) <= seen[i+1].selection.offset

(* The record being gathered.                                              *)
Gathered(r, pos) ==
  /\ r.active => /\ PreambleBytes <= r.selection.offset /\ r.selection.length # 0
                 /\ SpanEnd(r.selection) <= pos
  /\ r.have_data => /\ r.active
                    /\ SpanEnd(r.selection) <= r.first
                    /\ r.end >= r.first + r.data_bytes + OverheadBytes
                    /\ r.end <= pos
  /\ ~r.have_data => r.data_bytes = 0

StreamInv(s, pos) ==
  /\ s \in Stream
  /\ InOrder(s.seen) /\ Before(s.seen, pos)
  /\ Gathered(s.record, pos)
  /\ s.record.active => Before(s.seen, s.record.selection.offset)

LEMMA SpanOf ==
  ASSUME NEW span \in Span
  PROVE  span.offset \in Nat /\ span.length \in Nat /\ SpanEnd(span) = span.offset + span.length
         /\ SpanEnd(span) \in Nat
  BY DEF Span, SpanEnd

LEMMA NothingGathered ==
  ASSUME NEW pos \in Nat
  PROVE  /\ NoRecord \in Gathering /\ Gathered(NoRecord, pos)
         /\ NoRecord.active = FALSE /\ NoRecord.have_data = FALSE /\ NoRecord.header = <<>>
<1>1. NoSpan \in Span /\ <<>> \in Seq(0..255) /\ 0 \in 0..255
  BY DEF NoSpan, Span
<1>2. NoRecord \in Gathering
  BY <1>1 DEF NoRecord, Gathering
<1> QED  BY <1>2 DEF NoRecord, Gathered

LEMMA PrefixType ==
  ASSUME NEW S, NEW h \in Seq(S), NEW m \in 0..Len(h)
  PROVE  SubSeq(h, 1, m) \in Seq(S)
  OBVIOUS

(* The record with some of its fields changed.                             *)
LEMMA NotedRecord ==
  ASSUME NEW r \in Gathering, NEW b \in BOOLEAN,
         NEW g, g = [r EXCEPT !.unknown_extension = b]
  PROVE  /\ g \in Gathering /\ (g.active <=> r.active) /\ g.selection = r.selection
         /\ (g.have_data <=> r.have_data) /\ g.data_bytes = r.data_bytes /\ g.end = r.end
         /\ g.first = r.first
  BY ZenonT(30) DEF Gathering

(* Time passes: the stream stays, the place to write moves on.             *)
LEMMA LaterKeeps ==
  ASSUME NEW s, NEW pos \in Nat, NEW later \in Nat, pos <= later, StreamInv(s, pos)
  PROVE  StreamInv(s, later)
<1>1. s.record \in Gathering /\ s.seen \in Seq(Observation)
  BY DEF StreamInv, Stream
<1>2. \A i \in DOMAIN s.seen : SpanEnd(s.seen[i].data) \in Nat
  <2> TAKE i \in DOMAIN s.seen
  <2> DEFINE o == s.seen[i]
  <2>1. o \in Observation
    BY <1>1
  <2> HIDE DEF o
  <2>2. o.data \in Span
    BY <2>1 DEF Observation
  <2> QED  BY <2>2, SpanOf DEF o
<1>3. Before(s.seen, later)
  BY <1>2 DEF Before, StreamInv
<1>4. s.record.end \in Nat /\ SpanEnd(s.record.selection) \in Nat
  BY <1>1, SpanOf DEF Gathering
<1>5. Gathered(s.record, later)
  BY <1>4 DEF Gathered, StreamInv
<1> QED  BY <1>3, <1>5 DEF StreamInv

(* A record is handed over behind all others.                              *)
LEMMA FinishKeeps ==
  ASSUME NEW s, NEW pos \in Nat, StreamInv(s, pos), s.status = "ok"
  PROVE  /\ StreamInv(FinishRecord(s), pos)
         /\ FinishRecord(s).status = "ok" => FinishRecord(s).record = NoRecord
<1> DEFINE r == s.record
           o == Observed(r)
           n == Len(s.seen)
<1>1. s \in Stream /\ r \in Gathering /\ s.seen \in Seq(Observation) /\ n \in Nat
      /\ InOrder(s.seen) /\ Before(s.seen, pos) /\ Gathered(r, pos)
      /\ (r.active => Before(s.seen, r.selection.offset))
  BY DEF StreamInv, Stream
<1>2. CASE ~r.have_data
  <2> DEFINE t == [s EXCEPT !.record = NoRecord]
  <2>1. FinishRecord(s) = t
    BY <1>2 DEF FinishRecord
  <2>2. t \in Stream /\ t.record = NoRecord /\ t.seen = s.seen
    BY <1>1, NothingGathered DEF Stream
  <2> HIDE DEF t
  <2> QED  BY <1>1, <2>1, <2>2, NothingGathered DEF StreamInv
<1>3. CASE r.have_data /\ Len(r.header) # HeaderBytes
  <2> DEFINE t == [s EXCEPT !.status = "frame"]
  <2>1. FinishRecord(s) = t
    BY <1>3 DEF FinishRecord
  <2>2. t \in Stream /\ t.record = s.record /\ t.seen = s.seen /\ t.status = "frame"
    BY <1>1 DEF Stream
  <2> HIDE DEF t
  <2> QED  BY <1>1, <2>1, <2>2 DEF StreamInv
<1>4. CASE r.have_data /\ Len(r.header) = HeaderBytes
  <2> DEFINE more == Append(s.seen, o)
             t    == [s EXCEPT !.record = NoRecord, !.seen = more]
  <2>1. FinishRecord(s) = t
    BY <1>4 DEF FinishRecord
  <2>2. /\ r.active /\ r.selection \in Span /\ r.first \in Nat /\ r.end \in Nat
        /\ r.data_bytes \in Nat /\ r.header \in Seq(0..255) /\ r.selector \in 0..255
    BY <1>1, <1>4 DEF Gathering, Gathered
  <2>3. /\ PreambleBytes <= r.selection.offset /\ r.selection.length # 0
        /\ SpanEnd(r.selection) <= r.first
        /\ r.end >= r.first + r.data_bytes + 5 /\ r.end <= pos
    BY <1>1, <1>4, TopologyConstants DEF Gathered
  <2> DEFINE len == r.end - r.first
  <2>4. len \in Nat /\ len >= r.data_bytes + 5 /\ r.first + len = r.end
    <3> DEFINE e == r.end
               f == r.first
               d == r.data_bytes
    <3>1. e \in Nat /\ f \in Nat /\ d \in Nat /\ e >= f + d + 5
      BY <2>2, <2>3
    <3> HIDE DEF e, f, d
    <3>2. e - f \in Nat /\ e - f >= d + 5 /\ f + (e - f) = e
      BY <3>1
    <3> QED  BY <3>2 DEF e, f, d
  <2>5. o.data = [offset |-> r.first, length |-> len] /\ o.selection = r.selection
        /\ o.data_bytes = r.data_bytes
    BY DEF Observed
  <2> HIDE DEF len
  <2>6. o \in Observation
    <3>1. SubSeq(r.header, 1, 2 * RangeBytes) \in Seq(0..255) /\ r.header[HeaderBytes] \in 0..255
      <4>1. HeaderBytes \in 1..Len(r.header) /\ 2 * RangeBytes \in 0..Len(r.header)
        BY <1>4, <2>2, TopologyConstants
      <4> DEFINE h == r.header
                 m == 2 * RangeBytes
                 k == HeaderBytes
      <4>2. h \in Seq(0..255) /\ m \in 0..Len(h) /\ k \in 1..Len(h)
        BY <2>2, <4>1
      <4> HIDE DEF h, m, k
      <4>3. SubSeq(h, 1, m) \in Seq(0..255) /\ h[k] \in 0..255
        BY <4>2, PrefixType, ElementOfSeq
      <4> QED  BY <4>3 DEF h, m, k
    <3>2. [offset |-> r.first, length |-> r.end - r.first] \in Span
      BY <2>2, <2>4 DEF Span, len
    <3>3. { f \in {"header_only"} : r.data_bytes = HeaderBytes }
            \cup { f \in {"unknown_extension"} : r.unknown_extension }
              \in SUBSET {"header_only", "unknown_extension"}
      OBVIOUS
    <3> QED  BY <2>2, <3>1, <3>2, <3>3 DEF Observed, Observation
  <2> HIDE DEF o
  <2>7. /\ more \in Seq(Observation) /\ Len(more) = n + 1 /\ more[n + 1] = o
        /\ \A i \in 1..n : more[i] = s.seen[i]
    <3> HIDE DEF n
    <3>1. n = Len(s.seen)
      BY DEF n
    <3> HIDE DEF r
    <3> QED  BY <1>1, <2>6, <3>1
  <2>8. /\ t \in Stream /\ t.record = NoRecord /\ t.seen = more
    <3> HIDE DEF more
    <3> QED  BY <1>1, <2>7, NothingGathered DEF Stream
  <2> HIDE DEF more, t, r, n
  <2>9. SpanEnd(o.data) = r.end /\ o.data.offset = r.first /\ o.data.length = len
    BY <2>4, <2>5 DEF SpanEnd
  <2>10. DOMAIN more = 1..(n + 1) /\ DOMAIN s.seen = 1..n
    BY <1>1, <2>7 DEF n
  <2>11. Before(more, pos)
    <3> SUFFICES ASSUME NEW i \in 1..(n + 1) PROVE SpanEnd(more[i].data) <= pos
      BY <2>10 DEF Before
    <3>1. CASE i \in 1..n
      BY <1>1, <2>7, <2>10, <3>1 DEF Before
    <3>2. CASE i = n + 1
      BY <2>3, <2>7, <2>9, <3>2
    <3> QED  BY <1>1, <3>1, <3>2
  <2>12. InOrder(more)
    <3> SUFFICES ASSUME NEW i \in 1..(n + 1)
                 PROVE  /\ PreambleBytes <= more[i].selection.offset
                        /\ more[i].selection.length # 0
                        /\ SpanEnd(more[i].selection) <= more[i].data.offset
                        /\ more[i].data.length >= more[i].data_bytes + OverheadBytes
                        /\ i + 1 \in 1..(n + 1) =>
                             SpanEnd(more[i].data) <= more[i+1].selection.offset
      BY <2>10 DEF InOrder
    <3>1. CASE i = n + 1
      <4>1. ~(i + 1 \in 1..(n + 1))
        BY <1>1, <3>1
      <4> QED  BY <2>3, <2>4, <2>5, <2>7, <2>9, <3>1, <4>1, TopologyConstants
    <3>2. CASE i = n
      <4>1. i \in 1..n /\ i + 1 = n + 1 /\ more[i] = s.seen[i]
        BY <2>7, <3>2, <1>1
      <4>2. SpanEnd(s.seen[i].data) <= r.selection.offset
        BY <1>1, <2>2, <2>10, <4>1 DEF Before
      <4> QED  BY <1>1, <2>5, <2>7, <2>10, <4>1, <4>2 DEF InOrder
    <3>3. CASE i \in 1..n /\ i + 1 \in 1..n
      <4>1. more[i] = s.seen[i] /\ more[i + 1] = s.seen[i + 1]
        BY <2>7, <3>3
      <4> QED  BY <1>1, <2>10, <3>3, <4>1 DEF InOrder
    <3> QED  BY <1>1, <3>1, <3>2, <3>3
  <2>13. StreamInv(t, pos)
    BY <2>8, <2>11, <2>12, NothingGathered DEF StreamInv
  <2> QED  BY <2>1, <2>8, <2>13 DEF r
<1> QED  BY <1>2, <1>3, <1>4

(* One packet of each kind.                                                *)
LEMMA StartKeeps ==
  ASSUME NEW s, NEW pos \in Nat, StreamInv(s, pos), s.status = "ok",
         PreambleBytes <= pos, NEW p \in Packet
  PROVE  StreamInv(StartRecord(s, p, pos), pos + WireLen(p))
<1> DEFINE f     == FinishRecord(s)
           later == pos + WireLen(p)
           span  == [offset |-> pos, length |-> WireLen(p)]
           g     == [NoRecord EXCEPT !.active = TRUE, !.selector = p.payload[1],
                                     !.selection = span]
<1>1. p.payload \in Seq(0..255) /\ WireLen(p) \in Nat /\ WireLen(p) >= 5
  <2>1. p.payload \in Seq(0..255)
    BY DEF Packet
  <2>2. Len(p.payload) \in Nat
    BY <2>1
  <2> QED  BY <2>1, <2>2, TopologyConstants DEF WireLen
<1>2. StreamInv(f, pos) /\ (f.status = "ok" => f.record = NoRecord)
  BY FinishKeeps
<1>3. later \in Nat /\ pos <= later
  BY <1>1
<1> HIDE DEF f, later
<1>4. StreamInv(f, later)
  BY <1>2, <1>3, LaterKeeps
<1>5. f \in Stream /\ f.seen \in Seq(Observation) /\ f.record \in Gathering
  BY <1>2 DEF StreamInv, Stream
<1>6. CASE f.status # "ok"
  BY <1>4, <1>6 DEF StartRecord, f, later
<1>7. CASE f.status = "ok" /\ Len(p.payload) # 1
  <2> DEFINE t == [f EXCEPT !.status = "frame"]
  <2>1. StartRecord(s, p, pos) = t
    BY <1>7 DEF StartRecord, f
  <2>2. t \in Stream /\ t.record = f.record /\ t.seen = f.seen
    BY <1>5 DEF Stream
  <2> HIDE DEF t
  <2> QED  BY <1>4, <2>1, <2>2 DEF StreamInv, later
<1>8. CASE f.status = "ok" /\ Len(p.payload) = 1
  <2> DEFINE t == [f EXCEPT !.record = g]
  <2>1. StartRecord(s, p, pos) = t
    BY <1>8 DEF StartRecord, f
  <2>2. span \in Span /\ SpanEnd(span) = later /\ span.length # 0 /\ span.offset = pos
    BY <1>1 DEF Span, SpanEnd, later
  <2>3. p.payload[1] \in 0..255
    <3> DEFINE d == p.payload
    <3>1. d \in Seq(0..255) /\ 1 \in 1..Len(d)
      BY <1>1, <1>8
    <3> HIDE DEF d
    <3>2. d[1] \in 0..255
      BY <3>1, ElementOfSeq
    <3> QED  BY <3>2 DEF d
  <2> HIDE DEF span
  <2>4. /\ g \in Gathering /\ g.active = TRUE /\ g.selection = span
        /\ g.have_data = FALSE /\ g.data_bytes = 0
    <3>1. NoRecord \in Gathering
      BY <1>3, NothingGathered
    <3> QED  BY <2>2, <2>3, <3>1, ZenonT(30) DEF Gathering, NoRecord
  <2> HIDE DEF g
  <2>5. t \in Stream /\ t.record = g /\ t.seen = f.seen
    BY <1>5, <2>4 DEF Stream
  <2> HIDE DEF t
  <2>6. Gathered(g, later)
    BY <1>3, <2>2, <2>4 DEF Gathered
  <2>7. InOrder(f.seen) /\ Before(f.seen, later) /\ Before(f.seen, pos)
    BY <1>2, <1>4 DEF StreamInv
  <2> QED  BY <2>1, <2>2, <2>4, <2>5, <2>6, <2>7 DEF StreamInv, later
<1> QED  BY <1>6, <1>7, <1>8

LEMMA DataKeeps ==
  ASSUME NEW s, NEW pos \in Nat, StreamInv(s, pos), s.status = "ok",
         PreambleBytes <= pos, NEW p \in Packet
  PROVE  StreamInv(AppendData(s, p, pos), pos + WireLen(p))
<1> DEFINE r     == s.record
           later == pos + WireLen(p)
           len   == Len(p.payload)
           t     == AppendData(s, p, pos)
<1>1. p.payload \in Seq(0..255) /\ len \in Nat /\ later \in Nat /\ later = pos + 5 + len
      /\ pos <= later
  <2>1. p.payload \in Seq(0..255)
    BY DEF Packet
  <2>2. len \in Nat
    BY <2>1
  <2> HIDE DEF len
  <2>3. WireLen(p) = 5 + len
    BY TopologyConstants DEF WireLen, len
  <2> QED  BY <2>1, <2>2, <2>3
<1> HIDE DEF later, len
<1>2. /\ s \in Stream /\ r \in Gathering /\ s.seen \in Seq(Observation)
      /\ InOrder(s.seen) /\ Gathered(r, pos)
      /\ (r.active => Before(s.seen, r.selection.offset))
  BY DEF StreamInv, Stream
<1>3. StreamInv(s, later)
  BY <1>1, LaterKeeps
<1>4. CASE ~r.active
  <2> DEFINE u == [s EXCEPT !.status = "frame"]
  <2>1. t = u
    BY <1>4 DEF AppendData
  <2>2. u \in Stream /\ u.record = s.record /\ u.seen = s.seen
    BY <1>2 DEF Stream
  <2> HIDE DEF u, t
  <2>3. StreamInv(t, later)
    BY <1>3, <2>1, <2>2 DEF StreamInv
  <2> QED  BY <2>3 DEF t, later
<1>5. CASE r.active
  <2> DEFINE header == SubSeq(r.header \o p.payload, 1,
                              Smaller(HeaderBytes, Len(r.header) + len))
             g == [r EXCEPT !.first      = IF r.have_data THEN r.first ELSE pos,
                            !.have_data  = TRUE,
                            !.end        = later,
                            !.header     = header,
                            !.data_bytes = r.data_bytes + len]
             u == [s EXCEPT !.record = g]
  <2>1. t = u
    BY <1>2, <1>5 DEF AppendData, Stream, Gathering, later, len
  <2>2. /\ r.header \in Seq(0..255) /\ r.first \in Nat /\ r.end \in Nat
        /\ r.data_bytes \in Nat /\ r.selection \in Span
    BY <1>2 DEF Gathering
  <2>3. header \in Seq(0..255)
    <3> DEFINE h == r.header
               d == p.payload
               c == h \o d
               m == Smaller(HeaderBytes, Len(h) + len)
    <3>1. h \in Seq(0..255) /\ d \in Seq(0..255) /\ len = Len(d)
      BY <1>1, <2>2 DEF len
    <3>2. c \in Seq(0..255) /\ Len(c) = Len(h) + len
      <4> HIDE DEF h, d
      <4> QED  BY <3>1
    <3>3. m \in 0..Len(c)
      <4>1. Len(h) \in Nat
        BY <3>1
      <4> HIDE DEF h, c
      <4> QED  BY <1>1, <3>2, <4>1, TopologyConstants DEF Smaller
    <3> HIDE DEF c, m
    <3>4. SubSeq(c, 1, m) \in Seq(0..255)
      BY <3>2, <3>3, PrefixType
    <3> QED  BY <3>4 DEF c, m
  <2> HIDE DEF header, t
  <2>4. /\ g \in Gathering /\ g.active /\ g.selection = r.selection
        /\ g.have_data = TRUE /\ g.data_bytes = r.data_bytes + len /\ g.end = later
        /\ g.first = IF r.have_data THEN r.first ELSE pos
    <3> DEFINE first == IF r.have_data THEN r.first ELSE pos
               bytes == r.data_bytes + len
    <3>1. first \in Nat /\ bytes \in Nat
      BY <1>1, <2>2, SMTT(30)
    <3> HIDE DEF first, bytes, r
    <3>2. g = [r EXCEPT !.first = first, !.have_data = TRUE, !.end = later,
                        !.header = header, !.data_bytes = bytes]
      BY DEF first, bytes
    <3>3. /\ g \in Gathering /\ (g.active <=> r.active) /\ g.selection = r.selection
          /\ g.have_data = TRUE /\ g.data_bytes = bytes /\ g.end = later /\ g.first = first
      <4>1. r \in Gathering /\ later \in Nat /\ header \in Seq(0..255)
        BY <1>1, <1>2, <2>3
      <4> HIDE DEF g
      <4> QED  BY <3>1, <3>2, <4>1, ZenonT(30) DEF Gathering
    <3> QED  BY <1>5, <3>3 DEF first, bytes
  <2> HIDE DEF g
  <2>5. u \in Stream /\ u.record = g /\ u.seen = s.seen
    BY <1>2, <2>4 DEF Stream
  <2> HIDE DEF u
  <2>6. SpanEnd(r.selection) \in Nat
    BY <2>2, SpanOf
  <2>7. Gathered(g, later)
    <3> DEFINE d == r.data_bytes
               f == r.first
               e == r.end
               x == SpanEnd(r.selection)
    <3>1. /\ d \in Nat /\ f \in Nat /\ e \in Nat /\ x \in Nat
          /\ PreambleBytes <= r.selection.offset /\ r.selection.length # 0 /\ x <= pos
          /\ r.have_data => x <= f /\ e >= f + d + 5 /\ e <= pos
          /\ ~r.have_data => d = 0
      BY <1>2, <1>5, <2>2, <2>6, TopologyConstants DEF Gathered
    <3>2. g.data_bytes = d + len /\ g.first = IF r.have_data THEN f ELSE pos
      BY <2>4
    <3>3. SpanEnd(g.selection) = x
      BY <2>4
    <3> HIDE DEF d, f, e, x
    <3> DEFINE first == g.first
    <3>4. /\ first \in Nat /\ x <= first /\ later >= first + (d + len) + 5 /\ x <= later
      BY <1>1, <3>1, <3>2, SMTT(30)
    <3> HIDE DEF first
    <3> QED  BY <1>1, <2>4, <3>1, <3>2, <3>3, <3>4, TopologyConstants DEF Gathered, first
  <2>8. Before(s.seen, later)
    BY <1>3 DEF StreamInv
  <2>9. StreamInv(t, later)
    BY <1>2, <1>5, <2>1, <2>4, <2>5, <2>7, <2>8 DEF StreamInv
  <2> QED  BY <2>9 DEF t, later
<1>6. r.active \in BOOLEAN
  BY <1>2 DEF Gathering
<1> QED  BY <1>4, <1>5, <1>6

LEMMA OtherKeeps ==
  ASSUME NEW s, NEW pos \in Nat, StreamInv(s, pos), NEW b \in BOOLEAN
  PROVE  StreamInv([s EXCEPT !.record.unknown_extension = b], pos)
<1> DEFINE r == s.record
           g == [r EXCEPT !.unknown_extension = b]
           u == [s EXCEPT !.record = g]
<1>1. /\ s \in Stream /\ r \in Gathering /\ s.seen \in Seq(Observation)
      /\ InOrder(s.seen) /\ Before(s.seen, pos) /\ Gathered(r, pos)
      /\ (r.active => Before(s.seen, r.selection.offset))
  BY DEF StreamInv, Stream
<1>2. [s EXCEPT !.record.unknown_extension = b] = u
  OBVIOUS
<1> HIDE DEF r
<1>3. /\ g \in Gathering /\ (g.active <=> r.active) /\ g.selection = r.selection
      /\ (g.have_data <=> r.have_data) /\ g.data_bytes = r.data_bytes /\ g.end = r.end
      /\ g.first = r.first
  BY <1>1, NotedRecord
<1> HIDE DEF g
<1>4. u \in Stream /\ u.record = g /\ u.seen = s.seen
  BY <1>1, <1>3 DEF Stream
<1> HIDE DEF u
<1>5. Gathered(g, pos)
  BY <1>1, <1>3 DEF Gathered
<1>6. StreamInv(u, pos)
  BY <1>1, <1>3, <1>4, <1>5 DEF StreamInv
<1> QED  BY <1>2, <1>6

LEMMA PacketKeeps ==
  ASSUME NEW s, NEW pos \in Nat, StreamInv(s, pos), s.status = "ok",
         PreambleBytes <= pos, NEW p \in Packet
  PROVE  StreamInv(TopologyPacket(s, p, pos), pos + WireLen(p))
<1>1. pos + WireLen(p) \in Nat /\ pos <= pos + WireLen(p)
  <2>1. p.payload \in Seq(0..255)
    BY DEF Packet
  <2>2. Len(p.payload) \in Nat
    BY <2>1
  <2> QED  BY <2>2, TopologyConstants DEF WireLen
<1> DEFINE later == pos + WireLen(p)
<1>2. CASE p.tag = "select"
  BY <1>2, StartKeeps DEF TopologyPacket
<1>3. CASE p.tag = "data"
  BY <1>3, DataKeeps DEF TopologyPacket
<1>4. CASE p.tag = "end"
  <2>1. StreamInv(FinishRecord(s), pos)
    BY FinishKeeps
  <2>2. TopologyPacket(s, p, pos) = FinishRecord(s)
    BY <1>4 DEF TopologyPacket
  <2> HIDE DEF later
  <2>3. StreamInv(FinishRecord(s), later)
    BY <1>1, <2>1, LaterKeeps DEF later
  <2> QED  BY <2>2, <2>3 DEF later
<1>5. CASE p.tag \notin {"select", "data", "end"}
  <2> DEFINE b == s.record.unknown_extension \/ s.record.active
             t == [s EXCEPT !.record.unknown_extension = b]
  <2>1. TopologyPacket(s, p, pos) = t
    BY <1>5 DEF TopologyPacket
  <2>2. b \in BOOLEAN
    BY DEF StreamInv, Stream, Gathering
  <2> HIDE DEF b
  <2>3. StreamInv(t, pos)
    BY <2>2, OtherKeeps
  <2> HIDE DEF t, later
  <2>4. StreamInv(t, later)
    BY <1>1, <2>3, LaterKeeps DEF later
  <2> QED  BY <2>1, <2>4 DEF later
<1> QED  BY <1>2, <1>3, <1>4, <1>5

-----------------------------------------------------------------------------
(* The parser, with its stream.                                            *)
Parsers ==
  { q \in [pos : Nat, count : Nat, stream : Stream,
           status : {"more", "done", "stopped", "bad"}] :
      /\ PreambleBytes <= q.pos
      /\ q.status = "more" => q.stream.status = "ok"
      /\ StreamInv(q.stream, q.pos) }

LEMMA NewParseKept == NewParse \in Parsers
<1>1. PreambleBytes \in Nat
  BY TopologyConstants
<1>2. NewStream \in Stream /\ NewStream.seen = <<>> /\ NewStream.record = NoRecord
      /\ NewStream.status = "ok"
  <2>1. NoRecord \in Gathering
    BY <1>1, NothingGathered
  <2>2. <<>> \in Seq(Observation)
    OBVIOUS
  <2> QED  BY <2>1, <2>2 DEF NewStream, Stream
<1>3. StreamInv(NewStream, PreambleBytes)
  <2>1. InOrder(<<>>) /\ Before(<<>>, PreambleBytes)
    BY DEF InOrder, Before
  <2> QED  BY <1>1, <1>2, <2>1, NothingGathered DEF StreamInv
<1> QED  BY <1>1, <1>2, <1>3 DEF Parsers, NewParse

LEMMA ParseStepKeeps ==
  ASSUME NEW parser \in Parsers, NEW p \in Packet
  PROVE  ParseStep(parser, p) \in Parsers
<1> DEFINE t == TopologyPacket(parser.stream, p, parser.pos)
           q == ParseStep(parser, p)
<1>1. /\ parser \in [pos : Nat, count : Nat, stream : Stream,
                     status : {"more", "done", "stopped", "bad"}]
      /\ PreambleBytes <= parser.pos
      /\ parser.status = "more" => parser.stream.status = "ok"
      /\ StreamInv(parser.stream, parser.pos)
  BY DEF Parsers
<1>2. CASE parser.status # "more"
  BY <1>2 DEF ParseStep
<1>3. CASE parser.status = "more" /\ Misplaced(parser.count, p)
  <2>1. q = [parser EXCEPT !.status = "bad"]
    BY <1>3 DEF ParseStep
  <2> HIDE DEF q
  <2>2. /\ q \in [pos : Nat, count : Nat, stream : Stream,
                  status : {"more", "done", "stopped", "bad"}]
        /\ q.pos = parser.pos /\ q.stream = parser.stream /\ q.status = "bad"
    BY <1>1, <2>1
  <2>3. q \in Parsers
    BY <1>1, <2>2 DEF Parsers
  <2> QED  BY <2>3 DEF q
<1>4. CASE parser.status = "more" /\ ~Misplaced(parser.count, p)
  <2> DEFINE later == parser.pos + WireLen(p)
             status == IF t.status # "ok" THEN "stopped"
                       ELSE IF p.tag = "end" THEN "done" ELSE "more"
  <2>1. parser.pos \in Nat /\ parser.count \in Nat
    BY <1>1
  <2>2. StreamInv(t, later)
    BY <1>1, <1>4, <2>1, PacketKeeps
  <2>3. q = [pos |-> later, count |-> parser.count + 1, stream |-> t, status |-> status]
    BY <1>4 DEF ParseStep
  <2>4. later \in Nat /\ PreambleBytes <= later
    <3>1. p.payload \in Seq(0..255)
      BY DEF Packet
    <3>2. Len(p.payload) \in Nat
      BY <3>1
    <3> QED  BY <1>1, <2>1, <3>2, TopologyConstants DEF WireLen
  <2>5. /\ status \in {"more", "done", "stopped", "bad"}
        /\ status = "more" => t.status = "ok"
    OBVIOUS
  <2>6. t \in Stream /\ parser.count + 1 \in Nat
    BY <2>1, <2>2 DEF StreamInv
  <2> HIDE DEF later, status, t, q
  <2>7. q \in Parsers
    BY <2>2, <2>3, <2>4, <2>5, <2>6 DEF Parsers
  <2> QED  BY <2>7 DEF q
<1> QED  BY <1>2, <1>3, <1>4

(* Parsing from the start, packet after packet.                            *)
LEMMA ParserRunExists ==
  ASSUME NEW s \in Parsers, NEW n \in Nat, NEW G \in [1..n -> [Parsers -> Parsers]]
  PROVE  \E f \in [0..n -> Parsers] : f[0] = s /\ \A i \in 1..n : f[i] = G[i][f[i-1]]
  BY RunExists, SMT

LEMMA ParsedRun ==
  ASSUME NEW f \in Seq(Packet)
  PROVE  LET run == ParsedUpTo(f)
         IN  /\ run \in [0..Len(f) -> Parsers] /\ run[0] = NewParse
             /\ \A k \in 1..Len(f) : run[k] = ParseStep(run[k-1], f[k])
<1> DEFINE n == Len(f)
           Def(g) == g = [k \in 0..n |-> IF k = 0 THEN NewParse ELSE ParseStep(g[k-1], f[k])]
           F == ParsedUpTo(f)
           G == [k \in 1..n |-> [q \in Parsers |-> ParseStep(q, f[k])]]
<1>1. F = CHOOSE g : Def(g)
  BY DEF ParsedUpTo
<1>2. n \in Nat /\ \A k \in 1..n : f[k] \in Packet
  OBVIOUS
<1>3. G \in [1..n -> [Parsers -> Parsers]]
  BY <1>2, ParseStepKeeps
<1>4. PICK g \in [0..n -> Parsers] : g[0] = NewParse /\ \A k \in 1..n : g[k] = G[k][g[k-1]]
  <2> HIDE DEF G, n
  <2> QED  BY <1>2, <1>3, NewParseKept, ParserRunExists
<1>5. ASSUME NEW k \in 0..n
      PROVE  g[k] = IF k = 0 THEN NewParse ELSE ParseStep(g[k-1], f[k])
  <2>1. CASE k = 0
    BY <1>4, <2>1
  <2>2. CASE k \in 1..n
    <3>1. k - 1 \in 0..n
      BY <1>2, <2>2
    <3>2. g[k-1] \in Parsers
      BY <3>1
    <3>3. G[k][g[k-1]] = ParseStep(g[k-1], f[k])
      BY <2>2, <3>2
    <3> QED  BY <1>4, <2>2, <3>3
  <2> QED  BY <1>2, <2>1, <2>2
<1>6. Def(g)
  BY <1>4, <1>5
<1>7. Def(F)
  <2> HIDE DEF Def, F
  <2> QED  BY <1>1, <1>6
<1>8. F[0] = NewParse /\ \A k \in 1..n : F[k] = ParseStep(F[k-1], f[k])
  <2>1. 0 \in 0..n /\ \A k \in 1..n : k \in 0..n /\ k # 0
    BY <1>2
  <2> HIDE DEF F, n
  <2>2. \A k \in 0..n : F[k] = IF k = 0 THEN NewParse ELSE ParseStep(F[k-1], f[k])
    BY <1>7, Zenon
  <2> QED  BY <2>1, <2>2
<1>9. \A k \in 0..n : F[k] \in Parsers
  <2>1. \A k \in 1..n : F[k-1] \in Parsers => F[k] \in Parsers
    BY <1>2, <1>8, ParseStepKeeps
  <2> HIDE DEF F, n
  <2> QED  BY <1>2, <1>8, <2>1, NewParseKept, RunStaysIn
<1> QED  BY <1>7, <1>8, <1>9

(* What was parsed stays parsed when another packet comes.                 *)
LEMMA ParsedAppend ==
  ASSUME NEW f \in Seq(Packet), NEW p \in Packet
  PROVE  Parsed(Append(f, p)) = ParseStep(Parsed(f), p) /\ Parsed(f) \in Parsers
<1> DEFINE n == Len(f)
           g == Append(f, p)
           old == ParsedUpTo(f)
           new == ParsedUpTo(g)
           T == { k \in 0..n : new[k] = old[k] }
<1>1. n \in Nat /\ g \in Seq(Packet) /\ Len(g) = n + 1 /\ g[n + 1] = p
      /\ \A k \in 1..n : g[k] = f[k]
  OBVIOUS
<1> HIDE DEF g
<1>2. /\ old \in [0..n -> Parsers] /\ old[0] = NewParse
      /\ \A k \in 1..n : old[k] = ParseStep(old[k-1], f[k])
  BY ParsedRun
<1>3. /\ new[0] = NewParse
      /\ \A k \in 1..(n + 1) : new[k] = ParseStep(new[k-1], g[k])
  BY <1>1, ParsedRun
<1> HIDE DEF old, new, n
<1>4. 0 \in T
  BY <1>1, <1>2, <1>3
<1>5. ASSUME NEW k \in 1..n, k - 1 \in T PROVE k \in T
  <2>1. k \in 1..(n + 1) /\ k \in 0..n
    BY <1>1
  <2>2. new[k] = ParseStep(new[k-1], g[k]) /\ old[k] = ParseStep(old[k-1], f[k])
    BY <1>2, <1>3, <2>1
  <2> QED  BY <1>1, <1>5, <2>1, <2>2
<1>6. 0..n \subseteq T
  <2> HIDE DEF T
  <2> QED  BY <1>1, <1>4, <1>5, InductionUpTo
<1>7. new[n] = old[n] /\ old[n] \in Parsers
  BY <1>1, <1>2, <1>6
<1>8. new[n + 1] = ParseStep(old[n], p)
  <2>1. n + 1 \in 1..(n + 1) /\ (n + 1) - 1 = n
    BY <1>1
  <2>2. new[n + 1] = ParseStep(new[n], g[n + 1])
    BY <1>3, <2>1
  <2> QED  BY <1>1, <1>7, <2>2
<1>9. Parsed(f) = old[n] /\ Parsed(g) = new[n + 1]
  BY <1>1 DEF Parsed, old, new, n
<1> QED  BY <1>7, <1>8, <1>9 DEF g

LEMMA ParserFacts ==
  ASSUME NEW q \in Parsers
  PROVE  /\ q.pos \in Nat /\ q.count \in Nat /\ q.stream \in Stream
         /\ q.status \in {"more", "done", "stopped", "bad"}
         /\ StreamInv(q.stream, q.pos)
  BY DEF Parsers

-----------------------------------------------------------------------------
(* An entry appended as its record comes is found at its record's rank.    *)
LEMMA NthOfRank ==
  ASSUME NEW S \in SUBSET Nat, IsFiniteSet(S), NEW i \in S
  PROVE  Nth(S, Rank(S, i)) = i
<1> DEFINE k == Rank(S, i)
<1>1. \A j \in S : Rank(S, j) = k => j = i
  BY RankUnique
<1>2. Nth(S, k) = CHOOSE j \in S : Rank(S, j) = k
  BY DEF Nth, Rank
<1> QED  BY <1>1, <1>2

LEMMA NthRank ==
  ASSUME NEW S \in SUBSET Nat, IsFiniteSet(S), NEW k \in 1..Cardinality(S)
  PROVE  Nth(S, k) \in S /\ Rank(S, Nth(S, k)) = k
<1> DEFINE T == 1..Cardinality(S)
           f == [i \in S |-> Rank(S, i)]
<1>1. Cardinality(S) \in Nat
  BY FS_CardinalityType
<1>2. IsFiniteSet(T) /\ Cardinality(T) = Cardinality(S)
  BY <1>1, FS_Interval
<1>3. f \in Injection(S, T)
  <2>1. f \in [S -> T]
    BY RankType
  <2>2. \A a, b \in S : f[a] = f[b] => a = b
    BY RankUnique
  <2> HIDE DEF f, T
  <2> QED  BY <2>1, <2>2, Fun_IsInj
<1>4. f \in Surjection(S, T)
  <2> HIDE DEF f, T
  <2> QED  BY <1>2, <1>3, FS_Injection
<1>5. PICK i \in S : f[i] = k
  <2>1. k \in T
    OBVIOUS
  <2> HIDE DEF f, T
  <2> QED  BY <1>4, <2>1 DEF Surjection
<1>6. Nth(S, k) = i
  BY <1>5, NthOfRank
<1> QED  BY <1>5, <1>6

-----------------------------------------------------------------------------
(* Plans: a record has the pool it owns, the first objection decides.      *)
Reasons ==
  {"none", "target_record_out_of_range", "target_not_owned", "ambiguous_group_boundary",
   "duplicate_target_selector", "ambiguous_selector", "unknown_target_extension",
   "not_exclusive", "existing_allocation_unaligned"}

PlanRecord ==
  [reason : Reasons, pool : Nat, requested : Nat, existing : Nat, required : Nat,
   growth : Int, references : Nat, affected : Nat,
   fits : BOOLEAN, growth_required : BOOLEAN, growth_eligible : BOOLEAN]

LEMMA OwnersFinite ==
  ASSUME NEW seen \in Seq(Observation)
  PROVE  /\ DOMAIN seen = 1..Len(seen) /\ Len(seen) \in Nat
         /\ IsFiniteSet(DOMAIN seen)
         /\ Owners(seen) \in SUBSET Nat /\ IsFiniteSet(Owners(seen))
<1>1. DOMAIN seen = 1..Len(seen) /\ Len(seen) \in Nat
  OBVIOUS
<1>2. IsFiniteSet(DOMAIN seen)
  BY <1>1, FS_Interval
<1>3. Owners(seen) \in SUBSET DOMAIN seen
  BY DEF Owners
<1> QED  BY <1>1, <1>2, <1>3, FS_Subset

LEMMA PoolIsRank ==
  ASSUME NEW seen \in Seq(Observation), NEW i \in DOMAIN seen
  PROVE  /\ i \in Owners(seen) <=> OwnsPool(seen[i])
         /\ OwnsPool(seen[i]) => /\ PoolOf(seen, i) = Rank(Owners(seen), i)
                                /\ PoolOf(seen, i) \in 1..Cardinality(Owners(seen))
                                /\ Nth(Owners(seen), PoolOf(seen, i)) = i
         /\ ~OwnsPool(seen[i]) => PoolOf(seen, i) = NoIndex
         /\ PoolOf(seen, i) \in Nat
<1>1. i \in Owners(seen) <=> OwnsPool(seen[i])
  BY DEF Owners
<1>2. ASSUME OwnsPool(seen[i])
      PROVE  /\ PoolOf(seen, i) = Rank(Owners(seen), i)
             /\ PoolOf(seen, i) \in 1..Cardinality(Owners(seen))
             /\ Nth(Owners(seen), PoolOf(seen, i)) = i
  <2>1. { j \in 1..i : OwnsPool(seen[j]) } = { j \in Owners(seen) : j <= i }
    BY OwnersFinite DEF Owners
  <2>2. PoolOf(seen, i) = Rank(Owners(seen), i)
    BY <1>2, <2>1 DEF PoolOf, Rank
  <2>3. i \in Owners(seen) /\ Owners(seen) \in SUBSET Nat /\ IsFiniteSet(Owners(seen))
    BY <1>1, <1>2, OwnersFinite
  <2> QED  BY <2>2, <2>3, RankType, NthOfRank
<1>3. ~OwnsPool(seen[i]) => PoolOf(seen, i) = NoIndex
  BY DEF PoolOf
<1>4. Cardinality(Owners(seen)) \in Nat
  BY OwnersFinite, FS_CardinalityType
<1>5. PoolOf(seen, i) \in Nat
  BY <1>2, <1>3, <1>4 DEF NoIndex
<1> QED  BY <1>1, <1>2, <1>3, <1>5

(* The objections a plan meets are tried in their order.                   *)
FirstDecides(plan, objections) ==
  /\ (\A i \in DOMAIN objections : ~objections[i].holds) =>
       Judged(plan, objections) =
         Granted([plan EXCEPT !.growth_eligible = plan.existing % BlockBytes = 0])
  /\ (\E i \in DOMAIN objections : objections[i].holds) =>
       \E i \in DOMAIN objections :
         /\ objections[i].holds
         /\ \A j \in DOMAIN objections : objections[j].holds => i <= j
         /\ Judged(plan, objections) =
              Refused(plan, objections[i].status, objections[i].reason)

LEMMA FirstObjection ==
  ASSUME NEW plan, NEW objections, DOMAIN objections \in SUBSET Nat
  PROVE  FirstDecides(plan, objections)
<1> DEFINE held == { i \in DOMAIN objections : objections[i].holds }
<1>1. Judged(plan, objections) =
        IF held = {} THEN Granted([plan EXCEPT !.growth_eligible =
                                     plan.existing % BlockBytes = 0])
        ELSE Refused(plan, objections[Min(held)].status, objections[Min(held)].reason)
  BY DEF Judged
<1>2. ASSUME held # {}
      PROVE  Min(held) \in held /\ \A j \in held : Min(held) <= j
  <2>1. held \in SUBSET Nat
    OBVIOUS
  <2> HIDE DEF held
  <2>2. \E x \in held : \A y \in held : x <= y
    BY <1>2, <2>1, LeastNumber
  <2> QED  BY <2>2 DEF Min
<1>3. held = {} <=> \A i \in DOMAIN objections : ~objections[i].holds
  OBVIOUS
<1> DEFINE m == Min(held)
<1> HIDE DEF m
<1>4. CASE held = {}
  BY <1>1, <1>3, <1>4 DEF FirstDecides
<1>5. CASE held # {}
  <2>1. m \in DOMAIN objections /\ objections[m].holds
        /\ \A j \in DOMAIN objections : objections[j].holds => m <= j
    BY <1>2, <1>5 DEF m
  <2>2. Judged(plan, objections) = Refused(plan, objections[m].status, objections[m].reason)
    BY <1>1, <1>5 DEF m
  <2> QED  BY <1>3, <1>5, <2>1, <2>2 DEF FirstDecides
<1> QED  BY <1>4, <1>5

(* An allocation holds what it was rounded up for.                         *)
LEMMA RoundedIsEnough ==
  ASSUME NEW bytes \in Nat
  PROVE  Rounded(bytes) \in Nat /\ Rounded(bytes) >= bytes
<1> DEFINE x == bytes + BlockBytes - 1
           q == x \div BlockBytes
           B == BlockBytes
<1>1. B \in Nat /\ B > 0
  BY SizesAssumption
<1> HIDE DEF B
<1>2. x \in Nat /\ x = bytes + B - 1
  BY <1>1 DEF B
<1> HIDE DEF x
<1>3. x \div B \in Nat /\ x = B * (x \div B) + (x % B) /\ (x % B) < B
  BY <1>1, <1>2
<1> DEFINE r == x % B
<1>4. q \in Nat /\ x = B * q + r /\ r \in Nat /\ r < B
  BY <1>1, <1>2, <1>3 DEF B
<1> HIDE DEF q, r
<1>5. B * q = q * B /\ q * B \in Nat
  BY <1>1, <1>4
<1> DEFINE y == q * B
<1>6. y \in Nat /\ x = y + r
  BY <1>4, <1>5
<1> HIDE DEF y
<1>7. y \in Nat /\ y >= bytes
  BY <1>1, <1>2, <1>4, <1>6
<1> QED  BY <1>7 DEF Rounded, x, q, y, B

Asked(n) == [NoPlan EXCEPT !.requested = n]

Referring(seen, p) == { i \in DOMAIN seen : PoolNamed(seen, seen[i].source) = p }

(* The plan for the pool of a record, before it is judged.                 *)
PlanFor(seen, t, n) ==
  Sized(Counted(Asked(n), PoolOf(seen, t), t, Referring(seen, PoolOf(seen, t))),
        seen[t].data_bytes - HeaderBytes, n)

Ambiguities == {"duplicate_selector", "source_unresolved", "source_ambiguous"}

FlagsOf(seen, i) == seen[i].flags \cup LooseEnds(seen, i)

StraysFrom(seen, selector, p) ==
  \E i \in DOMAIN seen :
    \/ seen[i].source = selector /\ PoolNamed(seen, seen[i].source) # p
    \/ /\ PoolNamed(seen, seen[i].source) = p
       /\ \/ seen[i].source # selector
          \/ FlagsOf(seen, i) \cap Ambiguities # {}

ObjectionsTo(seen, t, plan) ==
  << Objection("duplicate_selector" \in FlagsOf(seen, t),
               "parse", "duplicate_target_selector"),
     Objection("source_ambiguous" \in FlagsOf(seen, t), "parse", "ambiguous_selector"),
     Objection("unknown_extension" \in FlagsOf(seen, t),
               "parse", "unknown_target_extension"),
     Objection(StraysFrom(seen, seen[t].selector, PoolOf(seen, t)),
               "parse", "ambiguous_selector"),
     Unaligned(plan) >>

LEMMA RecordEntry ==
  ASSUME NEW seen \in Seq(Observation), NEW i \in DOMAIN seen
  PROVE  LET r == Topology(seen).records[i]
         IN  /\ r.selector = seen[i].selector /\ r.source = seen[i].source
             /\ r.flags = FlagsOf(seen, i)
             /\ r.selection = seen[i].selection /\ r.data = seen[i].data
             /\ r.owned = PoolOf(seen, i)
             /\ r.referenced = PoolNamed(seen, seen[i].source)
BY DEF Topology, TopologyRecords, FlagsOf

LEMMA TopologyShape ==
  ASSUME NEW seen \in Seq(Observation)
  PROVE  /\ DOMAIN Topology(seen).records = DOMAIN seen
         /\ Topology(seen).pools = TopologyPools(seen)
         /\ DOMAIN TopologyPools(seen) = 1..Cardinality(Owners(seen))
         /\ Len(TopologyPools(seen)) = Cardinality(Owners(seen))
         /\ Cardinality(Owners(seen)) \in Nat
         /\ \A k \in 1..Cardinality(Owners(seen)) :
              TopologyPools(seen)[k] = PoolEntry(seen, Nth(Owners(seen), k))
<1>1. Cardinality(Owners(seen)) \in Nat
  BY OwnersFinite, FS_CardinalityType
<1>2. TopologyPools(seen) =
        [k \in 1..Cardinality(Owners(seen)) |-> PoolEntry(seen, Nth(Owners(seen), k))]
  BY DEF TopologyPools
<1>3. Len(TopologyPools(seen)) = Cardinality(Owners(seen))
  <2> DEFINE c == Cardinality(Owners(seen))
             E(k) == PoolEntry(seen, Nth(Owners(seen), k))
  <2>1. c \in Nat /\ TopologyPools(seen) = [k \in 1..c |-> E(k)]
    BY <1>1, <1>2
  <2> HIDE DEF c, E
  <2>2. Len([k \in 1..c |-> E(k)]) = c
    BY <2>1
  <2> QED  BY <2>1, <2>2 DEF c
<1> QED  BY <1>1, <1>2, <1>3 DEF Topology, TopologyRecords

(* The boundaries of a group of a frame are sound: the plan is judged.     *)
LEMMA OwnerIsJudged ==
  ASSUME NEW seen \in Seq(Observation), InOrder(seen), NEW t \in DOMAIN seen, NEW n \in Nat,
         OwnsPool(seen[t]), "header_only" \notin FlagsOf(seen, t)
  PROVE  LET plan == PlanFor(seen, t, n)
         IN  ReplacementPlan(Topology(seen), t, n) = Judged(plan, ObjectionsTo(seen, t, plan))
<1> DEFINE top    == Topology(seen)
           target == top.records[t]
           p      == PoolOf(seen, t)
           pool   == top.pools[p]
           refs   == { i \in DOMAIN top.records : top.records[i].referenced = p }
           counted == Counted(Asked(n), p, t, refs)
           sized  == Sized(counted, pool.data_bytes - HeaderBytes, n)
           plan   == PlanFor(seen, t, n)
<1>1. /\ target.selector = seen[t].selector /\ target.source = seen[t].source
      /\ target.flags = FlagsOf(seen, t)
      /\ target.selection = seen[t].selection /\ target.data = seen[t].data
      /\ target.owned = p
  BY RecordEntry
<1>2. \A i \in DOMAIN seen :
        /\ top.records[i].source = seen[i].source /\ top.records[i].flags = FlagsOf(seen, i)
        /\ top.records[i].referenced = PoolNamed(seen, seen[i].source)
  BY RecordEntry
<1>3. DOMAIN top.records = DOMAIN seen /\ DOMAIN top.pools = 1..Cardinality(Owners(seen))
      /\ Len(top.pools) = Cardinality(Owners(seen)) /\ Cardinality(Owners(seen)) \in Nat
  BY TopologyShape
<1>4. p \in 1..Cardinality(Owners(seen)) /\ Nth(Owners(seen), p) = t
  BY PoolIsRank
<1>5. pool.owner = t /\ pool.data = seen[t].data /\ pool.data_bytes = seen[t].data_bytes
  <2>1. pool = PoolEntry(seen, t)
    BY <1>4, TopologyShape
  <2> QED  BY <2>1 DEF PoolEntry
<1>6. ASSUME NEW k \in DOMAIN top.pools, k # p PROVE top.pools[k].owner # t
  <2>1. top.pools[k] = PoolEntry(seen, Nth(Owners(seen), k))
    BY <1>3, <1>6, TopologyShape
  <2>2. top.pools[k].owner = Nth(Owners(seen), k)
    BY <2>1 DEF PoolEntry
  <2>3. k = Rank(Owners(seen), Nth(Owners(seen), k))
    BY <1>3, <1>6, OwnersFinite, NthRank
  <2>4. p = Rank(Owners(seen), t)
    BY PoolIsRank
  <2> QED  BY <1>6, <2>2, <2>3, <2>4
<1>7. seen[t].data_bytes > HeaderBytes
  BY DEF OwnsPool
<1>8. /\ seen[t].selection.length # 0 /\ SpanEnd(seen[t].selection) <= seen[t].data.offset
      /\ seen[t].data.length >= seen[t].data_bytes + OverheadBytes
      /\ seen[t].data.length # 0
  <2> DEFINE o == seen[t]
  <2>1. o \in Observation
    OBVIOUS
  <2>2. o.data_bytes \in Nat /\ o.data.length \in Nat
    <3> HIDE DEF o
    <3> QED  BY <2>1 DEF Observation, Span
  <2>3. /\ o.selection.length # 0 /\ SpanEnd(o.selection) <= o.data.offset
        /\ o.data.length >= o.data_bytes + OverheadBytes
    BY DEF InOrder
  <2> HIDE DEF o
  <2>4. o.data.length # 0
    BY <2>2, <2>3, TopologyConstants
  <2> QED  BY <2>3, <2>4 DEF o
<1> HIDE DEF top
<1>9. BoundaryValid(target, pool)
  BY <1>1, <1>5, <1>8 DEF BoundaryValid
<1>10. refs = Referring(seen, p)
  BY <1>2, <1>3 DEF Referring
<1>11. sized = plan
  BY <1>5, <1>10 DEF PlanFor
<1>12. Strays(top.records, target.selector, target.owned)
         <=> StraysFrom(seen, seen[t].selector, p)
  <2> DEFINE s == seen[t].selector
  <2>1. target.selector = s /\ target.owned = p
    BY <1>1
  <2> HIDE DEF s, p
  <2>2. Strays(top.records, s, p) <=> StraysFrom(seen, s, p)
    BY <1>2, <1>3 DEF Strays, StraysFrom, Ambiguities
  <2> QED  BY <2>1, <2>2 DEF s
<1> DEFINE objections ==
             << Objection("duplicate_selector" \in target.flags,
                          "parse", "duplicate_target_selector"),
                Objection("source_ambiguous" \in target.flags,
                          "parse", "ambiguous_selector"),
                Objection("unknown_extension" \in target.flags,
                          "parse", "unknown_target_extension"),
                Objection(Strays(top.records, target.selector, target.owned),
                          "parse", "ambiguous_selector"),
                Unaligned(sized) >>
<1>13. ReplacementPlan(top, t, n) = Judged(sized, objections)
  <2>1. t \in DOMAIN top.records
    BY <1>3
  <2>2. ~("header_only" \in target.flags \/ target.owned = NoIndex)
    BY <1>1, <1>3, <1>4 DEF NoIndex
  <2>3. ~(target.owned > Len(top.pools))
    BY <1>1, <1>3, <1>4
  <2>4. ~ \/ pool.owner # t \/ pool.data_bytes <= HeaderBytes
          \/ ~BoundaryValid(target, pool)
          \/ \E k \in DOMAIN top.pools : k # target.owned /\ top.pools[k].owner = t
    <3>1. ~(pool.data_bytes <= HeaderBytes)
      <4> DEFINE o == seen[t]
      <4>1. o \in Observation
        OBVIOUS
      <4>2. o.data_bytes \in Nat
        <5> HIDE DEF o
        <5> QED  BY <4>1 DEF Observation
      <4> QED  BY <1>5, <1>7, <4>2, TopologyConstants
    <3> QED  BY <1>1, <1>5, <1>6, <1>9, <3>1
  <2> DEFINE N(q) == { i \in DOMAIN top.records : top.records[i].referenced = q }
             C(q) == Counted(Asked(n), q, t, N(q))
             Z(q) == Sized(C(q), top.pools[q].data_bytes - HeaderBytes, n)
             B(q) == \/ top.pools[q].owner # t \/ top.pools[q].data_bytes <= HeaderBytes
                     \/ ~BoundaryValid(target, top.pools[q])
                     \/ \E k \in DOMAIN top.pools : k # q /\ top.pools[k].owner = t
             V(q) == IF B(q) THEN Refused(C(q), "parse", "ambiguous_group_boundary")
                     ELSE Judged(Z(q),
                       << Objection("duplicate_selector" \in target.flags,
                                    "parse", "duplicate_target_selector"),
                          Objection("source_ambiguous" \in target.flags,
                                    "parse", "ambiguous_selector"),
                          Objection("unknown_extension" \in target.flags,
                                    "parse", "unknown_target_extension"),
                          Objection(Strays(top.records, target.selector, target.owned),
                                    "parse", "ambiguous_selector"),
                          Unaligned(Z(q)) >>)
  <2>5. ReplacementPlan(top, t, n) =
          IF t \notin DOMAIN top.records
          THEN Refused(Asked(n), "range", "target_record_out_of_range")
          ELSE IF "header_only" \in target.flags \/ target.owned = NoIndex
          THEN Refused(Asked(n), "range", "target_not_owned")
          ELSE IF target.owned > Len(top.pools)
          THEN Refused(Asked(n), "parse", "ambiguous_group_boundary")
          ELSE V(target.owned)
    BY DEF ReplacementPlan, Asked
  <2>6. target.owned = p /\ ~B(p)
    BY <1>1, <2>4
  <2>7. V(p) = IF B(p) THEN Refused(C(p), "parse", "ambiguous_group_boundary")
               ELSE Judged(sized, objections)
    OBVIOUS
  <2>8. V(target.owned) = V(p)
    <3> HIDE DEF V, target
    <3> QED  BY <2>6
  <2> HIDE DEF V, B, C, p, target, objections, sized
  <2>9. ReplacementPlan(top, t, n) = V(target.owned)
    BY <2>1, <2>2, <2>3, <2>5
  <2> QED  BY <2>6, <2>7, <2>8, <2>9
<1>14. objections = ObjectionsTo(seen, t, plan)
  <2> DEFINE b1 == StraysFrom(seen, seen[t].selector, p)
             b2 == Strays(top.records, target.selector, target.owned)
  <2>1. Objection(b2, "parse", "ambiguous_selector") = Objection(b1, "parse", "ambiguous_selector")
    <3>1. b1 = b2
      <4>1. b1 \in BOOLEAN /\ b2 \in BOOLEAN
        BY DEF Strays, StraysFrom
      <4> QED  BY <1>12, <4>1
    <3> QED  BY <3>1
  <2> HIDE DEF b1, b2, plan, sized
  <2> QED  BY <1>1, <1>11, <2>1 DEF ObjectionsTo, b1, b2
<1> HIDE DEF objections, sized, plan
<1> QED  BY <1>11, <1>13, <1>14 DEF top, plan

LEMMA NothingToReplace ==
  ASSUME NEW seen \in Seq(Observation), NEW t \in DOMAIN seen, NEW n \in Nat,
         ~OwnsPool(seen[t]) \/ "header_only" \in FlagsOf(seen, t)
  PROVE  ReplacementPlan(Topology(seen), t, n) = Refused(Asked(n), "range", "target_not_owned")
<1> DEFINE top    == Topology(seen)
           target == top.records[t]
<1>1. target.flags = FlagsOf(seen, t) /\ target.owned = PoolOf(seen, t)
  BY RecordEntry
<1>2. t \in DOMAIN top.records
  BY TopologyShape
<1>3. "header_only" \in target.flags \/ target.owned = NoIndex
  BY <1>1, PoolIsRank
<1> HIDE DEF top
<1>4. ReplacementPlan(top, t, n) = Refused(Asked(n), "range", "target_not_owned")
  BY <1>2, <1>3 DEF ReplacementPlan, Asked
<1> QED  BY <1>4 DEF top

LEMMA PlanFigures ==
  ASSUME NEW seen \in Seq(Observation), NEW t \in DOMAIN seen, NEW n \in Nat,
         OwnsPool(seen[t])
  PROVE  LET plan == PlanFor(seen, t, n)
         IN  /\ plan \in PlanRecord /\ plan.reason = "none"
             /\ plan.pool = PoolOf(seen, t)
             /\ plan.affected = 1 + Cardinality(Referring(seen, PoolOf(seen, t)) \ {t})
             /\ plan.required >= n
<1> DEFINE p == PoolOf(seen, t)
           refs == Referring(seen, p)
           a == Cardinality(refs)
           b == 1 + Cardinality(refs \ {t})
           asked == Asked(n)
           c == Counted(asked, p, t, refs)
           e == seen[t].data_bytes - HeaderBytes
           q == IF n <= e THEN e ELSE Rounded(n)
<1>1. p \in Nat
  BY PoolIsRank
<1>2. a \in Nat /\ b \in Nat
  <2>1. IsFiniteSet(refs) /\ IsFiniteSet(refs \ {t})
    <3>1. refs \in SUBSET DOMAIN seen /\ refs \ {t} \in SUBSET DOMAIN seen
      BY DEF Referring
    <3> QED  BY <3>1, OwnersFinite, FS_Subset
  <2> HIDE DEF refs
  <2>2. Cardinality(refs) \in Nat /\ Cardinality(refs \ {t}) \in Nat
    BY <2>1, FS_CardinalityType
  <2> QED  BY <2>2
<1>3. e \in Nat
  <2> DEFINE o == seen[t]
  <2>1. o \in Observation
    OBVIOUS
  <2>2. o.data_bytes \in Nat
    <3> HIDE DEF o
    <3> QED  BY <2>1 DEF Observation
  <2> QED  BY <2>2, TopologyConstants DEF OwnsPool
<1>4. q \in Nat /\ q >= n
  BY <1>3, RoundedIsEnough
<1>5. asked \in PlanRecord /\ asked.reason = "none"
  <2>1. NoPlan \in PlanRecord /\ NoPlan.reason = "none"
    BY DEF NoPlan, NoIndex, PlanRecord, Reasons
  <2>2. asked = [NoPlan EXCEPT !.requested = n]
    BY DEF Asked
  <2> HIDE DEF asked
  <2> QED  BY <2>1, <2>2 DEF PlanRecord
<1>6. c = [asked EXCEPT !.pool = p, !.references = a, !.affected = b]
  BY DEF Counted
<1> HIDE DEF asked, p, a, b
<1>7. c \in PlanRecord /\ c.reason = "none" /\ c.pool = p /\ c.affected = b
  <2> HIDE DEF c
  <2> QED  BY <1>1, <1>2, <1>5, <1>6 DEF PlanRecord
<1> HIDE DEF c, e
<1> DEFINE z == Sized(c, e, n)
           fits == n <= e
           more == n > e
<1>8. z = [c EXCEPT !.existing = e, !.required = q, !.growth = q - e,
                    !.fits = fits, !.growth_required = more]
  BY DEF Sized
<1>9. fits \in BOOLEAN /\ more \in BOOLEAN /\ q - e \in Int
  BY <1>3, <1>4
<1> HIDE DEF z, q, fits, more
<1>10. /\ z \in PlanRecord /\ z.reason = "none" /\ z.pool = p /\ z.affected = b
       /\ z.required = q
  BY <1>3, <1>4, <1>7, <1>8, <1>9 DEF PlanRecord
<1>11. PlanFor(seen, t, n) = z
  BY DEF PlanFor, z, c, e, asked, p, refs
<1> QED  BY <1>4, <1>10, <1>11 DEF p, b, refs

(* What the five objections leave standing.                                *)
LEMMA NobodyElse ==
  ASSUME NEW seen \in Seq(Observation), NEW t \in DOMAIN seen, OwnsPool(seen[t]),
         "duplicate_selector" \notin FlagsOf(seen, t),
         ~StraysFrom(seen, seen[t].selector, PoolOf(seen, t))
  PROVE  /\ Named(seen, seen[t].selector) = {t}
         /\ { i \in DOMAIN seen : seen[i].source = seen[t].selector }
              = Referring(seen, PoolOf(seen, t))
<1> DEFINE named == Named(seen, seen[t].selector)
<1>1. named \in SUBSET DOMAIN seen /\ t \in named
  BY DEF Named
<1>2. IsFiniteSet(named)
  <2> HIDE DEF named
  <2> QED  BY <1>1, OwnersFinite, FS_Subset
<1>3. ~(Cardinality(named) > 1)
  BY DEF FlagsOf, LooseEnds
<1>4. Cardinality(named) \in Nat /\ Cardinality(named) # 0
  <2> HIDE DEF named
  <2> QED  BY <1>1, <1>2, FS_CardinalityType, FS_EmptySet
<1> HIDE DEF named
<1>5. Cardinality(named) = 1
  BY <1>3, <1>4
<1>6. named = {t}
  <2>1. \E x : named = {x}
    BY <1>2, <1>5, FS_Singleton
  <2> QED  BY <1>1, <2>1
<1>7. { i \in DOMAIN seen : seen[i].source = seen[t].selector }
        = Referring(seen, PoolOf(seen, t))
  BY DEF StraysFrom, Referring
<1> QED  BY <1>6, <1>7 DEF named

(* A verdict that surprises nobody.                                        *)
Unambiguous(seen, t, n, verdict) ==
  /\ verdict.plan.reason # "ambiguous_group_boundary"
  /\ verdict.status = "ok" =>
       /\ Named(seen, seen[t].selector) = {t}
       /\ { i \in DOMAIN seen : seen[i].source = seen[t].selector }
            = Referring(seen, verdict.plan.pool)
       /\ verdict.plan.affected =
            Cardinality({ i \in DOMAIN seen : seen[i].source = seen[t].selector } \cup {t})
       /\ verdict.plan.required >= n

LEMMA RefusalIsSafe ==
  ASSUME NEW seen, NEW t, NEW n, NEW plan \in PlanRecord,
         NEW status, status # "ok",
         NEW reason \in Reasons, reason # "ambiguous_group_boundary"
  PROVE  Unambiguous(seen, t, n, Refused(plan, status, reason))
<1> DEFINE refusal == [plan EXCEPT !.reason = reason]
           verdict == Refused(plan, status, reason)
<1>1. verdict.status = status /\ verdict.plan = refusal
  BY DEF Refused
<1>2. refusal.reason = reason
  BY DEF PlanRecord
<1> HIDE DEF verdict, refusal
<1>3. verdict.plan.reason # "ambiguous_group_boundary" /\ verdict.status # "ok"
  BY <1>1, <1>2
<1> QED  BY <1>3 DEF Unambiguous, verdict

LEMMA ObjectionsAre ==
  ASSUME NEW seen, NEW t, NEW plan
  PROVE  LET objections == ObjectionsTo(seen, t, plan)
         IN  /\ DOMAIN objections = 1..5
             /\ objections[1].holds <=> "duplicate_selector" \in FlagsOf(seen, t)
             /\ objections[4].holds <=>
                  StraysFrom(seen, seen[t].selector, PoolOf(seen, t))
             /\ \A i \in 1..5 : /\ objections[i].status \in {"parse", "range"}
                                 /\ objections[i].reason \in Reasons
                                 /\ objections[i].reason # "ambiguous_group_boundary"
<1> DEFINE b == "duplicate_selector" \in FlagsOf(seen, t)
           c == StraysFrom(seen, seen[t].selector, PoolOf(seen, t))
           d == plan.existing % BlockBytes # 0 /\ plan.growth_required
           o1 == Objection(b, "parse", "duplicate_target_selector")
           o2 == Objection("source_ambiguous" \in FlagsOf(seen, t),
                           "parse", "ambiguous_selector")
           o3 == Objection("unknown_extension" \in FlagsOf(seen, t),
                           "parse", "unknown_target_extension")
           o4 == Objection(c, "parse", "ambiguous_selector")
           o5 == Objection(d, "range", "existing_allocation_unaligned")
           Refuses(o) == /\ o.status \in {"parse", "range"} /\ o.reason \in Reasons
                         /\ o.reason # "ambiguous_group_boundary"
           objections == ObjectionsTo(seen, t, plan)
<1>1. Refuses(o1) /\ Refuses(o2) /\ Refuses(o3) /\ Refuses(o4) /\ Refuses(o5)
  BY DEF Objection, Reasons
<1>2. (o1.holds <=> b) /\ (o4.holds <=> c)
  BY DEF Objection
<1>3. objections = <<o1, o2, o3, o4, o5>>
  BY DEF ObjectionsTo, Unaligned
<1> HIDE DEF o1, o2, o3, o4, o5, objections
<1>4. /\ DOMAIN objections = 1..5
      /\ objections[1] = o1 /\ objections[2] = o2 /\ objections[3] = o3
      /\ objections[4] = o4 /\ objections[5] = o5
  BY <1>3
<1>5. \A i \in 1..5 : Refuses(objections[i])
  <2> HIDE DEF Refuses
  <2> QED  BY <1>1, <1>4
<1> HIDE DEF b, c
<1>6. (objections[1].holds <=> b) /\ (objections[4].holds <=> c)
  BY <1>2, <1>4
<1> QED  BY <1>4, <1>5, <1>6 DEF objections, b, c

LEMMA VerdictIsUnambiguous ==
  ASSUME NEW seen \in Seq(Observation), InOrder(seen), NEW t \in DOMAIN seen, NEW n \in Nat
  PROVE  Unambiguous(seen, t, n, ReplacementPlan(Topology(seen), t, n))
<1>1. CASE ~OwnsPool(seen[t]) \/ "header_only" \in FlagsOf(seen, t)
  <2>1. ReplacementPlan(Topology(seen), t, n) = Refused(Asked(n), "range", "target_not_owned")
    BY <1>1, NothingToReplace
  <2>2. Asked(n) \in PlanRecord
    <3>1. NoPlan \in PlanRecord
      BY DEF NoPlan, NoIndex, PlanRecord, Reasons
    <3> QED  BY <3>1 DEF Asked, PlanRecord
  <2>3. /\ "range" # "ok" /\ "target_not_owned" \in Reasons
        /\ "target_not_owned" # "ambiguous_group_boundary"
    BY DEF Reasons
  <2>4. Unambiguous(seen, t, n, Refused(Asked(n), "range", "target_not_owned"))
    BY <2>2, <2>3, RefusalIsSafe
  <2> QED  BY <2>1, <2>4
<1>2. CASE OwnsPool(seen[t]) /\ "header_only" \notin FlagsOf(seen, t)
  <2> DEFINE plan       == PlanFor(seen, t, n)
             objections == ObjectionsTo(seen, t, plan)
             verdict    == ReplacementPlan(Topology(seen), t, n)
             sharers    == { i \in DOMAIN seen : seen[i].source = seen[t].selector }
             p          == PoolOf(seen, t)
  <2>1. verdict = Judged(plan, objections)
    BY <1>2, OwnerIsJudged
  <2>2. /\ plan \in PlanRecord /\ plan.reason = "none" /\ plan.pool = p
        /\ plan.affected = 1 + Cardinality(Referring(seen, p) \ {t})
        /\ plan.required >= n
    BY <1>2, PlanFigures
  <2> HIDE DEF plan
  <2>3. /\ DOMAIN objections = 1..5
        /\ objections[1].holds <=> "duplicate_selector" \in FlagsOf(seen, t)
        /\ objections[4].holds <=> StraysFrom(seen, seen[t].selector, p)
        /\ \A i \in 1..5 : /\ objections[i].status \in {"parse", "range"}
                            /\ objections[i].reason \in Reasons
                            /\ objections[i].reason # "ambiguous_group_boundary"
    BY ObjectionsAre
  <2> HIDE DEF objections, verdict
  <2>4. FirstDecides(plan, objections)
    BY <2>3, FirstObjection
  <2>5. CASE \E i \in DOMAIN objections : objections[i].holds
    <3>1. PICK i \in DOMAIN objections :
            Judged(plan, objections) =
              Refused(plan, objections[i].status, objections[i].reason)
      BY <2>4, <2>5 DEF FirstDecides
    <3>2. /\ objections[i].status # "ok" /\ objections[i].reason \in Reasons
          /\ objections[i].reason # "ambiguous_group_boundary"
      BY <2>3
    <3>3. Unambiguous(seen, t, n, verdict)
      BY <2>1, <2>2, <3>1, <3>2, RefusalIsSafe
    <3> QED  BY <3>3 DEF verdict
  <2>6. CASE \A i \in DOMAIN objections : ~objections[i].holds
    <3> DEFINE granted == [plan EXCEPT !.growth_eligible = plan.existing % BlockBytes = 0]
    <3>1. verdict = Granted(granted)
      BY <2>1, <2>4, <2>6 DEF FirstDecides
    <3>2. /\ granted.reason = "none" /\ granted.pool = p
          /\ granted.affected = plan.affected /\ granted.required = plan.required
      BY <2>2 DEF PlanRecord
    <3> HIDE DEF granted
    <3>3. verdict.status = "ok" /\ verdict.plan = granted
      BY <3>1 DEF Granted
    <3>4. Named(seen, seen[t].selector) = {t} /\ sharers = Referring(seen, p)
      <4>1. /\ "duplicate_selector" \notin FlagsOf(seen, t)
            /\ ~StraysFrom(seen, seen[t].selector, p)
        BY <2>3, <2>6
      <4> QED  BY <1>2, <4>1, NobodyElse
    <3>5. Cardinality(sharers \cup {t}) = 1 + Cardinality(sharers \ {t})
      <4>1. sharers \in SUBSET DOMAIN seen /\ IsFiniteSet(DOMAIN seen)
        BY OwnersFinite
      <4> HIDE DEF sharers
      <4>2. IsFiniteSet(sharers \ {t})
        BY <4>1, FS_Subset
      <4>3. t \notin sharers \ {t} /\ (sharers \ {t}) \cup {t} = sharers \cup {t}
        OBVIOUS
      <4>4. Cardinality((sharers \ {t}) \cup {t}) = Cardinality(sharers \ {t}) + 1
        BY <4>2, <4>3, FS_AddElement
      <4>5. Cardinality(sharers \ {t}) \in Nat
        BY <4>2, FS_CardinalityType
      <4>6. Cardinality(sharers \cup {t}) = Cardinality(sharers \ {t}) + 1
        BY <4>3, <4>4, Zenon
      <4> QED  BY <4>5, <4>6
    <3>6. verdict.plan.affected = Cardinality(sharers \cup {t})
      BY <2>2, <3>2, <3>3, <3>4, <3>5
    <3>7. Unambiguous(seen, t, n, verdict)
      BY <2>2, <3>2, <3>3, <3>4, <3>6 DEF Unambiguous
    <3> QED  BY <3>7 DEF verdict
  <2> QED  BY <2>5, <2>6
<1> QED  BY <1>1, <1>2

-----------------------------------------------------------------------------
(* The measuring pass: counters that stop at two, one record after another.*)
Measure(T) ==
  [records : Nat, pools : Nat, named : [T -> Nat], owners : [T -> Nat],
   owner_pool : [T -> Nat]]

LEMMA MeasureStep ==
  ASSUME NEW T, NEW m \in Measure(T), NEW r, r.selector \in T
  PROVE  LET owned == IF OwnsPool(r) THEN 1 ELSE 0
             next  == MeasureRecord(m, r)
         IN  /\ next \in Measure(T)
             /\ next.records = m.records + 1 /\ next.pools = m.pools + owned
             /\ \A s \in T :
                  /\ next.named[s] = IF s = r.selector THEN Smaller(2, m.named[s] + 1)
                                     ELSE m.named[s]
                  /\ next.owners[s] = IF s = r.selector THEN Smaller(2, m.owners[s] + owned)
                                      ELSE m.owners[s]
                  /\ next.owner_pool[s] =
                       IF s = r.selector /\ OwnsPool(r) /\ m.owners[s] = 0
                       THEN m.pools + 1 ELSE m.owner_pool[s]
<1> DEFINE owned == IF OwnsPool(r) THEN 1 ELSE 0
           x     == r.selector
           named == [m.named EXCEPT ![x] = Smaller(2, @ + 1)]
           owners == [m.owners EXCEPT ![x] = Smaller(2, @ + owned)]
           pools == IF owned = 0 \/ m.owners[x] # 0 THEN m.owner_pool
                    ELSE [m.owner_pool EXCEPT ![x] = m.pools + 1]
           next  == MeasureRecord(m, r)
<1>1. /\ m.records \in Nat /\ m.pools \in Nat /\ m.named \in [T -> Nat]
      /\ m.owners \in [T -> Nat] /\ m.owner_pool \in [T -> Nat]
  BY DEF Measure
<1>2. owned \in Nat /\ (owned = 0 <=> ~OwnsPool(r))
  OBVIOUS
<1>3. next = [records |-> m.records + 1, pools |-> m.pools + owned, named |-> named,
              owners |-> owners, owner_pool |-> pools]
  BY DEF MeasureRecord
<1> HIDE DEF next, owned, x
<1>4. x \in T
  BY DEF x
<1>5. named \in [T -> Nat] /\ \A s \in T : named[s] = IF s = x THEN Smaller(2, m.named[s] + 1)
                                                   ELSE m.named[s]
  BY <1>1, <1>4 DEF Smaller
<1>6. owners \in [T -> Nat] /\ \A s \in T : owners[s] = IF s = x THEN Smaller(2, m.owners[s] + owned)
                                                     ELSE m.owners[s]
  BY <1>1, <1>2, <1>4 DEF Smaller
<1>7. pools \in [T -> Nat] /\ \A s \in T : pools[s] = IF s = x /\ owned # 0 /\ m.owners[s] = 0
                                                    THEN m.pools + 1 ELSE m.owner_pool[s]
  BY <1>1, <1>2, <1>4
<1> HIDE DEF named, owners, pools
<1>8. next \in Measure(T)
  BY <1>1, <1>2, <1>3, <1>5, <1>6, <1>7 DEF Measure
<1>9. /\ next.records = m.records + 1 /\ next.pools = m.pools + owned
      /\ next.named = named /\ next.owners = owners /\ next.owner_pool = pools
  BY <1>3
<1> QED  BY <1>2, <1>5, <1>6, <1>7, <1>8, <1>9 DEF next, owned, x

LEMMA SelectorsHold ==
  ASSUME NEW seen \in Seq(Observation), NEW i \in DOMAIN seen
  PROVE  seen[i].selector \in Selectors(seen) /\ seen[i].source \in Selectors(seen)
  BY DEF Selectors

LEMMA MeasureRunExists ==
  ASSUME NEW T, NEW s \in Measure(T), NEW n \in Nat,
         NEW G \in [1..n -> [Measure(T) -> Measure(T)]]
  PROVE  \E f \in [0..n -> Measure(T)] : f[0] = s /\ \A i \in 1..n : f[i] = G[i][f[i-1]]
<1> DEFINE S == Measure(T)
<1> HIDE DEF S
<1>1. \E f \in [0..n -> S] : f[0] = s /\ \A i \in 1..n : f[i] = G[i][f[i-1]]
  BY RunExists, SMT DEF S
<1> QED  BY <1>1 DEF S

LEMMA NewMeasureType ==
  ASSUME NEW T
  PROVE  NewMeasure(T) \in Measure(T)
  BY DEF NewMeasure, Measure, NoIndex

LEMMA MeasuredRun ==
  ASSUME NEW seen \in Seq(Observation)
  PROVE  LET run == MeasuredUpTo(seen)
             T   == Selectors(seen)
         IN  /\ run \in [0..Len(seen) -> Measure(T)] /\ run[0] = NewMeasure(T)
             /\ \A k \in 1..Len(seen) : run[k] = MeasureRecord(run[k-1], seen[k])
<1> DEFINE n == Len(seen)
           S == Measure(Selectors(seen))
           start == NewMeasure(Selectors(seen))
           Def(g) == g = [k \in 0..n |-> IF k = 0 THEN start ELSE MeasureRecord(g[k-1], seen[k])]
           F == MeasuredUpTo(seen)
           G == [k \in 1..n |-> [q \in S |-> MeasureRecord(q, seen[k])]]
<1>1. F = CHOOSE g : Def(g)
  BY DEF MeasuredUpTo
<1>2. n \in Nat /\ DOMAIN seen = 1..n /\ start \in S
  BY NewMeasureType
<1>3. \A k \in 1..n, q \in S : MeasureRecord(q, seen[k]) \in S
  BY <1>2, SelectorsHold, MeasureStep
<1>4. G \in [1..n -> [S -> S]]
  <2> HIDE DEF S, n
  <2> QED  BY <1>3
<1>5. PICK g \in [0..n -> S] : g[0] = start /\ \A k \in 1..n : g[k] = G[k][g[k-1]]
  <2> HIDE DEF G, n, start
  <2> QED  BY <1>2, <1>4, MeasureRunExists
<1> HIDE DEF start, S
<1>6. ASSUME NEW k \in 0..n
      PROVE  g[k] = IF k = 0 THEN start ELSE MeasureRecord(g[k-1], seen[k])
  <2>1. CASE k = 0
    BY <1>5, <2>1
  <2>2. CASE k \in 1..n
    <3>1. k - 1 \in 0..n
      BY <1>2, <2>2
    <3>2. g[k-1] \in S
      BY <3>1
    <3>3. G[k][g[k-1]] = MeasureRecord(g[k-1], seen[k])
      BY <2>2, <3>2
    <3> QED  BY <1>5, <2>2, <3>3
  <2> QED  BY <1>2, <2>1, <2>2
<1>7. Def(g)
  BY <1>5, <1>6
<1>8. Def(F)
  <2> HIDE DEF Def, F
  <2> QED  BY <1>1, <1>7
<1>9. F[0] = start /\ \A k \in 1..n : F[k] = MeasureRecord(F[k-1], seen[k])
  <2>1. 0 \in 0..n /\ \A k \in 1..n : k \in 0..n /\ k # 0
    BY <1>2
  <2> HIDE DEF F, n
  <2>2. \A k \in 0..n : F[k] = IF k = 0 THEN start ELSE MeasureRecord(F[k-1], seen[k])
    BY <1>8, Zenon
  <2> QED  BY <2>1, <2>2
<1>10. \A k \in 0..n : F[k] \in S
  <2>1. \A k \in 1..n : F[k-1] \in S => F[k] \in S
    BY <1>3, <1>9
  <2> HIDE DEF F, n
  <2> QED  BY <1>2, <1>9, <2>1, RunStaysIn
<1> QED  BY <1>8, <1>9, <1>10 DEF start, S

(* What the counters say once k records are measured.                      *)
MeasuredAt(seen, m, k) ==
  /\ m.records = k /\ m.pools = Rank(Owners(seen), k)
  /\ \A s \in Selectors(seen) :
       /\ m.named[s] = Smaller(2, Rank(Named(seen, s), k))
       /\ m.owners[s] = Smaller(2, Rank(OwnersOf(seen, s), k))
       /\ m.owners[s] # 0 =>
            \E j \in OwnersOf(seen, s) : m.owner_pool[s] = PoolOf(seen, j)

LEMMA GroupsOfRecords ==
  ASSUME NEW seen \in Seq(Observation), NEW s
  PROVE  /\ Named(seen, s) \in SUBSET (1..Len(seen)) /\ Named(seen, s) \in SUBSET Nat
         /\ OwnersOf(seen, s) \in SUBSET (1..Len(seen)) /\ OwnersOf(seen, s) \in SUBSET Nat
         /\ Owners(seen) \in SUBSET (1..Len(seen)) /\ Owners(seen) \in SUBSET Nat
  BY OwnersFinite DEF Named, OwnersOf, Owners

LEMMA CountingToTwo ==
  ASSUME NEW a \in Nat, NEW b \in {0, 1}
  PROVE  Smaller(2, Smaller(2, a) + b) = Smaller(2, a + b)
  BY DEF Smaller

LEMMA MeasureGoesOn ==
  ASSUME NEW seen \in Seq(Observation), NEW k \in Nat, k + 1 \in DOMAIN seen,
         NEW m \in Measure(Selectors(seen)), MeasuredAt(seen, m, k)
  PROVE  MeasuredAt(seen, MeasureRecord(m, seen[k + 1]), k + 1)
<1> DEFINE r     == seen[k + 1]
           T     == Selectors(seen)
           owned == IF OwnsPool(r) THEN 1 ELSE 0
           next  == MeasureRecord(m, r)
<1>1. r.selector \in T
  BY SelectorsHold
<1>2. /\ next.records = m.records + 1 /\ next.pools = m.pools + owned
      /\ \A s \in T :
           /\ next.named[s] = IF s = r.selector THEN Smaller(2, m.named[s] + 1)
                              ELSE m.named[s]
           /\ next.owners[s] = IF s = r.selector THEN Smaller(2, m.owners[s] + owned)
                               ELSE m.owners[s]
           /\ next.owner_pool[s] =
                IF s = r.selector /\ OwnsPool(r) /\ m.owners[s] = 0
                THEN m.pools + 1 ELSE m.owner_pool[s]
  BY <1>1, MeasureStep
<1>3. /\ k + 1 \in Owners(seen) <=> OwnsPool(r)
      /\ \A s : /\ k + 1 \in Named(seen, s) <=> s = r.selector
               /\ k + 1 \in OwnersOf(seen, s) <=> s = r.selector /\ OwnsPool(r)
  BY DEF Owners, Named, OwnersOf
<1>4. m.records = k /\ m.pools = Rank(Owners(seen), k)
  BY DEF MeasuredAt
<1>5. Rank(Owners(seen), k + 1) = m.pools + owned
  <2>1. Rank(Owners(seen), k + 1)
          = Rank(Owners(seen), k) + (IF k + 1 \in Owners(seen) THEN 1 ELSE 0)
    BY GroupsOfRecords, RankNext
  <2> QED  BY <1>3, <1>4, <2>1
<1>6. OwnsPool(r) => PoolOf(seen, k + 1) = m.pools + 1
  BY <1>5, PoolIsRank
<1>7. owned \in {0, 1} /\ (owned = 1 <=> OwnsPool(r))
  OBVIOUS
<1> HIDE DEF next, owned, r
<1>8. ASSUME NEW s \in T
      PROVE  next.named[s] = Smaller(2, Rank(Named(seen, s), k + 1))
  <2> DEFINE a == Rank(Named(seen, s), k)
  <2>1. a \in Nat /\ Rank(Named(seen, s), k + 1)
                      = a + (IF k + 1 \in Named(seen, s) THEN 1 ELSE 0)
    BY GroupsOfRecords, RankNext
  <2>2. m.named[s] = Smaller(2, a)
    BY DEF MeasuredAt
  <2> HIDE DEF a
  <2>3. Smaller(2, Smaller(2, a) + 1) = Smaller(2, a + 1) /\ a + 0 = a
    BY <2>1, CountingToTwo
  <2>4. k + 1 \in Named(seen, s) <=> s = r.selector
    BY DEF Named, r
  <2>5. next.named[s] = IF s = r.selector THEN Smaller(2, m.named[s] + 1) ELSE m.named[s]
    BY <1>2
  <2> DEFINE c == Rank(Named(seen, s), k + 1)
  <2>6. c = IF s = r.selector THEN a + 1 ELSE a
    BY <2>1, <2>3, <2>4
  <2> HIDE DEF c
  <2>7. next.named[s] = Smaller(2, c)
    BY <2>2, <2>3, <2>5, <2>6
  <2> QED  BY <2>7 DEF c
<1>9. ASSUME NEW s \in T
      PROVE  next.owners[s] = Smaller(2, Rank(OwnersOf(seen, s), k + 1))
  <2> DEFINE a == Rank(OwnersOf(seen, s), k)
             b == IF k + 1 \in OwnersOf(seen, s) THEN 1 ELSE 0
  <2>1. a \in Nat /\ Rank(OwnersOf(seen, s), k + 1) = a + b
    BY GroupsOfRecords, RankNext
  <2>2. m.owners[s] = Smaller(2, a)
    BY DEF MeasuredAt
  <2>3. b = IF s = r.selector THEN owned ELSE 0
    <3>1. k + 1 \in OwnersOf(seen, s) <=> s = r.selector /\ OwnsPool(r)
      BY DEF OwnersOf, Named, r
    <3> QED  BY <1>7, <3>1
  <2> HIDE DEF a, b
  <2>4. Smaller(2, Smaller(2, a) + owned) = Smaller(2, a + owned) /\ a + 0 = a
    <3>1. a \in Nat /\ owned \in {0, 1}
      BY <1>7, <2>1
    <3>2. Smaller(2, Smaller(2, a) + owned) = Smaller(2, a + owned)
      BY <3>1, CountingToTwo, Zenon
    <3> QED  BY <3>1, <3>2
  <2>5. next.owners[s] = IF s = r.selector THEN Smaller(2, m.owners[s] + owned)
                         ELSE m.owners[s]
    BY <1>2
  <2>6. next.owners[s] = Smaller(2, a + b)
    BY <2>2, <2>3, <2>4, <2>5
  <2> QED  BY <2>1, <2>6
<1>10. ASSUME NEW s \in T, next.owners[s] # 0
       PROVE  \E j \in OwnersOf(seen, s) : next.owner_pool[s] = PoolOf(seen, j)
  <2>1. CASE s = r.selector /\ OwnsPool(r) /\ m.owners[s] = 0
    <3>1. next.owner_pool[s] = PoolOf(seen, k + 1) /\ k + 1 \in OwnersOf(seen, s)
      BY <1>2, <1>3, <1>6, <2>1
    <3> QED  BY <3>1
  <2>2. CASE ~(s = r.selector /\ OwnsPool(r) /\ m.owners[s] = 0)
    <3>1. next.owner_pool[s] = m.owner_pool[s]
      BY <1>2, <2>2
    <3>2. m.owners[s] # 0
      <4>1. m.owners \in [T -> Nat]
        BY DEF Measure
      <4> QED  BY <1>2, <1>7, <1>10, <2>2, <4>1 DEF Smaller
    <3>3. \E j \in OwnersOf(seen, s) : m.owner_pool[s] = PoolOf(seen, j)
      BY <3>2 DEF MeasuredAt
    <3> QED  BY <3>1, <3>3
  <2> QED  BY <2>1, <2>2
<1>11. MeasuredAt(seen, next, k + 1)
  BY <1>2, <1>4, <1>5, <1>8, <1>9, <1>10 DEF MeasuredAt
<1> QED  BY <1>11 DEF next, r

LEMMA MeasureCounts ==
  ASSUME NEW seen \in Seq(Observation)
  PROVE  /\ MeasuredAt(seen, Measured(seen), Len(seen))
         /\ Measured(seen) \in Measure(Selectors(seen))
<1> DEFINE n == Len(seen)
           run == MeasuredUpTo(seen)
           T == { k \in 0..n : MeasuredAt(seen, run[k], k) }
<1>1. n \in Nat /\ DOMAIN seen = 1..n
  OBVIOUS
<1>2. /\ run \in [0..n -> Measure(Selectors(seen))] /\ run[0] = NewMeasure(Selectors(seen))
      /\ \A k \in 1..n : run[k] = MeasureRecord(run[k-1], seen[k])
  BY MeasuredRun
<1> HIDE DEF run
<1>3. MeasuredAt(seen, run[0], 0)
  <2>1. \A s : Rank(Named(seen, s), 0) = 0 /\ Rank(OwnersOf(seen, s), 0) = 0
    BY <1>1, GroupsOfRecords, RankEnds
  <2>2. Rank(Owners(seen), 0) = 0
    BY <1>1, GroupsOfRecords, RankEnds
  <2>3. Smaller(2, 0) = 0
    BY DEF Smaller
  <2> QED  BY <1>2, <2>1, <2>2, <2>3 DEF MeasuredAt, NewMeasure
<1>4. ASSUME NEW k \in 1..n, k - 1 \in T PROVE k \in T
  <2> DEFINE j == k - 1
  <2>1. j \in Nat /\ k = j + 1 /\ k \in 0..n /\ j \in 0..n /\ j + 1 \in DOMAIN seen
    BY <1>1
  <2>2. MeasuredAt(seen, run[j], j)
    BY <1>4
  <2>3. run[k] = MeasureRecord(run[j], seen[k]) /\ run[j] \in Measure(Selectors(seen))
    BY <1>2, <2>1
  <2> HIDE DEF j, n
  <2>4. MeasuredAt(seen, MeasureRecord(run[j], seen[j + 1]), j + 1)
    BY <2>1, <2>2, <2>3, MeasureGoesOn
  <2> QED  BY <2>1, <2>3, <2>4
<1>5. 0..n \subseteq T
  <2>1. 0 \in T
    BY <1>1, <1>3
  <2> HIDE DEF T
  <2> QED  BY <1>1, <1>4, <2>1, InductionUpTo
<1>6. n \in T /\ n \in 0..n
  BY <1>1, <1>5
<1> QED  BY <1>2, <1>6 DEF Measured, run

(* Counters that stop at two tell apart what the plans ask.                *)
LEMMA MeasureTells ==
  ASSUME NEW seen \in Seq(Observation), NEW s \in Selectors(seen)
  PROVE  LET m == Measured(seen)
         IN  /\ m.named[s] > 1 <=> Cardinality(Named(seen, s)) > 1
             /\ m.owners[s] = 0 <=> OwnersOf(seen, s) = {}
             /\ m.owners[s] > 1 <=> Cardinality(OwnersOf(seen, s)) > 1
             /\ m.owners[s] = 1 <=> Cardinality(OwnersOf(seen, s)) = 1
             /\ m.owners[s] = 1 => m.owner_pool[s] = PoolNamed(seen, s)
             /\ m.owners[s] # 1 => PoolNamed(seen, s) = NoIndex
<1> DEFINE m == Measured(seen)
           n == Len(seen)
           a == Cardinality(Named(seen, s))
           O == OwnersOf(seen, s)
           b == Cardinality(O)
<1>1. n \in Nat
  OBVIOUS
<1>2. /\ Rank(Named(seen, s), n) = a /\ IsFiniteSet(Named(seen, s))
      /\ Rank(O, n) = b /\ IsFiniteSet(O)
  <2> HIDE DEF O, n
  <2>1. Named(seen, s) \in SUBSET (1..n) /\ O \in SUBSET (1..n)
    BY GroupsOfRecords DEF O, n
  <2> QED  BY <1>1, <2>1, RankEnds
<1>3. a \in Nat /\ b \in Nat /\ (b = 0 <=> O = {}) /\ (b = 1 <=> \E x : O = {x})
  <2> HIDE DEF O
  <2> QED  BY <1>2, FS_CardinalityType, FS_EmptySet, FS_Singleton
<1>4. /\ m.named[s] = Smaller(2, a) /\ m.owners[s] = Smaller(2, b)
      /\ m.owners[s] # 0 => \E j \in O : m.owner_pool[s] = PoolOf(seen, j)
  <2>1. MeasuredAt(seen, m, n)
    BY MeasureCounts
  <2> HIDE DEF m
  <2> QED  BY <1>2, <2>1 DEF MeasuredAt
<1>5. PoolNamed(seen, s) = IF b # 1 THEN NoIndex ELSE PoolOf(seen, CHOOSE i \in O : TRUE)
  BY DEF PoolNamed
<1> HIDE DEF m, a, b, O
<1>6. /\ m.named[s] > 1 <=> a > 1
      /\ m.owners[s] = 0 <=> b = 0
      /\ m.owners[s] > 1 <=> b > 1
      /\ m.owners[s] = 1 <=> b = 1
  BY <1>3, <1>4 DEF Smaller
<1>7. ASSUME m.owners[s] = 1 PROVE m.owner_pool[s] = PoolNamed(seen, s)
  <2>1. PICK x : O = {x}
    BY <1>3, <1>6, <1>7
  <2>2. (CHOOSE i \in O : TRUE) = x
    BY <2>1
  <2>3. m.owner_pool[s] = PoolOf(seen, x)
    BY <1>4, <1>7, <2>1
  <2> QED  BY <1>5, <1>6, <1>7, <2>2, <2>3
<1>8. m.owners[s] # 1 => PoolNamed(seen, s) = NoIndex
  BY <1>5, <1>6
<1> QED  BY <1>3, <1>6, <1>7, <1>8 DEF m, a, b, O

LEMMA EditSees ==
  ASSUME NEW seen \in Seq(Observation), NEW i \in DOMAIN seen
  PROVE  /\ EditFlags(Measured(seen), seen[i]) = LooseEnds(seen, i)
         /\ EditReference(Measured(seen), seen[i]) = PoolNamed(seen, seen[i].source)
<1> DEFINE m == Measured(seen)
           r == seen[i]
<1>1. r.selector \in Selectors(seen) /\ r.source \in Selectors(seen)
  BY SelectorsHold
<1>2. m.named[r.selector] > 1 <=> Cardinality(Named(seen, r.selector)) > 1
  BY <1>1, MeasureTells
<1>3. /\ m.owners[r.source] = 0 <=> OwnersOf(seen, r.source) = {}
      /\ m.owners[r.source] > 1 <=> Cardinality(OwnersOf(seen, r.source)) > 1
      /\ m.owners[r.source] = 1 => m.owner_pool[r.source] = PoolNamed(seen, r.source)
      /\ m.owners[r.source] # 1 => PoolNamed(seen, r.source) = NoIndex
  BY <1>1, MeasureTells
<1> HIDE DEF m
<1>4. EditFlags(m, r) = LooseEnds(seen, i)
  BY <1>2, <1>3 DEF EditFlags, LooseEnds
<1>5. EditReference(m, r) = PoolNamed(seen, r.source)
  BY <1>3 DEF EditReference
<1> QED  BY <1>4, <1>5 DEF m

(* The requirements measured are the sizes of the topology built.          *)
LEMMA RequirementsMatch ==
  ASSUME NEW seen \in Seq(Observation)
  PROVE  /\ Requirements(seen).records = Len(Topology(seen).records)
         /\ Requirements(seen).pools = Len(Topology(seen).pools)
         /\ Requirements(seen).references = Len(Topology(seen).references)
<1> DEFINE m == Measured(seen)
           n == Len(seen)
           C == { i \in DOMAIN seen : m.owners[seen[i].source] = 1 }
<1>1. n \in Nat /\ DOMAIN seen = 1..n
  OBVIOUS
<1>2. m.records = n /\ m.pools = Rank(Owners(seen), n)
  BY MeasureCounts DEF MeasuredAt
<1>3. Rank(Owners(seen), n) = Cardinality(Owners(seen))
  <2> HIDE DEF n
  <2> QED  BY <1>1, GroupsOfRecords, RankEnds DEF n
<1>4. Requirements(seen) = [records |-> m.records, pools |-> m.pools,
                            references |-> Cardinality(C)]
  BY DEF Requirements
<1>5. Len(TopologyRecords(seen)) = n
  <2> DEFINE E(i) == [selector   |-> seen[i].selector,
                      range      |-> seen[i].range,
                      source     |-> seen[i].source,
                      flags      |-> seen[i].flags \cup LooseEnds(seen, i),
                      selection  |-> seen[i].selection,
                      data       |-> seen[i].data,
                      owned      |-> PoolOf(seen, i),
                      referenced |-> PoolNamed(seen, seen[i].source)]
  <2>1. TopologyRecords(seen) = [i \in 1..n |-> E(i)]
    BY <1>1 DEF TopologyRecords
  <2> HIDE DEF E, n
  <2>2. Len([i \in 1..n |-> E(i)]) = n
    BY <1>1
  <2> QED  BY <2>1, <2>2
<1>6. C = Resolved(seen)
  <2>1. ASSUME NEW i \in DOMAIN seen
        PROVE  m.owners[seen[i].source] = 1 <=> PoolNamed(seen, seen[i].source) # NoIndex
    <3> DEFINE s == seen[i].source
               O == OwnersOf(seen, s)
    <3>1. s \in Selectors(seen)
      BY SelectorsHold
    <3>2. /\ m.owners[s] = 1 <=> Cardinality(O) = 1
          /\ m.owners[s] # 1 => PoolNamed(seen, s) = NoIndex
      BY <3>1, MeasureTells
    <3>3. ASSUME m.owners[s] = 1 PROVE PoolNamed(seen, s) # NoIndex
      <4>1. O \in SUBSET (1..n) /\ O \in SUBSET DOMAIN seen
        BY <1>1, GroupsOfRecords
      <4>2. IsFiniteSet(O)
        <5> HIDE DEF O, n
        <5> QED  BY <1>1, <4>1, RankEnds
      <4>3. O # {}
        <5>1. Cardinality(O) = 1
          BY <3>2, <3>3
        <5> HIDE DEF O
        <5>2. Cardinality(O) # Cardinality({})
          BY <5>1, FS_EmptySet
        <5> QED  BY <5>2
      <4> DEFINE j == CHOOSE i_1 \in O : TRUE
      <4>4. j \in O
        <5> HIDE DEF O
        <5> QED  BY <4>3
      <4>5. PoolNamed(seen, s) = PoolOf(seen, j)
        BY <3>2, <3>3 DEF PoolNamed
      <4>6. j \in DOMAIN seen /\ OwnsPool(seen[j])
        BY <4>4 DEF OwnersOf, Named
      <4> HIDE DEF j, s, O
      <4>7. PoolOf(seen, j) \in 1..Cardinality(Owners(seen))
        BY <4>6, PoolIsRank
      <4>8. Cardinality(Owners(seen)) \in Nat
        BY OwnersFinite, FS_CardinalityType
      <4>9. PoolOf(seen, j) # 0
        BY <4>7, <4>8
      <4> QED  BY <4>5, <4>9 DEF NoIndex
    <3> QED  BY <3>2, <3>3
  <2> QED  BY <2>1 DEF Resolved
<1>7. Len(TopologyReferences(seen)) = Cardinality(Resolved(seen))
  <2> DEFINE c == Cardinality(Resolved(seen))
             E(k) == ReferenceEntry(seen, Nth(Resolved(seen), k))
  <2>1. c \in Nat
    <3>1. Resolved(seen) \in SUBSET DOMAIN seen
      BY DEF Resolved
    <3>2. IsFiniteSet(Resolved(seen))
      BY <3>1, OwnersFinite, FS_Subset
    <3> QED  BY <3>2, FS_CardinalityType
  <2>2. TopologyReferences(seen) = [k \in 1..c |-> E(k)]
    BY DEF TopologyReferences
  <2> HIDE DEF c, E
  <2>3. Len([k \in 1..c |-> E(k)]) = c
    BY <2>1
  <2> QED  BY <2>2, <2>3 DEF c
<1>8. /\ Topology(seen).records = TopologyRecords(seen)
      /\ Topology(seen).references = TopologyReferences(seen)
  BY DEF Topology
<1> HIDE DEF m, C
<1>9. /\ Requirements(seen).records = m.records /\ Requirements(seen).pools = m.pools
      /\ Requirements(seen).references = Cardinality(C)
  BY <1>4
<1> QED  BY <1>2, <1>3, <1>5, <1>6, <1>7, <1>8, <1>9, TopologyShape

(* The plan over a frame judges the same record by the same objections;    *)
(* the fifth is about ranges and never holds for samples alone.            *)
ObjectionsInFrame(seen, t, plan) ==
  LET m == Measured(seen)
  IN  << Objection("duplicate_selector" \in EditFlags(m, seen[t]),
                   "parse", "duplicate_target_selector"),
         Objection("source_ambiguous" \in EditFlags(m, seen[t]),
                   "parse", "ambiguous_selector"),
         Objection("unknown_extension" \in seen[t].flags,
                   "parse", "unknown_target_extension"),
         Objection(EditStrays(m, seen, seen[t].selector, PoolOf(seen, t)),
                   "parse", "ambiguous_selector"),
         Objection(FALSE, "parse", "not_exclusive"),
         Unaligned(plan) >>

LEMMA NoteFlags ==
  ASSUME NEW seen \in Seq(Observation), NEW i \in DOMAIN seen
  PROVE  /\ "duplicate_selector" \in FlagsOf(seen, i)
              <=> "duplicate_selector" \in LooseEnds(seen, i)
         /\ "source_ambiguous" \in FlagsOf(seen, i)
              <=> "source_ambiguous" \in LooseEnds(seen, i)
         /\ "unknown_extension" \in FlagsOf(seen, i)
              <=> "unknown_extension" \in seen[i].flags
         /\ "header_only" \in FlagsOf(seen, i) <=> "header_only" \in seen[i].flags
         /\ FlagsOf(seen, i) \cap Ambiguities # {} <=> LooseEnds(seen, i) # {}
<1> DEFINE o == seen[i]
<1>1. o \in Observation
  OBVIOUS
<1>2. o.flags \subseteq {"header_only", "unknown_extension"}
  <2> HIDE DEF o
  <2> QED  BY <1>1 DEF Observation
<1>3. LooseEnds(seen, i) \subseteq Ambiguities
  BY DEF LooseEnds, Ambiguities
<1> DEFINE flags == o.flags
           ends == LooseEnds(seen, i)
<1>4. FlagsOf(seen, i) = flags \cup ends
  BY DEF FlagsOf
<1> HIDE DEF ends, flags
<1>5. flags \subseteq {"header_only", "unknown_extension"} /\ ends \subseteq Ambiguities
  BY <1>2, <1>3 DEF flags, ends
<1>6. /\ "duplicate_selector" \in flags \cup ends <=> "duplicate_selector" \in ends
      /\ "source_ambiguous" \in flags \cup ends <=> "source_ambiguous" \in ends
      /\ "unknown_extension" \in flags \cup ends <=> "unknown_extension" \in flags
      /\ "header_only" \in flags \cup ends <=> "header_only" \in flags
      /\ (flags \cup ends) \cap Ambiguities # {} <=> ends # {}
  BY <1>5 DEF Ambiguities
<1> QED  BY <1>4, <1>6 DEF flags, ends

LEMMA StraysAgree ==
  ASSUME NEW seen \in Seq(Observation), NEW x, NEW p
  PROVE  EditStrays(Measured(seen), seen, x, p) <=> StraysFrom(seen, x, p)
<1> DEFINE m == Measured(seen)
<1>1. \A i \in DOMAIN seen :
        /\ EditReference(m, seen[i]) = PoolNamed(seen, seen[i].source)
        /\ EditFlags(m, seen[i]) # {} <=> FlagsOf(seen, i) \cap Ambiguities # {}
  BY EditSees, NoteFlags
<1> HIDE DEF m
<1>2. EditStrays(m, seen, x, p) <=> StraysFrom(seen, x, p)
  BY <1>1 DEF EditStrays, StraysFrom
<1> QED  BY <1>2 DEF m

(* The same objections in the same order, one that never holds among them, *)
(* come to the same verdict.                                               *)
LEMMA SameVerdict ==
  ASSUME NEW plan, NEW o1, NEW o2, NEW o3, NEW o4, NEW o5, NEW never, ~never.holds
  PROVE  Judged(plan, <<o1, o2, o3, o4, o5>>) = Judged(plan, <<o1, o2, o3, o4, never, o5>>)
<1> DEFINE a == <<o1, o2, o3, o4, o5>>
           b == <<o1, o2, o3, o4, never, o5>>
           To(i) == IF i = 5 THEN 6 ELSE i
<1>1. /\ DOMAIN a = 1..5 /\ DOMAIN b = 1..6
      /\ a[1] = o1 /\ a[2] = o2 /\ a[3] = o3 /\ a[4] = o4 /\ a[5] = o5
      /\ b[1] = o1 /\ b[2] = o2 /\ b[3] = o3 /\ b[4] = o4 /\ b[5] = never /\ b[6] = o5
  OBVIOUS
<1> HIDE DEF a, b
<1>2. FirstDecides(plan, a) /\ FirstDecides(plan, b)
  BY <1>1, FirstObjection
<1>3. \A i \in 1..5 : To(i) \in 1..6 /\ b[To(i)] = a[i]
  BY <1>1
<1>4. \A j \in 1..6 : b[j].holds => \E i \in 1..5 : j = To(i)
  BY <1>1
<1>5. CASE \A i \in 1..5 : ~a[i].holds
  <2>1. \A j \in 1..6 : ~b[j].holds
    BY <1>3, <1>4, <1>5
  <2>2. /\ Judged(plan, a) =
             Granted([plan EXCEPT !.growth_eligible = plan.existing % BlockBytes = 0])
        /\ Judged(plan, b) =
             Granted([plan EXCEPT !.growth_eligible = plan.existing % BlockBytes = 0])
    BY <1>1, <1>2, <1>5, <2>1 DEF FirstDecides
  <2> QED  BY <2>2 DEF a, b
<1>6. CASE \E i \in 1..5 : a[i].holds
  <2>1. PICK i \in 1..5 :
          /\ a[i].holds /\ \A k \in 1..5 : a[k].holds => i <= k
          /\ Judged(plan, a) = Refused(plan, a[i].status, a[i].reason)
    BY <1>1, <1>2, <1>6 DEF FirstDecides
  <2>2. \E j \in 1..6 : b[j].holds
    BY <1>3, <2>1
  <2>3. PICK j \in 1..6 :
          /\ b[j].holds /\ \A k \in 1..6 : b[k].holds => j <= k
          /\ Judged(plan, b) = Refused(plan, b[j].status, b[j].reason)
    BY <1>1, <1>2, <2>2 DEF FirstDecides
  <2>4. PICK h \in 1..5 : j = To(h)
    BY <1>4, <2>3
  <2>5. a[h].holds /\ b[To(i)].holds /\ To(i) \in 1..6
    BY <1>3, <2>1, <2>3, <2>4
  <2>6. i <= h /\ To(h) <= To(i)
    BY <2>1, <2>3, <2>4, <2>5
  <2>7. i = h
    BY <2>6
  <2>8. b[j] = a[i]
    BY <1>3, <2>4, <2>7
  <2> QED  BY <2>1, <2>3, <2>8 DEF a, b
<1> QED  BY <1>5, <1>6

(* What the plan over a frame makes of the records found in it.            *)
CountedInFrame(seen, t, n) ==
  Counted(Asked(n), PoolOf(seen, t), t,
          EditReferring(Measured(seen), seen, PoolOf(seen, t)))

SizedInFrame(seen, t, n) ==
  Sized(CountedInFrame(seen, t, n), seen[t].data_bytes - HeaderBytes, StorageBytes(n, FALSE))

JudgedInFrame(seen, t, n) ==
  Judged(SizedInFrame(seen, t, n),
    << Objection("duplicate_selector" \in EditFlags(Measured(seen), seen[t]),
                 "parse", "duplicate_target_selector"),
       Objection("source_ambiguous" \in EditFlags(Measured(seen), seen[t]),
                 "parse", "ambiguous_selector"),
       Objection("unknown_extension" \in seen[t].flags,
                 "parse", "unknown_target_extension"),
       Objection(EditStrays(Measured(seen), seen, seen[t].selector,
                            CountedInFrame(seen, t, n).pool),
                 "parse", "ambiguous_selector"),
       Objection(FALSE /\ (CountedInFrame(seen, t, n).references # 1
                              \/ seen[t].source # seen[t].selector),
                 "parse", "not_exclusive"),
       Unaligned(SizedInFrame(seen, t, n)) >>)

FrameVerdict(seen, t, n) ==
  IF t \notin DOMAIN seen
  THEN Refused(Asked(n), "range", "target_record_out_of_range")
  ELSE IF "header_only" \in seen[t].flags \/ PoolOf(seen, t) = NoIndex
  THEN Refused(Asked(n), "range", "target_not_owned")
  ELSE IF ~TargetBoundaryValid(seen[t])
  THEN Refused(CountedInFrame(seen, t, n), "parse", "ambiguous_group_boundary")
  ELSE JudgedInFrame(seen, t, n)

LEMMA FramePlan ==
  ASSUME NEW f, NEW t, NEW n, ExactStatus(f, Parsed(f)) = "ok"
  PROVE  LET verdict == FrameVerdict(Parsed(f).stream.seen, t, n)
             plan    == EditPlan(f, t, n, FALSE)
         IN  plan.status = verdict.status /\ plan.edit.replacement = verdict.plan
<1> DEFINE seen    == Parsed(f).stream.seen
           verdict == FrameVerdict(seen, t, n)
           edit    == IF verdict.status # "ok"
                      THEN [NoEdit EXCEPT !.replacement = verdict.plan]
                      ELSE [frame_bytes |-> NewFrameBytes(f, verdict.plan),
                            target |-> t, data |-> seen[t].data,
                            selector |-> seen[t].selector,
                            replacement |-> verdict.plan]
<1>1. EditPlan(f, t, n, FALSE) = [status |-> verdict.status, edit |-> edit]
  BY DEF EditPlan, FrameVerdict, JudgedInFrame, SizedInFrame, CountedInFrame, Asked
<1>2. edit.replacement = verdict.plan
  <2> HIDE DEF verdict
  <2> QED  BY DEF NoEdit
<1> DEFINE status == verdict.status
           plan   == EditPlan(f, t, n, FALSE)
<1> HIDE DEF edit, status, plan
<1>3. plan = [status |-> status, edit |-> edit]
  BY <1>1 DEF status, plan
<1>4. plan.status = status /\ plan.edit = edit
  BY <1>3
<1> QED  BY <1>2, <1>4 DEF status, plan

LEMMA CountedFields ==
  ASSUME NEW p, NEW t, NEW n, NEW refs
  PROVE  Counted(Asked(n), p, t, refs).pool = p
<1> DEFINE a == Asked(n)
<1>1. DOMAIN a = {"reason", "pool", "requested", "existing", "required", "growth",
                  "references", "affected", "fits", "growth_required", "growth_eligible"}
  BY DEF Asked, NoPlan
<1> HIDE DEF a
<1>2. Counted(a, p, t, refs).pool = p
  BY <1>1 DEF Counted
<1> QED  BY <1>2 DEF a

LEMMA OwnerIsJudgedInFrame ==
  ASSUME NEW seen \in Seq(Observation), NEW t \in DOMAIN seen, NEW n \in Nat
  PROVE  JudgedInFrame(seen, t, n)
           = Judged(PlanFor(seen, t, n), ObjectionsTo(seen, t, PlanFor(seen, t, n)))
<1> DEFINE m    == Measured(seen)
           p    == PoolOf(seen, t)
           plan == PlanFor(seen, t, n)
           o1 == Objection("duplicate_selector" \in FlagsOf(seen, t),
                           "parse", "duplicate_target_selector")
           o2 == Objection("source_ambiguous" \in FlagsOf(seen, t),
                           "parse", "ambiguous_selector")
           o3 == Objection("unknown_extension" \in FlagsOf(seen, t),
                           "parse", "unknown_target_extension")
           o4 == Objection(StraysFrom(seen, seen[t].selector, p),
                           "parse", "ambiguous_selector")
           o5 == Unaligned(plan)
           q1 == Objection("duplicate_selector" \in EditFlags(m, seen[t]),
                           "parse", "duplicate_target_selector")
           q2 == Objection("source_ambiguous" \in EditFlags(m, seen[t]),
                           "parse", "ambiguous_selector")
           q3 == Objection("unknown_extension" \in seen[t].flags,
                           "parse", "unknown_target_extension")
           q4 == Objection(EditStrays(m, seen, seen[t].selector,
                                      CountedInFrame(seen, t, n).pool),
                           "parse", "ambiguous_selector")
           never == Objection(FALSE /\ (CountedInFrame(seen, t, n).references # 1
                                           \/ seen[t].source # seen[t].selector),
                              "parse", "not_exclusive")
           sized == SizedInFrame(seen, t, n)
<1>1. EditReferring(m, seen, p) = Referring(seen, p)
  BY EditSees DEF EditReferring, Referring
<1>2. sized = plan
  BY <1>1 DEF SizedInFrame, CountedInFrame, PlanFor, StorageBytes
<1>3. EditFlags(m, seen[t]) = LooseEnds(seen, t)
  BY EditSees
<1>4. q1 = o1 /\ q2 = o2 /\ q3 = o3
  <2>1. /\ ("duplicate_selector" \in FlagsOf(seen, t))
             = ("duplicate_selector" \in EditFlags(m, seen[t]))
        /\ ("source_ambiguous" \in FlagsOf(seen, t))
             = ("source_ambiguous" \in EditFlags(m, seen[t]))
        /\ ("unknown_extension" \in FlagsOf(seen, t))
             = ("unknown_extension" \in seen[t].flags)
    BY <1>3, NoteFlags
  <2> QED  BY <2>1
<1>5. q4 = o4
  <2>1. CountedInFrame(seen, t, n).pool = p
    BY CountedFields DEF CountedInFrame
  <2>2. EditStrays(m, seen, seen[t].selector, p) <=> StraysFrom(seen, seen[t].selector, p)
    BY StraysAgree
  <2>3. /\ EditStrays(m, seen, seen[t].selector, p) \in BOOLEAN
        /\ StraysFrom(seen, seen[t].selector, p) \in BOOLEAN
    BY DEF EditStrays, StraysFrom
  <2> HIDE DEF m, p
  <2>4. EditStrays(m, seen, seen[t].selector, p) = StraysFrom(seen, seen[t].selector, p)
    BY <2>2, <2>3
  <2> QED  BY <2>1, <2>4
<1>6. ~never.holds
  BY DEF Objection
<1>7. JudgedInFrame(seen, t, n) = Judged(sized, <<q1, q2, q3, q4, never, Unaligned(sized)>>)
  BY DEF JudgedInFrame
<1>8. ObjectionsTo(seen, t, plan) = <<o1, o2, o3, o4, o5>>
  BY DEF ObjectionsTo
<1> HIDE DEF o1, o2, o3, o4, o5, q1, q2, q3, q4, never, sized, plan
<1>9. JudgedInFrame(seen, t, n) = Judged(plan, <<o1, o2, o3, o4, never, o5>>)
  BY <1>2, <1>4, <1>5, <1>7 DEF o5
<1>10. Judged(plan, <<o1, o2, o3, o4, o5>>) = Judged(plan, <<o1, o2, o3, o4, never, o5>>)
  BY <1>6, SameVerdict
<1> QED  BY <1>8, <1>9, <1>10 DEF plan

LEMMA VerdictsAgree ==
  ASSUME NEW seen \in Seq(Observation), InOrder(seen), NEW t, NEW n \in Nat
  PROVE  ReplacementPlan(Topology(seen), t, n) = FrameVerdict(seen, t, n)
<1>1. CASE t \notin DOMAIN seen
  <2>1. t \notin DOMAIN Topology(seen).records
    BY <1>1, TopologyShape
  <2> DEFINE top == Topology(seen)
  <2> HIDE DEF top
  <2>2. ReplacementPlan(top, t, n) = Refused(Asked(n), "range", "target_record_out_of_range")
    BY <2>1 DEF ReplacementPlan, Asked, top
  <2> QED  BY <1>1, <2>2 DEF FrameVerdict, top
<1>2. CASE t \in DOMAIN seen /\ (~OwnsPool(seen[t]) \/ "header_only" \in FlagsOf(seen, t))
  <2>1. ReplacementPlan(Topology(seen), t, n) = Refused(Asked(n), "range", "target_not_owned")
    BY <1>2, NothingToReplace
  <2>2. "header_only" \in seen[t].flags \/ PoolOf(seen, t) = NoIndex
    BY <1>2, NoteFlags, PoolIsRank
  <2> QED  BY <1>2, <2>1, <2>2 DEF FrameVerdict
<1>3. CASE t \in DOMAIN seen /\ OwnsPool(seen[t]) /\ "header_only" \notin FlagsOf(seen, t)
  <2>1. ~("header_only" \in seen[t].flags \/ PoolOf(seen, t) = NoIndex)
    <3>1. "header_only" \notin seen[t].flags
      BY <1>3, NoteFlags
    <3>2. PoolOf(seen, t) \in 1..Cardinality(Owners(seen)) /\ Cardinality(Owners(seen)) \in Nat
      BY <1>3, PoolIsRank, TopologyShape
    <3> QED  BY <3>1, <3>2 DEF NoIndex
  <2>2. TargetBoundaryValid(seen[t])
    <3> DEFINE o == seen[t]
    <3>1. o \in Observation
      BY <1>3
    <3>2. o.data_bytes \in Nat /\ o.data.length \in Nat
      <4> HIDE DEF o
      <4> QED  BY <3>1 DEF Observation, Span
    <3>3. /\ o.selection.length # 0 /\ SpanEnd(o.selection) <= o.data.offset
          /\ o.data.length >= o.data_bytes + OverheadBytes
      BY <1>3 DEF InOrder
    <3>4. o.data_bytes > HeaderBytes
      BY <1>3 DEF OwnsPool
    <3> HIDE DEF o
    <3>5. o.data.length # 0
      BY <3>2, <3>3, TopologyConstants
    <3> QED  BY <3>3, <3>4, <3>5 DEF TargetBoundaryValid, o
  <2>3. FrameVerdict(seen, t, n) = JudgedInFrame(seen, t, n)
    BY <1>3, <2>1, <2>2 DEF FrameVerdict
  <2> QED  BY <1>3, <2>3, OwnerIsJudged, OwnerIsJudgedInFrame
<1> QED  BY <1>1, <1>2, <1>3
-----------------------------------------------------------------------------
(* The bytes of a run of packets on the wire.                              *)
LEMMA WireLenIs ==
  ASSUME NEW p \in Packet
  PROVE  /\ p.payload \in Seq(0..255) /\ Len(p.payload) \in Nat /\ p.tag \in Tags
         /\ WireLen(p) = 5 + Len(p.payload) /\ WireLen(p) \in Nat /\ WireLen(p) >= 5
<1>1. p.payload \in Seq(0..255) /\ p.tag \in Tags
  BY DEF Packet
<1>2. Len(p.payload) \in Nat
  BY <1>1
<1> QED  BY <1>1, <1>2, TopologyConstants DEF WireLen

Lengths == Nat

LEMMA LengthRunExists ==
  ASSUME NEW s \in Lengths, NEW n \in Nat, NEW G \in [1..n -> [Lengths -> Lengths]]
  PROVE  \E f \in [0..n -> Lengths] : f[0] = s /\ \A i \in 1..n : f[i] = G[i][f[i-1]]
  BY RunExists, SMT

LEMMA SumRunExists ==
  ASSUME NEW n \in Nat, NEW G \in [1..n -> [Nat -> Nat]]
  PROVE  \E f \in [0..n -> Nat] : f[0] = 0 /\ \A i \in 1..n : f[i] = G[i][f[i-1]]
<1> DEFINE s == 0
<1>1. s \in Lengths /\ G \in [1..n -> [Lengths -> Lengths]]
  BY DEF Lengths
<1> HIDE DEF s
<1>2. \E f \in [0..n -> Lengths] : f[0] = s /\ \A i \in 1..n : f[i] = G[i][f[i-1]]
  BY <1>1, LengthRunExists
<1> QED  BY <1>2 DEF Lengths, s

LEMMA WireRun ==
  ASSUME NEW f \in Seq(Packet)
  PROVE  LET sum == WireBytesUpTo(f)
         IN  /\ sum \in [0..Len(f) -> Nat] /\ sum[0] = 0
             /\ \A k \in 1..Len(f) : sum[k] = sum[k-1] + WireLen(f[k])
<1> DEFINE n == Len(f)
           Def(g) == g = [k \in 0..n |-> IF k = 0 THEN 0 ELSE g[k-1] + WireLen(f[k])]
           F == WireBytesUpTo(f)
           G == [k \in 1..n |-> [q \in Nat |-> q + WireLen(f[k])]]
<1>1. F = CHOOSE g : Def(g)
  BY DEF WireBytesUpTo
<1>2. n \in Nat /\ \A k \in 1..n : WireLen(f[k]) \in Nat
  <2>1. n \in Nat /\ \A k \in 1..n : f[k] \in Packet
    OBVIOUS
  <2> QED  BY <2>1, WireLenIs
<1>3. G \in [1..n -> [Nat -> Nat]]
  BY <1>2
<1>4. PICK g \in [0..n -> Nat] : g[0] = 0 /\ \A k \in 1..n : g[k] = G[k][g[k-1]]
  <2> HIDE DEF G, n
  <2> QED  BY <1>2, <1>3, SumRunExists
<1>5. ASSUME NEW k \in 0..n
      PROVE  g[k] = IF k = 0 THEN 0 ELSE g[k-1] + WireLen(f[k])
  <2>1. CASE k = 0
    BY <1>4, <2>1
  <2>2. CASE k \in 1..n
    <3>1. k - 1 \in 0..n
      BY <1>2, <2>2
    <3>2. g[k-1] \in Nat
      BY <3>1
    <3>3. G[k][g[k-1]] = g[k-1] + WireLen(f[k])
      BY <2>2, <3>2
    <3> QED  BY <1>4, <2>2, <3>3
  <2> QED  BY <1>2, <2>1, <2>2
<1>6. Def(g)
  BY <1>4, <1>5
<1>7. Def(F)
  <2> HIDE DEF Def, F
  <2> QED  BY <1>1, <1>6
<1>8. F[0] = 0 /\ \A k \in 1..n : F[k] = F[k-1] + WireLen(f[k])
  <2>1. 0 \in 0..n /\ \A k \in 1..n : k \in 0..n /\ k # 0
    BY <1>2
  <2> HIDE DEF F, n
  <2>2. \A k \in 0..n : F[k] = IF k = 0 THEN 0 ELSE F[k-1] + WireLen(f[k])
    BY <1>7, Zenon
  <2> QED  BY <2>1, <2>2
<1>9. \A k \in 0..n : F[k] \in Nat
  <2>1. \A k \in 1..n : F[k-1] \in Nat => F[k] \in Nat
    BY <1>2, <1>8
  <2> DEFINE S == Nat
  <2>2. F[0] \in S /\ \A k \in 1..n : F[k-1] \in S => F[k] \in S
    BY <1>8, <2>1
  <2> HIDE DEF F, n, S
  <2>3. \A k \in 0..n : F[k] \in S
    BY <1>2, <2>2, RunStaysIn
  <2> QED  BY <2>3 DEF S
<1>10. F \in [0..n -> Nat]
  BY <1>7, <1>9
<1> QED  BY <1>8, <1>10

(* A stretch of a run has the bytes between its ends.                      *)
LEMMA WireStretch ==
  ASSUME NEW f \in Seq(Packet), NEW g \in Seq(Packet), NEW a \in Nat, a + Len(g) <= Len(f),
         \A i \in 1..Len(g) : g[i] = f[a + i]
  PROVE  \A k \in 0..Len(g) :
           WireBytesUpTo(g)[k] = WireBytesUpTo(f)[a + k] - WireBytesUpTo(f)[a]
<1> DEFINE n == Len(g)
           F == WireBytesUpTo(f)
           H == WireBytesUpTo(g)
           T == { k \in 0..n : H[k] = F[a + k] - F[a] }
<1>1. n \in Nat /\ Len(f) \in Nat
  OBVIOUS
<1>2. /\ F \in [0..Len(f) -> Nat] /\ \A k \in 1..Len(f) : F[k] = F[k-1] + WireLen(f[k])
      /\ H \in [0..n -> Nat] /\ H[0] = 0 /\ \A k \in 1..n : H[k] = H[k-1] + WireLen(g[k])
  BY WireRun
<1>3. \A k \in 1..n : g[k] \in Packet /\ WireLen(g[k]) \in Nat
  BY WireLenIs
<1> HIDE DEF F, H, n
<1>4. 0 \in T
  BY <1>1, <1>2 DEF n
<1>5. ASSUME NEW k \in 1..n, k - 1 \in T PROVE k \in T
  <2>1. a + k \in 1..Len(f) /\ a + k - 1 \in 0..Len(f) /\ a \in 0..Len(f) /\ k \in 0..n
        /\ k - 1 \in 0..n /\ a + (k - 1) = a + k - 1
    <3>1. k \in 1..n /\ n \in Nat /\ Len(f) \in Nat /\ a \in Nat /\ a + n <= Len(f)
      BY <1>1 DEF n
    <3> QED  BY <3>1
  <2>2. H[k] = H[k-1] + WireLen(g[k]) /\ F[a + k] = F[a + k - 1] + WireLen(f[a + k])
    <3> DEFINE m == a + k
    <3>1. F[m] = F[m - 1] + WireLen(f[m])
      BY <1>2, <2>1
    <3> QED  BY <1>2, <3>1
  <2>3. g[k] = f[a + k] /\ WireLen(g[k]) \in Nat
    BY <1>3 DEF n
  <2>4. H[k-1] = F[a + k - 1] - F[a]
    BY <1>5, <2>1
  <2>5. F[a + k - 1] \in Nat /\ F[a] \in Nat
    BY <1>2, <2>1
  <2> QED  BY <2>1, <2>2, <2>3, <2>4, <2>5
<1>6. 0..n \subseteq T
  <2> HIDE DEF T
  <2> QED  BY <1>1, <1>4, <1>5, InductionUpTo
<1> QED  BY <1>6 DEF F, H, n

(* Offsets in a frame count the packets before them.                       *)
LEMMA OffsetIs ==
  ASSUME NEW f \in Seq(Packet), NEW k \in 0..Len(f)
  PROVE  /\ OffsetOf(f, k + 1) = PreambleBytes + WireBytesUpTo(f)[k]
         /\ OffsetOf(f, k + 1) \in Nat /\ PreambleBytes <= OffsetOf(f, k + 1)
<1> DEFINE g == SubSeq(f, 1, k)
<1>1. g \in Seq(Packet) /\ Len(g) = k /\ k \in Nat /\ \A i \in 1..Len(g) : g[i] = f[0 + i]
  OBVIOUS
<1>2. SubSeq(f, 1, (k + 1) - 1) = g
  BY <1>1
<1> HIDE DEF g
<1>3. WireBytesUpTo(g)[k] = WireBytesUpTo(f)[0 + k] - WireBytesUpTo(f)[0]
  BY <1>1, WireStretch, SMTT(30)
<1>4. WireBytesUpTo(f)[0] = 0 /\ WireBytesUpTo(f)[k] \in Nat
  BY WireRun
<1>5. OffsetOf(f, k + 1) = PreambleBytes + WireBytesUpTo(f)[k]
  <2>1. OffsetOf(f, k + 1) = PreambleBytes + WireBytesUpTo(g)[k]
    BY <1>1, <1>2, Zenon DEF OffsetOf, FrameLen, WireBytes
  <2>2. 0 + k = k
    BY <1>1
  <2> QED  BY <1>3, <1>4, <2>1, <2>2
<1> QED  BY <1>4, <1>5, TopologyConstants

LEMMA OffsetNext ==
  ASSUME NEW f \in Seq(Packet), NEW k \in 1..Len(f)
  PROVE  /\ OffsetOf(f, k) \in Nat /\ OffsetOf(f, k + 1) \in Nat
         /\ OffsetOf(f, k + 1) = OffsetOf(f, k) + WireLen(f[k])
<1>1. k - 1 \in 0..Len(f) /\ k \in 0..Len(f) /\ (k - 1) + 1 = k
  OBVIOUS
<1>2. OffsetOf(f, (k - 1) + 1) = PreambleBytes + WireBytesUpTo(f)[k - 1]
      /\ OffsetOf(f, (k - 1) + 1) \in Nat
  BY <1>1, OffsetIs
<1>3. OffsetOf(f, k + 1) = PreambleBytes + WireBytesUpTo(f)[k] /\ OffsetOf(f, k + 1) \in Nat
  BY <1>1, OffsetIs
<1>4. WireBytesUpTo(f)[k] = WireBytesUpTo(f)[k-1] + WireLen(f[k])
  BY WireRun
<1>5. WireBytesUpTo(f)[k-1] \in Nat /\ WireLen(f[k]) \in Nat
  <2>1. f[k] \in Packet
    OBVIOUS
  <2> QED  BY <1>1, <2>1, WireRun, WireLenIs
<1> QED  BY <1>1, <1>2, <1>3, <1>4, <1>5, TopologyConstants

(* The bytes of a stretch are the distance of its ends.                    *)
LEMMA StretchLength ==
  ASSUME NEW f \in Seq(Packet), NEW a \in 1..Len(f), NEW b \in a..Len(f)
  PROVE  WireBytes(SubSeq(f, a, b)) = OffsetOf(f, b + 1) - OffsetOf(f, a)
<1> DEFINE g == SubSeq(f, a, b)
<1>1. /\ g \in Seq(Packet) /\ Len(g) = b - a + 1 /\ a - 1 \in Nat /\ b \in 0..Len(f)
      /\ a - 1 \in 0..Len(f) /\ (a - 1) + Len(g) = b /\ Len(g) \in Nat /\ (a - 1) + 1 = a
      /\ \A i \in 1..Len(g) : g[i] = f[(a - 1) + i]
  <2>1. g \in Seq(Packet) /\ Len(g) = b - a + 1 /\ Len(f) \in Nat /\ a \in Nat /\ b \in Nat
        /\ \A i \in 1..Len(g) : g[i] = f[a + i - 1]
    OBVIOUS
  <2>2. \A i \in 1..Len(g) : a + i - 1 = (a - 1) + i
    BY <2>1
  <2> HIDE DEF g
  <2> QED  BY <2>1, <2>2
<1> HIDE DEF g
<1>2. WireBytesUpTo(g)[Len(g)] = WireBytesUpTo(f)[b] - WireBytesUpTo(f)[a - 1]
  <2>1. (a - 1) + Len(g) <= Len(f) /\ Len(g) \in 0..Len(g)
    BY <1>1
  <2>2. \A k \in 0..Len(g) :
          WireBytesUpTo(g)[k] = WireBytesUpTo(f)[(a - 1) + k] - WireBytesUpTo(f)[a - 1]
    BY <1>1, <2>1, WireStretch
  <2> QED  BY <1>1, <2>1, <2>2
<1>3. OffsetOf(f, b + 1) = PreambleBytes + WireBytesUpTo(f)[b]
  BY <1>1, OffsetIs
<1>4. OffsetOf(f, (a - 1) + 1) = PreambleBytes + WireBytesUpTo(f)[a - 1]
  BY <1>1, OffsetIs
<1>5. WireBytesUpTo(f)[b] \in Nat /\ WireBytesUpTo(f)[a - 1] \in Nat
  BY <1>1, WireRun
<1>6. OffsetOf(f, b + 1) - OffsetOf(f, a) = WireBytesUpTo(f)[b] - WireBytesUpTo(f)[a - 1]
  BY <1>1, <1>3, <1>4, <1>5, TopologyConstants
<1> QED  BY <1>2, <1>6 DEF WireBytes, g
-----------------------------------------------------------------------------
(* The data of some packets of a frame, gathered packet by packet.         *)
Payload == Seq(0..255)

LEMMA PayloadRunExists ==
  ASSUME NEW s \in Payload, NEW n \in Nat, NEW G \in [1..n -> [Payload -> Payload]]
  PROVE  \E f \in [0..n -> Payload] : f[0] = s /\ \A i \in 1..n : f[i] = G[i][f[i-1]]
  BY RunExists, SMT

LEMMA PayloadConcat ==
  /\ <<>> \in Payload
  /\ \A s, t \in Payload :
       /\ s \o t \in Payload /\ Len(s) \in Nat /\ Len(s \o t) = Len(s) + Len(t)
       /\ s \o <<>> = s /\ <<>> \o s = s
  BY SMTT(30) DEF Payload

LEMMA FlattenIs ==
  ASSUME NEW seqs \in Seq(Payload)
  PROVE  \E h \in [0..Len(seqs) -> Payload] :
           /\ h[0] = <<>> /\ \A k \in 1..Len(seqs) : h[k] = h[k-1] \o seqs[k]
           /\ FlattenSeq(seqs) = h[Len(seqs)]
<1> DEFINE n == Len(seqs)
           G == [k \in 1..n |-> [q \in Payload |-> q \o seqs[k]]]
           Def(g) == g = [i \in 1..n |-> IF i = 1 THEN seqs[i] ELSE g[i-1] \o seqs[i]]
           F == CHOOSE g : Def(g)
           e == <<>>
<1>1. n \in Nat /\ \A k \in 1..n : seqs[k] \in Payload
  OBVIOUS
<1>2. G \in [1..n -> [Payload -> Payload]] /\ e \in Payload
  BY <1>1, PayloadConcat
<1>3. PICK h \in [0..n -> Payload] : h[0] = e /\ \A k \in 1..n : h[k] = G[k][h[k-1]]
  <2> HIDE DEF G, n, e
  <2> QED  BY <1>1, <1>2, PayloadRunExists
<1>4. \A k \in 1..n : h[k] = h[k-1] \o seqs[k]
  <2> TAKE k \in 1..n
  <2>1. k - 1 \in 0..n
    BY <1>1
  <2>2. h[k-1] \in Payload
    BY <2>1
  <2>3. G[k][h[k-1]] = h[k-1] \o seqs[k]
    BY <2>2
  <2> QED  BY <1>3, <2>3
<1>5. FlattenSeq(seqs) = h[n]
  <2>1. CASE n = 0
    <3>1. seqs = <<>>
      BY <2>1
    <3> QED  BY <1>3, <2>1, <3>1 DEF FlattenSeq
  <2>2. CASE n # 0
    <3> DEFINE g == [k \in 1..n |-> h[k]]
    <3>1. FlattenSeq(seqs) = F[n]
      BY <2>2 DEF FlattenSeq
    <3>2. ASSUME NEW i \in 1..n
          PROVE  g[i] = IF i = 1 THEN seqs[i] ELSE g[i-1] \o seqs[i]
      <4>1. CASE i = 1
        <5>1. h[1] = h[0] \o seqs[1] /\ h[0] = <<>> /\ seqs[1] \in Payload
          <6>1. 1 \in 1..n /\ 1 - 1 = 0
            BY <4>1
          <6> QED  BY <1>1, <1>3, <1>4, <6>1
        <5>2. h[1] = seqs[1]
          BY <5>1, PayloadConcat
        <5> QED  BY <4>1, <5>2
      <4>2. CASE i # 1
        <5>1. i - 1 \in 1..n
          BY <1>1, <4>2
        <5> QED  BY <1>4, <4>2, <5>1
      <4> QED  BY <4>1, <4>2
    <3>3. Def(g)
      BY <3>2
    <3>4. Def(F)
      <4> HIDE DEF Def, g
      <4> QED  BY <3>3
    <3> HIDE DEF F, G
    <3>5. \A i \in 1..n : F[i] = IF i = 1 THEN seqs[i] ELSE F[i-1] \o seqs[i]
      <4> HIDE DEF n
      <4> QED  BY <3>4, Zenon
    <3> DEFINE T == { k \in 0..n : k # 0 => F[k] = h[k] }
    <3>6. 0 \in T
      BY <1>1
    <3>7. ASSUME NEW k \in 1..n, k - 1 \in T PROVE k \in T
      <4>0. k \in 0..n
        BY <1>1
      <4>1. CASE k = 1
        <5>1. F[1] = seqs[1]
          BY <3>5, <4>1
        <5>2. g[1] = seqs[1] /\ g[1] = h[1]
          BY <3>2, <4>1
        <5> HIDE DEF g
        <5>3. F[k] = h[k]
          BY <4>1, <5>1, <5>2
        <5> QED  BY <4>0, <5>3
      <4>2. CASE k # 1
        <5>1. F[k] = F[k-1] \o seqs[k]
          BY <3>5, <4>2
        <5>2. F[k-1] = h[k-1]
          BY <1>1, <3>7, <4>2
        <5>3. F[k] = h[k]
          BY <1>4, <5>1, <5>2
        <5> QED  BY <4>0, <5>3
      <4> QED  BY <4>1, <4>2
    <3>8. 0..n \subseteq T
      <4> HIDE DEF T, n
      <4> QED  BY <1>1, <3>6, <3>7, InductionUpTo
    <3> QED  BY <1>1, <2>2, <3>1, <3>8
  <2> QED  BY <2>1, <2>2
<1> QED  BY <1>3, <1>4, <1>5

IsDataRun(f, js, h) ==
  /\ h \in [0..Len(f) -> Payload] /\ h[0] = <<>>
  /\ \A k \in 1..Len(f) : /\ k \in js => h[k] = h[k-1] \o f[k].payload
                          /\ k \notin js => h[k] = h[k-1]

LEMMA DataRun ==
  ASSUME NEW f \in Seq(Packet), NEW js
  PROVE  \E h : IsDataRun(f, js, h) /\ DataOf(f, js) = h[Len(f)]
<1> DEFINE seqs == [j \in DOMAIN f |-> IF j \in js THEN f[j].payload ELSE <<>>]
           n == Len(f)
<1>1. n \in Nat /\ DOMAIN f = 1..n /\ \A k \in 1..n : f[k].payload \in Payload
  <2>1. n \in Nat /\ DOMAIN f = 1..n /\ \A k \in 1..n : f[k] \in Packet
    OBVIOUS
  <2> QED  BY <2>1, WireLenIs DEF Payload
<1>2. seqs \in Seq(Payload) /\ Len(seqs) = n
  <2>1. seqs \in [1..n -> Payload]
    BY <1>1, PayloadConcat
  <2> HIDE DEF seqs
  <2> QED  BY <1>1, <2>1
<1>3. \A k \in 1..n : seqs[k] = IF k \in js THEN f[k].payload ELSE <<>>
  BY <1>1
<1> HIDE DEF seqs
<1>4. PICK h \in [0..n -> Payload] :
        /\ h[0] = <<>> /\ \A k \in 1..n : h[k] = h[k-1] \o seqs[k]
        /\ FlattenSeq(seqs) = h[n]
  BY <1>2, FlattenIs
<1>5. ASSUME NEW k \in 1..n, k \notin js PROVE h[k] = h[k-1]
  <2>1. h[k-1] \in Payload
    BY <1>1
  <2> QED  BY <1>3, <1>4, <1>5, <2>1, PayloadConcat
<1>6. \A k \in 1..n : k \in js => h[k] = h[k-1] \o f[k].payload
  BY <1>3, <1>4
<1>7. IsDataRun(f, js, h)
  BY <1>4, <1>5, <1>6 DEF IsDataRun
<1>8. DataOf(f, js) = h[n]
  BY <1>4 DEF DataOf, seqs
<1> QED  BY <1>7, <1>8

LEMMA DataStays ==
  ASSUME NEW f \in Seq(Packet), NEW js, NEW h, IsDataRun(f, js, h),
         NEW a \in 0..Len(f), NEW b \in 0..Len(f), a <= b, \A j \in (a + 1)..b : j \notin js
  PROVE  h[b] = h[a]
<1> DEFINE n == b - a
           T == { k \in 0..n : h[a + k] = h[a] }
<1>1. n \in Nat /\ a + n = b /\ a \in Nat /\ b <= Len(f) /\ Len(f) \in Nat /\ a + 0 = a
  OBVIOUS
<1> HIDE DEF n
<1>2. 0 \in T
  BY <1>1
<1>3. ASSUME NEW k \in 1..n, k - 1 \in T PROVE k \in T
  <2>1. a + k \in 1..Len(f) /\ a + k \in (a + 1)..b /\ (a + k) - 1 = a + (k - 1)
        /\ k \in 0..n
    BY <1>1
  <2> DEFINE m == a + k
  <2>2. h[m] = h[m - 1]
    BY <2>1 DEF IsDataRun
  <2> QED  BY <1>3, <2>1, <2>2
<1>4. 0..n \subseteq T
  <2> HIDE DEF T
  <2> QED  BY <1>1, <1>2, <1>3, InductionUpTo
<1>5. n \in T
  BY <1>1, <1>4
<1> QED  BY <1>1, <1>5
-----------------------------------------------------------------------------
(* What each kind of packet does to the fields of the stream.              *)
LEMMA StreamFields ==
  ASSUME NEW s \in Stream
  PROVE  s.record \in Gathering /\ s.seen \in Seq(Observation) /\ s.status \in {"ok", "frame"}
  BY DEF Stream

LEMMA FinishedFields ==
  ASSUME NEW s \in Stream, s.status = "ok", NEW t, t = FinishRecord(s), t.status = "ok"
  PROVE  /\ t.record = NoRecord
         /\ ~s.record.have_data => t.seen = s.seen
         /\ s.record.have_data => /\ Len(s.record.header) = HeaderBytes
                                  /\ t.seen = Append(s.seen, Observed(s.record))
<1>1. CASE ~s.record.have_data
  <2>1. t = [s EXCEPT !.record = NoRecord]
    BY <1>1 DEF FinishRecord
  <2> QED  BY <1>1, <2>1 DEF Stream
<1>2. CASE s.record.have_data /\ Len(s.record.header) # HeaderBytes
  <2>1. t = [s EXCEPT !.status = "frame"]
    BY <1>2 DEF FinishRecord
  <2>2. t.status = "frame"
    BY <2>1 DEF Stream
  <2> QED  BY <2>2
<1>3. CASE s.record.have_data /\ Len(s.record.header) = HeaderBytes
  <2> DEFINE more == Append(s.seen, Observed(s.record))
  <2>1. t = [s EXCEPT !.record = NoRecord, !.seen = more]
    BY <1>3 DEF FinishRecord
  <2> HIDE DEF more
  <2>2. t.record = NoRecord /\ t.seen = more
    BY <2>1 DEF Stream
  <2> QED  BY <1>3, <2>2 DEF more
<1> QED  BY <1>1, <1>2, <1>3

(* What a packet makes of the record.                                      *)
Begun(p, pos, t) ==
  /\ t.record.active = TRUE /\ t.record.selector = p.payload[1]
  /\ t.record.header = <<>> /\ t.record.data_bytes = 0 /\ t.record.have_data = FALSE
  /\ t.record.selection = [offset |-> pos, length |-> WireLen(p)]
  /\ t.record.unknown_extension = FALSE

Extended(s, p, pos, t) ==
  /\ s.record.active = TRUE /\ t.seen = s.seen
  /\ t.record.active = TRUE /\ t.record.selector = s.record.selector
  /\ t.record.selection = s.record.selection
  /\ t.record.have_data = TRUE
  /\ t.record.first = (IF s.record.have_data THEN s.record.first ELSE pos)
  /\ t.record.end = pos + WireLen(p)
  /\ t.record.header = SubSeq(s.record.header \o p.payload, 1,
                         Smaller(HeaderBytes, Len(s.record.header) + Len(p.payload)))
  /\ t.record.data_bytes = s.record.data_bytes + Len(p.payload)
  /\ t.record.unknown_extension = s.record.unknown_extension

Noted(s, b, t) ==
  /\ t.seen = s.seen /\ t.record.active = s.record.active
  /\ t.record.selector = s.record.selector /\ t.record.selection = s.record.selection
  /\ t.record.have_data = s.record.have_data /\ t.record.first = s.record.first
  /\ t.record.end = s.record.end /\ t.record.header = s.record.header
  /\ t.record.data_bytes = s.record.data_bytes /\ t.record.unknown_extension = b

LEMMA StartedFields ==
  ASSUME NEW s \in Stream, NEW p \in Packet, NEW pos \in Nat,
         NEW t, t = StartRecord(s, p, pos), t.status = "ok", FinishRecord(s) \in Stream
  PROVE  FinishRecord(s).status = "ok" /\ t.seen = FinishRecord(s).seen /\ Begun(p, pos, t)
<1> DEFINE f    == FinishRecord(s)
           span == [offset |-> pos, length |-> WireLen(p)]
           g    == [NoRecord EXCEPT !.active = TRUE, !.selector = p.payload[1],
                                    !.selection = span]
<1> HIDE DEF f
<1>1. t = IF f.status # "ok" THEN f
          ELSE IF Len(p.payload) # 1 THEN [f EXCEPT !.status = "frame"]
          ELSE [f EXCEPT !.record = g]
  BY DEF StartRecord, f
<1>2. f \in Stream
  BY DEF f
<1> HIDE DEF g
<1>3. f.status = "ok" /\ Len(p.payload) = 1
  <2>1. [f EXCEPT !.status = "frame"].status = "frame"
    BY <1>2 DEF Stream
  <2> QED  BY <1>1, <2>1
<1>4. t.record = g /\ t.seen = f.seen
  <2>1. t = [f EXCEPT !.record = g]
    BY <1>1, <1>3
  <2> QED  BY <1>2, <2>1 DEF Stream
<1>5. /\ g.active = TRUE /\ g.selector = p.payload[1] /\ g.header = <<>> /\ g.data_bytes = 0
      /\ g.have_data = FALSE /\ g.selection = span /\ g.unknown_extension = FALSE
  BY ZenonT(30) DEF g, NoRecord
<1>6. Begun(p, pos, t)
  BY <1>4, <1>5 DEF Begun
<1> QED  BY <1>3, <1>4, <1>6 DEF f

LEMMA AppendedFields ==
  ASSUME NEW s \in Stream, s.status = "ok", NEW p \in Packet, NEW pos \in Nat,
         NEW t, t = AppendData(s, p, pos), t.status = "ok"
  PROVE  Extended(s, p, pos, t)
<1> DEFINE r      == s.record
           first  == IF r.have_data THEN r.first ELSE pos
           later  == pos + WireLen(p)
           header == SubSeq(r.header \o p.payload, 1,
                            Smaller(HeaderBytes, Len(r.header) + Len(p.payload)))
           bytes  == r.data_bytes + Len(p.payload)
           g == [r EXCEPT !.first = first, !.have_data = TRUE, !.end = later,
                          !.header = header, !.data_bytes = bytes]
           u == [s EXCEPT !.record = g]
<1>1. r \in Gathering /\ s.seen \in Seq(Observation)
  BY StreamFields
<1>2. r.active = TRUE
  <2>1. CASE ~r.active
    <3>1. t = [s EXCEPT !.status = "frame"]
      BY <2>1 DEF AppendData
    <3>2. t.status = "frame"
      BY <3>1 DEF Stream
    <3> QED  BY <3>2
  <2>2. r.active \in BOOLEAN
    BY <1>1 DEF Gathering
  <2> QED  BY <2>1, <2>2
<1>3. t = u
  BY <1>1, <1>2 DEF AppendData, Stream, Gathering
<1> HIDE DEF first, later, header, bytes, r
<1>4. /\ g.active = r.active /\ g.selector = r.selector /\ g.selection = r.selection
      /\ g.have_data = TRUE /\ g.first = first /\ g.end = later /\ g.header = header
      /\ g.data_bytes = bytes /\ g.unknown_extension = r.unknown_extension
  BY <1>1, ZenonT(30) DEF Gathering
<1> HIDE DEF g
<1>5. t.record = g /\ t.seen = s.seen
  BY <1>3 DEF Stream
<1>6. /\ s.record.active = TRUE /\ t.seen = s.seen
      /\ t.record.active = TRUE /\ t.record.selector = s.record.selector
      /\ t.record.selection = s.record.selection
      /\ t.record.have_data = TRUE
      /\ t.record.first = (IF s.record.have_data THEN s.record.first ELSE pos)
      /\ t.record.end = pos + WireLen(p)
      /\ t.record.header = SubSeq(s.record.header \o p.payload, 1,
                             Smaller(HeaderBytes, Len(s.record.header) + Len(p.payload)))
      /\ t.record.data_bytes = s.record.data_bytes + Len(p.payload)
      /\ t.record.unknown_extension = s.record.unknown_extension
  BY <1>2, <1>4, <1>5 DEF first, later, header, bytes, r
<1> QED  BY <1>6, Zenon DEF Extended

LEMMA NotedFields ==
  ASSUME NEW s \in Stream, NEW b \in BOOLEAN,
         NEW t, t = [s EXCEPT !.record.unknown_extension = b]
  PROVE  Noted(s, b, t)
<1> DEFINE r == s.record
           g == [r EXCEPT !.unknown_extension = b]
           u == [s EXCEPT !.record = g]
<1>1. r \in Gathering
  BY StreamFields
<1>2. t = u
  OBVIOUS
<1> HIDE DEF r
<1>3. /\ g.active = r.active /\ g.selector = r.selector /\ g.selection = r.selection
      /\ g.have_data = r.have_data /\ g.first = r.first /\ g.end = r.end
      /\ g.header = r.header /\ g.data_bytes = r.data_bytes /\ g.unknown_extension = b
  BY <1>1, ZenonT(30) DEF Gathering
<1> HIDE DEF g
<1>4. t.record = g /\ t.seen = s.seen
  BY <1>2 DEF Stream
<1> QED  BY <1>3, <1>4 DEF r, Noted
-----------------------------------------------------------------------------
(* Groups of a frame.  A selector's group is open after k packets while    *)
(* neither another selector nor END has come.                              *)
Closing == {"select", "end"}

Open(f, i, k) ==
  /\ i \in 1..k /\ f[i].tag = "select"
  /\ \A j \in (i + 1)..k : f[j].tag \notin Closing

Closed(f, k) ==
  { i \in 1..k : f[i].tag = "select" /\ GroupData(f, i) # {} /\ ~Open(f, i, k) }

LEMMA GroupIs ==
  ASSUME NEW f \in Seq(Packet), NEW i \in Nat, NEW j \in Nat
  PROVE  /\ j \in Group(f, i) <=>
              j \in 1..Len(f) /\ j > i /\ \A m \in (i + 1)..j : f[m].tag \notin Closing
         /\ j \in GroupData(f, i) <=> j \in Group(f, i) /\ f[j].tag = "data"
         /\ Group(f, i) \subseteq 1..Len(f) /\ GroupData(f, i) \subseteq 1..Len(f)
<1>1. DOMAIN f = 1..Len(f) /\ Len(f) \in Nat
  OBVIOUS
<1> QED  BY <1>1 DEF Group, GroupData, Closing

LEMMA OpenUnique ==
  ASSUME NEW f, NEW k \in Nat, NEW i, NEW j, Open(f, i, k), Open(f, j, k)
  PROVE  i = j
<1>1. i \in 1..k /\ j \in 1..k /\ f[i].tag \in Closing /\ f[j].tag \in Closing
  BY DEF Open, Closing
<1>2. ~(i < j)
  <2>1. i < j => j \in (i + 1)..k
    BY <1>1
  <2> QED  BY <1>1, <2>1 DEF Open
<1>3. ~(j < i)
  <2>1. j < i => i \in (j + 1)..k
    BY <1>1
  <2> QED  BY <1>1, <2>1 DEF Open
<1> QED  BY <1>1, <1>2, <1>3

LEMMA OpenGroup ==
  ASSUME NEW f \in Seq(Packet), NEW k \in 0..Len(f), NEW i, Open(f, i, k)
  PROVE  /\ i \in 1..k
         /\ \A j \in 1..k : j \in Group(f, i) <=> j > i
         /\ \A j \in 1..k : j \in GroupData(f, i) <=> j > i /\ f[j].tag = "data"
         /\ k < Len(f) /\ f[k + 1].tag \in Closing => Group(f, i) \subseteq (i + 1)..k
<1>1. i \in 1..k /\ Len(f) \in Nat /\ k \in Nat /\ i \in Nat /\ k <= Len(f)
  BY DEF Open
<1>2. \A j \in 1..k : j \in Group(f, i) <=> j > i
  <2> TAKE j \in 1..k
  <2>1. j \in 1..Len(f) /\ j \in Nat
    BY <1>1
  <2>2. \A m \in (i + 1)..j : f[m].tag \notin Closing
    <3>1. \A m \in (i + 1)..j : m \in (i + 1)..k
      BY <1>1
    <3> QED  BY <3>1 DEF Open
  <2> QED  BY <1>1, <2>1, <2>2, GroupIs
<1>3. \A j \in 1..k : j \in GroupData(f, i) <=> j > i /\ f[j].tag = "data"
  BY <1>1, <1>2, GroupIs
<1>4. ASSUME k < Len(f), f[k + 1].tag \in Closing, NEW j \in Group(f, i) PROVE j \in (i + 1)..k
  <2>1. j \in 1..Len(f) /\ j \in Nat
    BY <1>1, GroupIs
  <2>2. j > i /\ \A m \in (i + 1)..j : f[m].tag \notin Closing
    BY <1>1, <2>1, GroupIs
  <2>3. ~(k + 1 \in (i + 1)..j)
    BY <1>4, <2>2
  <2> QED  BY <1>1, <2>1, <2>2, <2>3
<1> QED  BY <1>1, <1>2, <1>3, <1>4

LEMMA OpenStep ==
  ASSUME NEW f, NEW k \in Nat, NEW i
  PROVE  /\ f[k + 1].tag \notin Closing => (Open(f, i, k) <=> Open(f, i, k + 1))
         /\ f[k + 1].tag = "select" => (Open(f, i, k + 1) <=> i = k + 1)
         /\ f[k + 1].tag = "end" => ~Open(f, i, k + 1)
<1>1. ASSUME f[k + 1].tag \notin Closing PROVE Open(f, i, k) <=> Open(f, i, k + 1)
  <2>1. Open(f, i, k) => Open(f, i, k + 1)
    <3> SUFFICES ASSUME Open(f, i, k) PROVE Open(f, i, k + 1)
      OBVIOUS
    <3>1. i \in 1..k /\ f[i].tag = "select" /\ \A j \in (i + 1)..k : f[j].tag \notin Closing
      BY DEF Open
    <3>2. i \in 1..(k + 1) /\ \A j \in (i + 1)..(k + 1) : j \in (i + 1)..k \/ j = k + 1
      BY <3>1
    <3> QED  BY <1>1, <3>1, <3>2 DEF Open
  <2>2. Open(f, i, k + 1) => Open(f, i, k)
    <3> SUFFICES ASSUME Open(f, i, k + 1) PROVE Open(f, i, k)
      OBVIOUS
    <3>1. /\ i \in 1..(k + 1) /\ f[i].tag = "select"
          /\ \A j \in (i + 1)..(k + 1) : f[j].tag \notin Closing
      BY DEF Open
    <3>2. i # k + 1
      BY <1>1, <3>1 DEF Closing
    <3>3. i \in 1..k /\ \A j \in (i + 1)..k : j \in (i + 1)..(k + 1)
      BY <3>1, <3>2
    <3> QED  BY <3>1, <3>3 DEF Open
  <2> QED  BY <2>1, <2>2
<1>2. ASSUME f[k + 1].tag = "select" PROVE Open(f, i, k + 1) <=> i = k + 1
  <2>1. i = k + 1 => Open(f, i, k + 1)
    BY <1>2 DEF Open
  <2>2. Open(f, i, k + 1) => i = k + 1
    <3> SUFFICES ASSUME Open(f, i, k + 1), i # k + 1 PROVE FALSE
      OBVIOUS
    <3>1. k + 1 \in (i + 1)..(k + 1)
      BY DEF Open
    <3> QED  BY <1>2, <3>1 DEF Open, Closing
  <2> QED  BY <2>1, <2>2
<1>3. ASSUME f[k + 1].tag = "end", Open(f, i, k + 1) PROVE FALSE
  <2>1. k + 1 \in (i + 1)..(k + 1) \/ i = k + 1
    BY <1>3 DEF Open
  <2> QED  BY <1>3, <2>1 DEF Open, Closing
<1> QED  BY <1>1, <1>2, <1>3

-----------------------------------------------------------------------------
(* The record being gathered holds what its group has shown so far.        *)
DataRunOf(f, i) ==
  CHOOSE h : IsDataRun(f, GroupData(f, i), h) /\ DataOf(f, GroupData(f, i)) = h[Len(f)]

LEMMA DataRunOfIs ==
  ASSUME NEW f \in Seq(Packet), NEW i
  PROVE  /\ IsDataRun(f, GroupData(f, i), DataRunOf(f, i))
         /\ DataOf(f, GroupData(f, i)) = DataRunOf(f, i)[Len(f)]
         /\ \A k \in 0..Len(f) : DataRunOf(f, i)[k] \in Payload
<1>1. \E h : IsDataRun(f, GroupData(f, i), h) /\ DataOf(f, GroupData(f, i)) = h[Len(f)]
  BY DataRun
<1>2. /\ IsDataRun(f, GroupData(f, i), DataRunOf(f, i))
      /\ DataOf(f, GroupData(f, i)) = DataRunOf(f, i)[Len(f)]
  BY <1>1 DEF DataRunOf
<1> QED  BY <1>2 DEF IsDataRun

HeaderOf(data) == SubSeq(data, 1, Smaller(HeaderBytes, Len(data)))

DataSeen(f, i, k) == { j \in (i + 1)..k : f[j].tag = "data" }

(* r.first and r.end are where the data begins and where it ends so far.   *)
Spanning(f, i, k, first, end) ==
  \E a \in DataSeen(f, i, k) : \E b \in DataSeen(f, i, k) :
    /\ \A j \in DataSeen(f, i, k) : a <= j /\ j <= b
    /\ first = OffsetOf(f, a) /\ end = OffsetOf(f, b + 1)

Holds(f, i, k, r) ==
  /\ r.selector = f[i].payload[1]
  /\ r.selection = [offset |-> OffsetOf(f, i), length |-> WireLen(f[i])]
  /\ r.header = HeaderOf(DataRunOf(f, i)[k])
  /\ r.data_bytes = Len(DataRunOf(f, i)[k])
  /\ r.have_data <=> DataSeen(f, i, k) # {}
  /\ r.have_data => Spanning(f, i, k, r.first, r.end)
  /\ r.unknown_extension <=> \E j \in (i + 1)..k : f[j].tag # "data"

LEMMA PrefixOf ==
  ASSUME NEW d \in Payload, NEW m \in Nat
  PROVE  /\ SubSeq(d, 1, Smaller(m, Len(d))) \in Payload
         /\ Len(SubSeq(d, 1, Smaller(m, Len(d)))) = Smaller(m, Len(d))
         /\ \A i \in 1..Smaller(m, Len(d)) : SubSeq(d, 1, Smaller(m, Len(d)))[i] = d[i]
<1> DEFINE n == Smaller(m, Len(d))
<1>1. n \in 0..Len(d) /\ n \in Nat
  BY DEF Smaller, Payload
<1> HIDE DEF n
<1>2. SubSeq(d, 1, n) \in Payload
  BY <1>1, PrefixType DEF Payload
<1>3. Len(SubSeq(d, 1, n)) = n
  BY <1>1 DEF Payload
<1>4. \A i \in 1..n : SubSeq(d, 1, n)[i] = d[i]
  BY <1>1 DEF Payload
<1> QED  BY <1>2, <1>3, <1>4 DEF n

LEMMA SameElements ==
  ASSUME NEW a \in Payload, NEW b \in Payload, NEW n \in Nat, Len(a) = n, Len(b) = n,
         \A i \in 1..n : a[i] = b[i]
  PROVE  a = b
  BY SMTT(30) DEF Payload

(* A prefix of the data so far, with more data behind it, cut again, is a  *)
(* prefix of all the data.                                                 *)
LEMMA HeaderGrows ==
  ASSUME NEW d \in Payload, NEW p \in Payload
  PROVE  /\ SubSeq(HeaderOf(d) \o p, 1, Smaller(HeaderBytes, Len(HeaderOf(d)) + Len(p)))
              = HeaderOf(d \o p)
         /\ Len(d \o p) = Len(d) + Len(p) /\ HeaderOf(<<>>) = <<>>
<1> DEFINE m == HeaderBytes
           c == HeaderOf(d)
           x == c \o p
           y == d \o p
           n == Smaller(m, Len(y))
           u == SubSeq(x, 1, Smaller(m, Len(x)))
           v == SubSeq(y, 1, n)
<1>1. m \in Nat
  BY TopologyConstants
<1>2. Len(d) \in Nat /\ Len(p) \in Nat
  BY PayloadConcat
<1>3. c \in Payload /\ Len(c) = Smaller(m, Len(d)) /\ \A i \in 1..Len(c) : c[i] = d[i]
  <2>1. c = SubSeq(d, 1, Smaller(m, Len(d)))
    BY DEF HeaderOf
  <2> HIDE DEF c, m
  <2> DEFINE q == SubSeq(d, 1, Smaller(m, Len(d)))
  <2>2. q \in Payload /\ Len(q) = Smaller(m, Len(d)) /\ \A i \in 1..Smaller(m, Len(d)) : q[i] = d[i]
    BY <1>1, PrefixOf, Zenon
  <2> HIDE DEF q
  <2>3. c = q
    BY <2>1 DEF q
  <2> QED  BY <2>2, <2>3
<1> HIDE DEF c, m
<1>4. x \in Payload /\ Len(x) = Len(c) + Len(p) /\ y \in Payload /\ Len(y) = Len(d) + Len(p)
      /\ Len(c) \in Nat
  BY <1>3, PayloadConcat
<1>5. /\ \A i \in 1..Len(c) : x[i] = c[i]
      /\ \A i \in 1..Len(p) : x[Len(c) + i] = p[i]
  BY <1>3, <1>4, SMTT(30) DEF Payload
<1>6. /\ \A i \in 1..Len(d) : y[i] = d[i]
      /\ \A i \in 1..Len(p) : y[Len(d) + i] = p[i]
  BY <1>4, SMTT(30) DEF Payload
<1> HIDE DEF x, y
<1>7. /\ u \in Payload /\ Len(u) = Smaller(m, Len(x)) /\ \A i \in 1..Len(u) : u[i] = x[i]
      /\ v \in Payload /\ Len(v) = n /\ \A i \in 1..n : v[i] = y[i]
  BY <1>1, <1>4, PrefixOf, ZenonT(90)
<1>8. Len(u) = n /\ n \in Nat /\ n <= m
  BY <1>1, <1>2, <1>3, <1>4, <1>7 DEF Smaller
<1> HIDE DEF u, v
<1>9. ASSUME NEW i \in 1..n PROVE u[i] = v[i]
  <2>1. u[i] = x[i] /\ v[i] = y[i]
    BY <1>7, <1>8
  <2>2. CASE i <= Len(c)
    <3>1. i \in 1..Len(c) /\ i \in 1..Len(d)
      BY <1>2, <1>3, <1>4, <2>2 DEF Smaller
    <3> QED  BY <1>3, <1>5, <1>6, <2>1, <3>1
  <2>3. CASE ~(i <= Len(c))
    <3>1. Len(c) = Len(d)
      BY <1>1, <1>2, <1>3, <1>8, <2>3 DEF Smaller
    <3> DEFINE j == i - Len(c)
    <3>2. j \in 1..Len(p) /\ i = Len(c) + j /\ i = Len(d) + j
      BY <1>2, <1>4, <1>8, <2>3, <3>1 DEF Smaller, n
    <3> HIDE DEF j
    <3>3. x[Len(c) + j] = p[j] /\ y[Len(d) + j] = p[j]
      BY <1>5, <1>6, <3>2, Zenon
    <3> QED  BY <2>1, <3>2, <3>3
  <2> QED  BY <2>2, <2>3
<1>10. u = v
  <2> HIDE DEF n
  <2> QED  BY <1>7, <1>8, <1>9, SameElements
<1>11. HeaderOf(<<>>) = <<>>
  BY <1>1 DEF HeaderOf, Smaller, m
<1> QED  BY <1>4, <1>10, <1>11 DEF u, v, n, x, y, c, m, HeaderOf

LEMMA HoldsBegins ==
  ASSUME NEW f \in Seq(Packet), NEW k \in 1..Len(f), NEW r,
         r.selector = f[k].payload[1], r.header = <<>>, r.data_bytes = 0, r.have_data = FALSE,
         r.selection = [offset |-> OffsetOf(f, k), length |-> WireLen(f[k])],
         r.unknown_extension = FALSE
  PROVE  Holds(f, k, k, r)
<1> DEFINE h == DataRunOf(f, k)
<1>1. IsDataRun(f, GroupData(f, k), h)
  BY DataRunOfIs
<1>2. k \in Nat /\ k \in 0..Len(f) /\ 0 \in 0..Len(f) /\ 0 <= k /\ (k + 1)..k = {}
  OBVIOUS
<1>3. \A j \in (0 + 1)..k : j \notin GroupData(f, k)
  <2>1. \A j \in (0 + 1)..k : j \in Nat /\ ~(j > k)
    BY <1>2
  <2> QED  BY <1>2, <2>1, GroupIs
<1> HIDE DEF h
<1>4. h[k] = h[0] /\ h[0] = <<>>
  <2>1. h[k] = h[0]
    BY <1>1, <1>2, <1>3, DataStays
  <2> QED  BY <1>1, <2>1 DEF IsDataRun
<1>5. HeaderOf(h[k]) = <<>> /\ Len(h[k]) = 0
  BY <1>4, HeaderGrows, PayloadConcat
<1>6. DataSeen(f, k, k) = {} /\ ~\E j \in (k + 1)..k : f[j].tag # "data"
  BY <1>2 DEF DataSeen
<1> QED  BY <1>5, <1>6 DEF Holds, h

LEMMA HoldsData ==
  ASSUME NEW f \in Seq(Packet), NEW k \in 1..Len(f), NEW i, Open(f, i, k - 1),
         f[k].tag = "data", NEW s, Holds(f, i, k - 1, s), s.have_data \in BOOLEAN, NEW r,
         r.selector = s.selector, r.selection = s.selection, r.have_data = TRUE,
         r.first = (IF s.have_data THEN s.first ELSE OffsetOf(f, k)),
         r.end = OffsetOf(f, k) + WireLen(f[k]),
         r.header = SubSeq(s.header \o f[k].payload, 1,
                           Smaller(HeaderBytes, Len(s.header) + Len(f[k].payload))),
         r.data_bytes = s.data_bytes + Len(f[k].payload),
         r.unknown_extension = s.unknown_extension
  PROVE  Open(f, i, k) /\ Holds(f, i, k, r)
<1> DEFINE h == DataRunOf(f, i)
           b == k - 1
           p == f[k].payload
<1>1. b \in Nat /\ b + 1 = k /\ b \in 0..Len(f) /\ k \in 0..Len(f) /\ Len(f) \in Nat /\ k \in Nat
  OBVIOUS
<1>2. f[b + 1].tag \notin Closing
  BY <1>1 DEF Closing
<1> HIDE DEF b
<1>3. Open(f, i, b)
  BY DEF b
<1>4. Open(f, i, k)
  <2>1. Open(f, i, b + 1)
    BY <1>1, <1>2, <1>3, OpenStep
  <2> QED  BY <1>1, <2>1
<1>5. i \in 1..b /\ k \in GroupData(f, i)
  <2>1. k \in GroupData(f, i) <=> k > i /\ f[k].tag = "data"
    BY <1>1, <1>4, OpenGroup
  <2>2. i \in 1..b
    BY <1>3 DEF Open
  <2> QED  BY <1>1, <2>1, <2>2
<1>6. h[k] = h[b] \o p /\ h[b] \in Payload
  BY <1>1, <1>5, DataRunOfIs DEF IsDataRun, b
<1>7. f[k] \in Packet /\ p \in Payload
  <2>1. f[k] \in Packet
    OBVIOUS
  <2> QED  BY <2>1, WireLenIs DEF Payload
<1>8. /\ s.selector = f[i].payload[1]
      /\ s.selection = [offset |-> OffsetOf(f, i), length |-> WireLen(f[i])]
      /\ s.header = HeaderOf(h[b]) /\ s.data_bytes = Len(h[b])
      /\ s.have_data <=> DataSeen(f, i, b) # {}
      /\ s.have_data => Spanning(f, i, b, s.first, s.end)
      /\ s.unknown_extension <=> \E j \in (i + 1)..b : f[j].tag # "data"
  BY DEF Holds, b
<1>9. r.header = HeaderOf(h[k]) /\ r.data_bytes = Len(h[k])
  <2> HIDE DEF h, p
  <2>1. r.header = SubSeq(HeaderOf(h[b]) \o p, 1,
                          Smaller(HeaderBytes, Len(HeaderOf(h[b])) + Len(p)))
    BY <1>8 DEF p
  <2>2. r.data_bytes = Len(h[b]) + Len(p)
    BY <1>8 DEF p
  <2> QED  BY <1>6, <1>7, <2>1, <2>2, HeaderGrows
<1> HIDE DEF h, p
<1>10. (i + 1)..k = ((i + 1)..b) \cup {k} /\ DataSeen(f, i, k) = DataSeen(f, i, b) \cup {k}
  <2>1. (i + 1)..k = ((i + 1)..b) \cup {k}
    BY <1>1, <1>5
  <2> QED  BY <2>1 DEF DataSeen
<1>11. (\E j \in (i + 1)..b : f[j].tag # "data") <=> \E j \in (i + 1)..k : f[j].tag # "data"
  BY <1>10
<1>12. Spanning(f, i, k, r.first, r.end)
  <2>1. r.end = OffsetOf(f, k + 1)
    BY OffsetNext
  <2>2. k \in DataSeen(f, i, k) /\ \A j \in DataSeen(f, i, k) : j <= k /\ j \in Nat
    BY <1>1, <1>5, <1>10 DEF DataSeen
  <2>3. CASE s.have_data
    <3>1. PICK a \in DataSeen(f, i, b) : \E c \in DataSeen(f, i, b) :
            /\ \A j \in DataSeen(f, i, b) : a <= j /\ j <= c
            /\ s.first = OffsetOf(f, a) /\ s.end = OffsetOf(f, c + 1)
      BY <1>8, <2>3 DEF Spanning
    <3>2. a \in DataSeen(f, i, k) /\ \A j \in DataSeen(f, i, k) : a <= j
      BY <1>10, <2>2, <3>1
    <3>3. r.first = OffsetOf(f, a)
      BY <2>3, <3>1
    <3> QED  BY <2>1, <2>2, <3>2, <3>3 DEF Spanning
  <2>4. CASE ~s.have_data
    <3>1. DataSeen(f, i, k) = {k} /\ r.first = OffsetOf(f, k)
      BY <1>8, <1>10, <2>4
    <3> QED  BY <1>1, <2>1, <2>2, <3>1 DEF Spanning
  <2> QED  BY <2>3, <2>4
<1>13. DataSeen(f, i, k) # {}
  BY <1>10
<1> QED  BY <1>4, <1>8, <1>9, <1>11, <1>12, <1>13 DEF Holds, h

LEMMA HoldsOther ==
  ASSUME NEW f \in Seq(Packet), NEW k \in 1..Len(f), NEW i, Open(f, i, k - 1),
         f[k].tag \notin {"select", "data", "end"}, NEW s, Holds(f, i, k - 1, s), NEW r,
         r.selector = s.selector, r.selection = s.selection, r.have_data = s.have_data,
         r.first = s.first, r.end = s.end, r.header = s.header, r.data_bytes = s.data_bytes,
         r.unknown_extension = TRUE
  PROVE  Open(f, i, k) /\ Holds(f, i, k, r)
<1> DEFINE h == DataRunOf(f, i)
           b == k - 1
<1>1. b \in Nat /\ b + 1 = k /\ b \in 0..Len(f) /\ k \in 0..Len(f) /\ Len(f) \in Nat /\ k \in Nat
  OBVIOUS
<1>2. f[b + 1].tag \notin Closing
  BY <1>1 DEF Closing
<1> HIDE DEF b
<1>3. Open(f, i, b)
  BY DEF b
<1>4. Open(f, i, k)
  <2>1. Open(f, i, b + 1)
    BY <1>1, <1>2, <1>3, OpenStep
  <2> QED  BY <1>1, <2>1
<1>5. i \in 1..b /\ k \notin GroupData(f, i)
  <2>1. k \in GroupData(f, i) <=> k > i /\ f[k].tag = "data"
    BY <1>1, <1>4, OpenGroup
  <2>2. i \in 1..b
    BY <1>3 DEF Open
  <2> QED  BY <1>1, <2>1, <2>2
<1>6. h[k] = h[b]
  BY <1>1, <1>5, DataRunOfIs DEF IsDataRun, b
<1>7. (i + 1)..k = ((i + 1)..b) \cup {k} /\ DataSeen(f, i, k) = DataSeen(f, i, b)
  <2>1. (i + 1)..k = ((i + 1)..b) \cup {k}
    BY <1>1, <1>5
  <2> QED  BY <2>1 DEF DataSeen
<1>8. \E j \in (i + 1)..k : f[j].tag # "data"
  BY <1>7
<1>9. s.have_data => Spanning(f, i, k, r.first, r.end)
  BY <1>7 DEF Holds, Spanning, b
<1> HIDE DEF h
<1> QED  BY <1>4, <1>6, <1>7, <1>8, <1>9 DEF Holds, h, b

(* When the group closes, what is recorded of it is the group.             *)
LEMMA HoldsCloses ==
  ASSUME NEW f \in Seq(Packet), NEW k \in 1..Len(f), k < Len(f), f[k + 1].tag \in Closing,
         NEW i, Open(f, i, k), NEW r, Holds(f, i, k, r)
  PROVE  /\ r.have_data <=> GroupData(f, i) # {}
         /\ r.have_data /\ Len(r.header) = HeaderBytes => Observed(r) = GroupAt(f, i)
<1> DEFINE h == DataRunOf(f, i)
           d == h[k]
           G == GroupData(f, i)
           n == Len(f)
<1>1. k \in 0..n /\ n \in 0..n /\ n \in Nat /\ k \in Nat /\ k <= n
  OBVIOUS
<1>2. i \in 1..k /\ Group(f, i) = (i + 1)..k /\ G = DataSeen(f, i, k)
  <2>1. /\ i \in 1..k /\ \A j \in 1..k : j \in Group(f, i) <=> j > i
        /\ \A j \in 1..k : j \in GroupData(f, i) <=> j > i /\ f[j].tag = "data"
        /\ Group(f, i) \subseteq (i + 1)..k
    BY <1>1, OpenGroup
  <2>2. \A j \in (i + 1)..k : j \in 1..k /\ j > i
    BY <2>1
  <2>3. Group(f, i) = (i + 1)..k
    BY <2>1, <2>2
  <2> QED  BY <2>1, <2>3 DEF GroupData, DataSeen
<1>3. DataOf(f, G) = d /\ d \in Payload
  <2>1. \A j \in (k + 1)..n : j \notin G
    BY <1>1, <1>2 DEF DataSeen
  <2>2. IsDataRun(f, G, h) /\ DataOf(f, G) = h[n] /\ d \in Payload
    BY <1>1, DataRunOfIs
  <2> HIDE DEF h, G, n
  <2>3. h[n] = h[k]
    BY <1>1, <2>1, <2>2, DataStays DEF n
  <2> QED  BY <2>2, <2>3
<1> HIDE DEF h
<1>4. /\ r.selector = f[i].payload[1]
      /\ r.selection = [offset |-> OffsetOf(f, i), length |-> WireLen(f[i])]
      /\ r.header = HeaderOf(d) /\ r.data_bytes = Len(d)
      /\ r.have_data <=> G # {}
      /\ r.have_data => Spanning(f, i, k, r.first, r.end)
      /\ r.unknown_extension <=> \E j \in Group(f, i) : f[j].tag # "data"
  BY <1>2 DEF Holds, h
<1> HIDE DEF d
<1>5. ASSUME r.have_data, Len(r.header) = HeaderBytes PROVE Observed(r) = GroupAt(f, i)
  <2>1. PICK a \in G : \E b \in G : /\ \A j \in G : a <= j /\ j <= b
                                    /\ r.first = OffsetOf(f, a) /\ r.end = OffsetOf(f, b + 1)
    BY <1>2, <1>4, <1>5 DEF Spanning
  <2>2. PICK b \in G : /\ \A j \in G : a <= j /\ j <= b
                       /\ r.first = OffsetOf(f, a) /\ r.end = OffsetOf(f, b + 1)
    BY <2>1
  <2>3. a \in 1..n /\ b \in a..n /\ G \subseteq Nat
    BY <1>1, <1>2, <2>2 DEF DataSeen
  <2>4. Min(G) = a /\ Max(G) = b
    <3>1. \A x \in G : (\A y \in G : x <= y) => x = a
      BY <2>2, <2>3
    <3>2. \A x \in G : (\A y \in G : x >= y) => x = b
      BY <2>2, <2>3
    <3>3. \A y \in G : a <= y /\ b >= y
      BY <2>2, <2>3
    <3> HIDE DEF G
    <3> QED  BY <3>1, <3>2, <3>3 DEF Min, Max
  <2>5. r.end - r.first = WireBytes(SubSeq(f, a, b))
    BY <2>2, <2>3, StretchLength
  <2>6. Len(d) \in Nat /\ HeaderBytes <= Len(d) /\ HeaderBytes \in Nat /\ 2 * RangeBytes \in Nat
        /\ 2 * RangeBytes <= HeaderBytes /\ 1 <= HeaderBytes
    <3>1. Len(d) \in Nat
      BY <1>3, PayloadConcat
    <3>2. Len(HeaderOf(d)) = Smaller(HeaderBytes, Len(d))
      BY <1>3, TopologyConstants, PrefixOf DEF HeaderOf
    <3> QED  BY <1>4, <1>5, <3>1, <3>2, TopologyConstants DEF Smaller
  <2>7. HeaderOf(d) = SubSeq(d, 1, HeaderBytes)
    BY <2>6 DEF HeaderOf, Smaller
  <2>8. SubSeq(r.header, 1, 2 * RangeBytes) = SubSeq(d, 1, 2 * RangeBytes)
        /\ r.header[HeaderBytes] = d[HeaderBytes]
    <3> DEFINE H == HeaderBytes
               c == SubSeq(d, 1, H)
               m == 2 * RangeBytes
    <3>1. H \in 1..Len(d) /\ m \in 0..H /\ Len(d) \in Nat /\ H \in Nat /\ m \in Nat
      BY <2>6
    <3> HIDE DEF H, m
    <3> DEFINE t == Len(d)
    <3>15. t \in Nat /\ H \in 0..t /\ m \in 0..t /\ d \in Seq(0..255) /\ Len(d) = t
      BY <1>3, <3>1 DEF Payload
    <3> HIDE DEF t
    <3>2. c \in Payload /\ Len(c) = H
      <4>1. c \in Seq(0..255)
        BY <3>15, PrefixType
      <4>2. Len(c) = H
        BY <3>15
      <4> QED  BY <4>1, <4>2 DEF Payload
    <3>3. \A x \in 1..H : c[x] = d[x]
      BY <1>3, <3>1 DEF Payload
    <3> HIDE DEF c
    <3>4. SubSeq(c, 1, m) \in Payload /\ SubSeq(d, 1, m) \in Payload
      <4>1. SubSeq(d, 1, m) \in Seq(0..255)
        BY <3>15, PrefixType
      <4>2. c \in Seq(0..255) /\ m \in 0..Len(c)
        BY <3>1, <3>2 DEF Payload
      <4>3. SubSeq(c, 1, m) \in Seq(0..255)
        BY <4>2, PrefixType
      <4> QED  BY <4>1, <4>3 DEF Payload
    <3>5. Len(SubSeq(c, 1, m)) = m /\ Len(SubSeq(d, 1, m)) = m
      BY <1>3, <3>1, <3>2 DEF Payload
    <3>6. \A x \in 1..m : SubSeq(c, 1, m)[x] = c[x] /\ SubSeq(d, 1, m)[x] = d[x]
      BY <1>3, <3>1, <3>2 DEF Payload
    <3>7. \A x \in 1..m : x \in 1..H
      BY <3>1
    <3>8. \A x \in 1..m : SubSeq(c, 1, m)[x] = SubSeq(d, 1, m)[x]
      BY <3>3, <3>6, <3>7
    <3>9. SubSeq(c, 1, m) = SubSeq(d, 1, m)
      BY <3>1, <3>4, <3>5, <3>8, SameElements
    <3>10. r.header = c /\ c[H] = d[H]
      BY <1>4, <2>7, <3>1, <3>3 DEF c, H
    <3> QED  BY <3>9, <3>10 DEF H, m
  <2>9. GroupAt(f, i) =
          [selector   |-> f[i].payload[1],
           range      |-> SubSeq(d, 1, 2 * RangeBytes),
           source     |-> d[HeaderBytes],
           selection  |-> [offset |-> OffsetOf(f, i), length |-> WireLen(f[i])],
           data       |-> [offset |-> OffsetOf(f, a), length |-> WireBytes(SubSeq(f, a, b))],
           data_bytes |-> Len(d),
           flags      |-> { z \in {"header_only"} : Len(d) = HeaderBytes }
                            \cup { z \in {"unknown_extension"} :
                                     \E j \in Group(f, i) : f[j].tag # "data" }]
    BY <1>3, <2>4 DEF GroupAt
  <2>10. Observed(r) =
          [selector   |-> r.selector,
           range      |-> SubSeq(r.header, 1, 2 * RangeBytes),
           source     |-> r.header[HeaderBytes],
           selection  |-> r.selection,
           data       |-> [offset |-> r.first, length |-> r.end - r.first],
           data_bytes |-> r.data_bytes,
           flags      |-> { z \in {"header_only"} : r.data_bytes = HeaderBytes }
                            \cup { z \in {"unknown_extension"} : r.unknown_extension }]
    BY DEF Observed
  <2> DEFINE U == { z \in {"unknown_extension"} : r.unknown_extension }
             V == { z \in {"unknown_extension"} : \E j \in Group(f, i) : f[j].tag # "data" }
  <2>11. U = V
    BY <1>4
  <2> HIDE DEF U, V
  <2>12. { z \in {"header_only"} : r.data_bytes = HeaderBytes } \cup U
           = { z \in {"header_only"} : Len(d) = HeaderBytes } \cup V
    BY <1>4, <2>11
  <2>13. r.first = OffsetOf(f, a) /\ r.selector = f[i].payload[1]
         /\ r.selection = [offset |-> OffsetOf(f, i), length |-> WireLen(f[i])]
         /\ r.data_bytes = Len(d)
    BY <1>4, <2>2
  <2> QED  BY <2>5, <2>8, <2>9, <2>10, <2>12, <2>13, Zenon DEF U, V
<1> QED  BY <1>4, <1>5
-----------------------------------------------------------------------------
(* The records of some selectors' groups, in the order of the frame.       *)
RecordsOf(f, S) == [n \in 1..Cardinality(S) |-> GroupAt(f, Nth(S, n))]

LEMMA NothingRecorded ==
  ASSUME NEW f
  PROVE  RecordsOf(f, {}) = <<>>
<1>1. Cardinality({}) = 0
  BY FS_EmptySet
<1> QED  BY <1>1 DEF RecordsOf

LEMMA ListGrows ==
  ASSUME NEW f, NEW S \in SUBSET Nat, IsFiniteSet(S), NEW i \in Nat, \A j \in S : j < i
  PROVE  RecordsOf(f, S \cup {i}) = Append(RecordsOf(f, S), GroupAt(f, i))
<1> DEFINE T == S \cup {i}
           c == Cardinality(S)
<1>1. i \notin S /\ T \in SUBSET Nat /\ i \in T
  OBVIOUS
<1>2. IsFiniteSet(T) /\ Cardinality(T) = c + 1 /\ c \in Nat
  BY <1>1, FS_AddElement, FS_CardinalityType
<1>3. ASSUME NEW n \in 1..c PROVE Nth(T, n) = Nth(S, n)
  <2> DEFINE j == Nth(S, n)
  <2>1. j \in S /\ Rank(S, j) = n
    BY NthRank
  <2>5. j < i /\ j \in Nat
    <3> HIDE DEF j
    <3> QED  BY <2>1
  <2>2. { x \in T : x <= j } = { x \in S : x <= j }
    <3> HIDE DEF j
    <3>1. ~(i <= j)
      BY <2>5
    <3> QED  BY <3>1
  <2> HIDE DEF T
  <2>3. Rank(T, j) = n /\ j \in T
    BY <2>1, <2>2 DEF Rank, T
  <2> HIDE DEF j
  <2>4. Nth(T, Rank(T, j)) = j
    BY <1>1, <1>2, <2>3, NthOfRank
  <2> QED  BY <2>3, <2>4 DEF j
<1>4. Nth(T, c + 1) = i
  <2>1. \A x \in T : x <= i
    OBVIOUS
  <2>5. { x \in T : x <= i } = T
    <3> HIDE DEF T
    <3> QED  BY <2>1
  <2>2. Rank(T, i) = c + 1
    <3> HIDE DEF T
    <3> QED  BY <1>2, <2>5 DEF Rank
  <2> HIDE DEF T
  <2>3. Nth(T, Rank(T, i)) = i
    BY <1>1, <1>2, NthOfRank
  <2> QED  BY <2>2, <2>3
<1> DEFINE g == GroupAt(f, i)
           r == RecordsOf(f, S)
           u == RecordsOf(f, T)
<1>5. u = [n \in 1..(c + 1) |-> GroupAt(f, Nth(T, n))]
  BY <1>2 DEF RecordsOf
<1>6. r = [n \in 1..c |-> GroupAt(f, Nth(S, n))]
  BY DEF RecordsOf
<1>7. Append(r, g) = [n \in 1..(c + 1) |-> IF n = c + 1 THEN g ELSE r[n]]
  <2> HIDE DEF g
  <2>1. Len(r) = c
    <3> HIDE DEF r, c
    <3> QED  BY <1>2, <1>6
  <2> QED  BY <1>2, <1>6, <2>1
<1>8. \A n \in 1..(c + 1) : GroupAt(f, Nth(T, n)) = IF n = c + 1 THEN g ELSE r[n]
  <2> HIDE DEF r, u
  <2> TAKE n \in 1..(c + 1)
  <2>1. CASE n = c + 1
    BY <1>4, <2>1
  <2>2. CASE n # c + 1
    <3>1. n \in 1..c
      BY <1>2, <2>2
    <3>2. r[n] = GroupAt(f, Nth(S, n))
      BY <1>6, <3>1
    <3> QED  BY <1>3, <2>2, <3>1, <3>2
  <2> QED  BY <2>1, <2>2
<1> HIDE DEF r, u, g
<1>9. u = Append(r, g)
  BY <1>5, <1>7, <1>8
<1> QED  BY <1>9 DEF u, r, g

(* The groups that are closed when one more packet has come.               *)
LEMMA ClosedStep ==
  ASSUME NEW f, NEW k \in Nat
  PROVE  /\ f[k + 1].tag \notin Closing => Closed(f, k + 1) = Closed(f, k)
         /\ f[k + 1].tag \in Closing =>
              Closed(f, k + 1) = Closed(f, k) \cup
                { i \in 1..k : Open(f, i, k) /\ GroupData(f, i) # {} }
         /\ Closed(f, k) \in SUBSET Nat /\ IsFiniteSet(Closed(f, k))
<1>1. 1..(k + 1) = (1..k) \cup {k + 1} /\ k + 1 \notin 1..k
  OBVIOUS
<1>2. ASSUME f[k + 1].tag \notin Closing PROVE Closed(f, k + 1) = Closed(f, k)
  <2>1. f[k + 1].tag # "select"
    BY <1>2 DEF Closing
  <2>2. \A i : Open(f, i, k) <=> Open(f, i, k + 1)
    BY <1>2, OpenStep
  <2> QED  BY <1>1, <2>1, <2>2 DEF Closed
<1>3. ASSUME f[k + 1].tag \in Closing
      PROVE  Closed(f, k + 1) = Closed(f, k) \cup
                { i \in 1..k : Open(f, i, k) /\ GroupData(f, i) # {} }
  <2>1. \A i \in 1..k : ~Open(f, i, k + 1)
    <3>1. \A i \in 1..k : k + 1 \in (i + 1)..(k + 1)
      OBVIOUS
    <3> QED  BY <1>3, <3>1 DEF Open
  <2>2. f[k + 1].tag = "select" => Open(f, k + 1, k + 1)
    BY OpenStep
  <2>3. Closed(f, k + 1) = { i \in 1..k : f[i].tag = "select" /\ GroupData(f, i) # {} }
    BY <1>1, <2>1, <2>2 DEF Closed
  <2>4. \A i \in 1..k : Open(f, i, k) => f[i].tag = "select"
    BY DEF Open
  <2> QED  BY <2>3, <2>4 DEF Closed
<1>4. Closed(f, k) \subseteq 1..k /\ IsFiniteSet(1..k)
  BY FS_Interval DEF Closed
<1>5. IsFiniteSet(Closed(f, k))
  BY <1>4, FS_Subset
<1> QED  BY <1>2, <1>3, <1>4, <1>5

(* The stream after k packets of a frame: it has recorded the groups that  *)
(* are closed, and holds what the open one has shown.                      *)
GroupsInv(f, k, s) ==
  /\ s.seen = RecordsOf(f, Closed(f, k))
  /\ s.record.active => \E i : Open(f, i, k) /\ Holds(f, i, k, s.record)
  /\ ~s.record.active => s.record.have_data = FALSE /\ \A i : ~Open(f, i, k)

LEMMA GroupsBegin ==
  ASSUME NEW f
  PROVE  GroupsInv(f, 0, NewStream)
<1>1. Closed(f, 0) = {} /\ \A i : ~Open(f, i, 0)
  BY DEF Closed, Open
<1>2. NewStream.seen = <<>> /\ NewStream.record = NoRecord
  BY DEF NewStream
<1>3. NoRecord.active = FALSE /\ NoRecord.have_data = FALSE
  BY DEF NoRecord
<1>4. RecordsOf(f, Closed(f, 0)) = <<>>
  BY <1>1, NothingRecorded
<1> QED  BY <1>1, <1>2, <1>3, <1>4 DEF GroupsInv

LEMMA GroupsFinish ==
  ASSUME NEW f \in Seq(Packet), NEW k \in 0..Len(f), k < Len(f), f[k + 1].tag \in Closing,
         NEW s \in Stream, s.status = "ok", GroupsInv(f, k, s),
         NEW t, t = FinishRecord(s), t.status = "ok"
  PROVE  t.seen = RecordsOf(f, Closed(f, k + 1)) /\ t.record = NoRecord
<1> DEFINE S == Closed(f, k)
           New == { i \in 1..k : Open(f, i, k) /\ GroupData(f, i) # {} }
<1>1. /\ t.record = NoRecord
      /\ ~s.record.have_data => t.seen = s.seen
      /\ s.record.have_data => /\ Len(s.record.header) = HeaderBytes
                               /\ t.seen = Append(s.seen, Observed(s.record))
  BY FinishedFields
<1>2. Closed(f, k + 1) = S \cup New /\ S \in SUBSET Nat /\ IsFiniteSet(S) /\ k \in Nat
  <2>1. k \in Nat
    OBVIOUS
  <2> QED  BY <2>1, ClosedStep
<1>3. s.seen = RecordsOf(f, S)
  BY DEF GroupsInv
<1>4. CASE ~s.record.active
  <2>1. New = {} /\ s.record.have_data = FALSE
    BY <1>4 DEF GroupsInv
  <2>2. Closed(f, k + 1) = S
    BY <1>2, <2>1
  <2> QED  BY <1>1, <1>3, <2>1, <2>2
<1>5. CASE s.record.active
  <2>1. PICK i : Open(f, i, k) /\ Holds(f, i, k, s.record)
    BY <1>5 DEF GroupsInv
  <2>2. i \in 1..k /\ k \in 1..Len(f) /\ i \in Nat
    BY <1>2, <2>1 DEF Open
  <2>3. /\ s.record.have_data <=> GroupData(f, i) # {}
        /\ s.record.have_data /\ Len(s.record.header) = HeaderBytes =>
             Observed(s.record) = GroupAt(f, i)
    BY <2>1, <2>2, HoldsCloses
  <2>4. \A j : Open(f, j, k) => j = i
    BY <1>2, <2>1, OpenUnique
  <2>5. New = IF s.record.have_data THEN {i} ELSE {}
    BY <2>1, <2>2, <2>3, <2>4
  <2>6. \A j \in S : j < i
    <3> TAKE j \in S
    <3>1. j \in 1..k /\ f[j].tag = "select" /\ ~Open(f, j, k)
      BY DEF Closed
    <3>2. j # i
      BY <2>1, <3>1
    <3>3. j > i => j \in (i + 1)..k
      BY <2>2, <3>1
    <3>4. ~(j > i)
      BY <2>1, <3>1, <3>3 DEF Open, Closing
    <3> QED  BY <2>2, <3>1, <3>2, <3>4
  <2> HIDE DEF S, New
  <2>7. CASE s.record.have_data
    <3>1. RecordsOf(f, S \cup {i}) = Append(RecordsOf(f, S), GroupAt(f, i))
      BY <1>2, <2>2, <2>6, ListGrows
    <3> QED  BY <1>1, <1>2, <1>3, <2>3, <2>5, <2>7, <3>1
  <2>8. CASE ~s.record.have_data
    <3>1. Closed(f, k + 1) = S
      BY <1>2, <2>5, <2>8
    <3> QED  BY <1>1, <1>3, <2>8, <3>1
  <2> QED  BY <2>7, <2>8
<1> QED  BY <1>4, <1>5

(* One packet more.                                                        *)
LEMMA GroupsStep ==
  ASSUME NEW f \in Seq(Packet), NEW k \in 0..Len(f), k < Len(f),
         NEW s \in Stream, s.status = "ok", GroupsInv(f, k, s), FinishRecord(s) \in Stream,
         NEW t, t = TopologyPacket(s, f[k + 1], OffsetOf(f, k + 1)), t.status = "ok"
  PROVE  GroupsInv(f, k + 1, t)
<1> DEFINE p == f[k + 1]
           pos == OffsetOf(f, k + 1)
           m == k + 1
<1>1. p \in Packet /\ k \in Nat /\ m \in 1..Len(f) /\ m - 1 = k /\ pos \in Nat
      /\ (k + 1) \in 1..Len(f)
  <2>1. k \in Nat /\ Len(f) \in Nat /\ k + 1 \in 1..Len(f)
    OBVIOUS
  <2> QED  BY <2>1, OffsetIs
<1>2. p.tag \in Tags /\ s.record.active \in BOOLEAN /\ s.record \in Gathering
      /\ s.record.have_data \in BOOLEAN /\ s.record.unknown_extension \in BOOLEAN
  BY <1>1, StreamFields DEF Packet, Gathering
<1>3. CASE p.tag = "select"
  <2>1. t = StartRecord(s, p, pos)
    BY <1>3 DEF TopologyPacket
  <2>2. /\ FinishRecord(s).status = "ok" /\ t.seen = FinishRecord(s).seen
        /\ t.record.active = TRUE /\ t.record.selector = p.payload[1]
        /\ t.record.header = <<>> /\ t.record.data_bytes = 0 /\ t.record.have_data = FALSE
        /\ t.record.selection = [offset |-> pos, length |-> WireLen(p)]
        /\ t.record.unknown_extension = FALSE
    <3> HIDE DEF p, pos, m
    <3>1. /\ FinishRecord(s).status = "ok" /\ t.seen = FinishRecord(s).seen
          /\ Begun(p, pos, t)
      BY <1>1, <2>1, StartedFields
    <3> QED  BY <3>1 DEF Begun
  <2>3. t.seen = RecordsOf(f, Closed(f, m))
    <3>1. f[k + 1].tag \in Closing
      BY <1>3 DEF Closing
    <3> QED  BY <2>2, <3>1, GroupsFinish
  <2>4. Holds(f, m, m, t.record)
    <3> DEFINE r == t.record
    <3>1. /\ r.selector = f[m].payload[1] /\ r.header = <<>> /\ r.data_bytes = 0
          /\ r.have_data = FALSE
          /\ r.selection = [offset |-> OffsetOf(f, m), length |-> WireLen(f[m])]
          /\ r.unknown_extension = FALSE
      BY <2>2
    <3> HIDE DEF r, m
    <3>2. Holds(f, m, m, r)
      BY <1>1, <3>1, HoldsBegins
    <3> QED  BY <3>2 DEF r
  <2>5. Open(f, m, m)
    BY <1>1, <1>3, OpenStep
  <2> QED  BY <2>2, <2>3, <2>4, <2>5 DEF GroupsInv
<1>4. CASE p.tag = "end"
  <2>1. t = FinishRecord(s)
    BY <1>4 DEF TopologyPacket
  <2>2. f[k + 1].tag \in Closing
    BY <1>4 DEF Closing
  <2>3. t.seen = RecordsOf(f, Closed(f, m)) /\ t.record = NoRecord
    BY <2>1, <2>2, GroupsFinish
  <2>4. \A i : ~Open(f, i, m)
    BY <1>1, <1>4, OpenStep
  <2>5. NoRecord.active = FALSE /\ NoRecord.have_data = FALSE
    BY DEF NoRecord
  <2> QED  BY <2>3, <2>4, <2>5 DEF GroupsInv
<1>5. CASE p.tag = "data"
  <2>1. t = AppendData(s, p, pos)
    BY <1>5 DEF TopologyPacket
  <2>2. /\ s.record.active = TRUE /\ t.seen = s.seen
        /\ t.record.active = TRUE /\ t.record.selector = s.record.selector
        /\ t.record.selection = s.record.selection
        /\ t.record.have_data = TRUE
        /\ t.record.first = (IF s.record.have_data THEN s.record.first ELSE pos)
        /\ t.record.end = pos + WireLen(p)
        /\ t.record.header = SubSeq(s.record.header \o p.payload, 1,
                               Smaller(HeaderBytes, Len(s.record.header) + Len(p.payload)))
        /\ t.record.data_bytes = s.record.data_bytes + Len(p.payload)
        /\ t.record.unknown_extension = s.record.unknown_extension
    <3> HIDE DEF p, pos, m
    <3>1. Extended(s, p, pos, t)
      BY <1>1, <2>1, AppendedFields
    <3> QED  BY <3>1, Zenon DEF Extended
  <2>3. Closed(f, m) = Closed(f, k)
    BY <1>1, <1>5, ClosedStep DEF Closing
  <2>4. PICK i : Open(f, i, k) /\ Holds(f, i, k, s.record)
    BY <2>2 DEF GroupsInv
  <2>5. Open(f, i, m) /\ Holds(f, i, m, t.record)
    <3> DEFINE r == t.record
               q == s.record
    <3>1. /\ Open(f, i, m - 1) /\ f[m].tag = "data" /\ Holds(f, i, m - 1, q)
          /\ q.have_data \in BOOLEAN
      BY <1>1, <1>2, <1>5, <2>4
    <3>2. /\ r.selector = q.selector /\ r.selection = q.selection /\ r.have_data = TRUE
          /\ r.first = (IF q.have_data THEN q.first ELSE OffsetOf(f, m))
          /\ r.end = OffsetOf(f, m) + WireLen(f[m])
          /\ r.header = SubSeq(q.header \o f[m].payload, 1,
                               Smaller(HeaderBytes, Len(q.header) + Len(f[m].payload)))
          /\ r.data_bytes = q.data_bytes + Len(f[m].payload)
          /\ r.unknown_extension = q.unknown_extension
      BY <2>2
    <3> HIDE DEF r, q, m
    <3>3. Open(f, i, m) /\ Holds(f, i, m, r)
      BY <1>1, <3>1, <3>2, HoldsData
    <3> QED  BY <3>3 DEF r
  <2> QED  BY <2>2, <2>3, <2>5 DEF GroupsInv
<1>6. CASE p.tag \notin {"select", "data", "end"}
  <2> DEFINE b == s.record.unknown_extension \/ s.record.active
  <2>1. t = [s EXCEPT !.record.unknown_extension = b] /\ b \in BOOLEAN
    BY <1>2, <1>6 DEF TopologyPacket, Stream, Gathering
  <2> HIDE DEF b
  <2>2. /\ t.seen = s.seen /\ t.record.active = s.record.active
        /\ t.record.selector = s.record.selector /\ t.record.selection = s.record.selection
        /\ t.record.have_data = s.record.have_data /\ t.record.first = s.record.first
        /\ t.record.end = s.record.end /\ t.record.header = s.record.header
        /\ t.record.data_bytes = s.record.data_bytes /\ t.record.unknown_extension = b
    BY <2>1, NotedFields DEF Noted
  <2>3. Closed(f, m) = Closed(f, k) /\ f[k + 1].tag \notin Closing
    BY <1>1, <1>6, ClosedStep DEF Closing
  <2>4. CASE ~s.record.active
    <3>1. s.record.have_data = FALSE /\ \A i : ~Open(f, i, k)
      BY <2>4 DEF GroupsInv
    <3>2. \A i : ~Open(f, i, m)
      BY <1>1, <2>3, <3>1, OpenStep
    <3> QED  BY <2>2, <2>3, <2>4, <3>1, <3>2 DEF GroupsInv
  <2>5. CASE s.record.active
    <3>1. PICK i : Open(f, i, k) /\ Holds(f, i, k, s.record)
      BY <2>5 DEF GroupsInv
    <3>2. Open(f, i, m) /\ Holds(f, i, m, t.record)
      <4> DEFINE r == t.record
                 q == s.record
      <4>1. /\ Open(f, i, m - 1) /\ f[m].tag \notin {"select", "data", "end"}
            /\ Holds(f, i, m - 1, q)
        BY <1>1, <1>6, <3>1
      <4>2. /\ r.selector = q.selector /\ r.selection = q.selection
            /\ r.have_data = q.have_data /\ r.first = q.first /\ r.end = q.end
            /\ r.header = q.header /\ r.data_bytes = q.data_bytes
            /\ r.unknown_extension = TRUE
        BY <2>2, <2>5 DEF b
      <4> HIDE DEF r, q, m
      <4>3. Open(f, i, m) /\ Holds(f, i, m, r)
        BY <1>1, <4>1, <4>2, HoldsOther
      <4> QED  BY <4>3 DEF r
    <3> QED  BY <2>2, <2>3, <2>5, <3>2 DEF GroupsInv
  <2> QED  BY <2>4, <2>5
<1> QED  BY <1>3, <1>4, <1>5, <1>6

(* The parser after k packets of a frame.                                  *)
WellFormed(f, c) ==
  \A j \in 1..c : /\ f[j].tag = "begin" <=> j = 1
                  /\ f[j].tag \in {"begin", "end"} => f[j].payload = <<>>
                  /\ f[j].tag = "end" => j = c

ParsedAt(f, k, q) ==
  /\ q.stream.status = "ok" /\ q.count \in 0..k /\ q.pos = OffsetOf(f, q.count + 1)
  /\ GroupsInv(f, q.count, q.stream)
  /\ WellFormed(f, q.count)
  /\ q.status = "more" => q.count = k /\ (k # 0 => f[k].tag # "end")
  /\ q.status = "done" => q.count # 0 /\ f[q.count].tag = "end"

Going(q) == q.status \in {"more", "done"}

LEMMA ParsedOn ==
  ASSUME NEW f \in Seq(Packet), NEW k \in 1..Len(f), NEW q \in Parsers,
         Going(q) => ParsedAt(f, k - 1, q),
         NEW u, u = ParseStep(q, f[k]), Going(u)
  PROVE  ParsedAt(f, k, u)
<1> DEFINE p == f[k]
           s == q.stream
           t == TopologyPacket(s, p, q.pos)
           b == k - 1
<1>1. b \in 0..Len(f) /\ b + 1 = k /\ b < Len(f) /\ b \in Nat /\ k \in 0..k /\ k \in Nat
      /\ 0..b \subseteq 0..k /\ p \in Packet
  OBVIOUS
<1>2. /\ q.pos \in Nat /\ q.count \in Nat /\ s \in Stream
      /\ q.status \in {"more", "done", "stopped", "bad"}
      /\ StreamInv(s, q.pos)
  BY ParserFacts
<1> HIDE DEF b
<1>3. CASE q.status # "more"
  <2>1. u = q
    BY <1>3 DEF ParseStep
  <2>2. q.status = "done" /\ ParsedAt(f, b, q)
    BY <1>3, <2>1 DEF Going, b
  <2> QED  BY <1>1, <2>1, <2>2 DEF ParsedAt
<1>4. CASE q.status = "more" /\ Misplaced(q.count, p)
  <2>1. u = [q EXCEPT !.status = "bad"]
    BY <1>4 DEF ParseStep
  <2>2. u.status = "bad"
    BY <2>1 DEF Parsers
  <2> QED  BY <2>2 DEF Going
<1>5. CASE q.status = "more" /\ ~Misplaced(q.count, p)
  <2> DEFINE later  == q.pos + WireLen(p)
             status == IF t.status # "ok" THEN "stopped"
                       ELSE IF p.tag = "end" THEN "done" ELSE "more"
  <2>1. u = [pos |-> later, count |-> q.count + 1, stream |-> t, status |-> status]
    BY <1>5 DEF ParseStep
  <2> HIDE DEF later, status, t
  <2>2. u.pos = later /\ u.count = q.count + 1 /\ u.stream = t /\ u.status = status
    BY <2>1
  <2>3. t.status = "ok" /\ u.status = IF p.tag = "end" THEN "done" ELSE "more"
    BY <2>2 DEF Going, status
  <2>4. ParsedAt(f, b, q)
    BY <1>5 DEF Going, b
  <2>5. q.count = b /\ s.status = "ok" /\ q.pos = OffsetOf(f, k) /\ GroupsInv(f, b, s)
        /\ WellFormed(f, b) /\ (b # 0 => f[b].tag # "end")
    BY <1>1, <1>5, <2>4 DEF ParsedAt
  <2>6. u.count = k /\ u.pos = OffsetOf(f, k + 1)
    <3>1. OffsetOf(f, k + 1) = OffsetOf(f, k) + WireLen(f[k])
      BY OffsetNext
    <3> QED  BY <1>1, <2>2, <2>5, <3>1 DEF later
  <2>7. GroupsInv(f, k, t)
    <3>1. FinishRecord(s) \in Stream
      <4>1. StreamInv(FinishRecord(s), q.pos)
        BY <1>2, <2>5, FinishKeeps
      <4> QED  BY <4>1 DEF StreamInv
    <3>2. t = TopologyPacket(s, f[b + 1], OffsetOf(f, b + 1))
      BY <1>1, <2>5 DEF t
    <3> HIDE DEF s
    <3>3. GroupsInv(f, b + 1, t)
      BY <1>1, <1>2, <2>3, <2>5, <3>1, <3>2, GroupsStep DEF s
    <3> QED  BY <1>1, <3>3
  <2>8. WellFormed(f, k)
    <3>1. p.tag \in {"begin", "end"} => p.payload = <<>>
      BY <1>5 DEF Misplaced
    <3>2. p.tag = "begin" <=> k = 1
      BY <1>1, <1>5, <2>5 DEF Misplaced
    <3>3. \A j \in 1..k : j = k \/ (j \in 1..b /\ (j = b => b # 0))
      BY <1>1
    <3> QED  BY <2>5, <3>1, <3>2, <3>3 DEF WellFormed
  <2> QED  BY <1>1, <2>2, <2>3, <2>6, <2>7, <2>8 DEF ParsedAt
<1> QED  BY <1>2, <1>3, <1>4, <1>5

LEMMA ParsedTurns ==
  ASSUME NEW f \in Seq(Packet), NEW k \in 0..Len(f), Going(ParsedUpTo(f)[k])
  PROVE  ParsedAt(f, k, ParsedUpTo(f)[k])
<1> DEFINE n == Len(f)
           F == ParsedUpTo(f)
           T == { j \in 0..n : Going(F[j]) => ParsedAt(f, j, F[j]) }
<1>1. n \in Nat /\ F \in [0..n -> Parsers] /\ F[0] = NewParse
      /\ \A j \in 1..n : F[j] = ParseStep(F[j-1], f[j])
  BY ParsedRun
<1> HIDE DEF F
<1>2. 0 \in T
  <2>1. /\ NewParse.pos = PreambleBytes /\ NewParse.count = 0 /\ NewParse.stream = NewStream
        /\ NewParse.status = "more" /\ NewStream.status = "ok"
    BY DEF NewParse, NewStream
  <2>2. OffsetOf(f, 0 + 1) = PreambleBytes
    <3>1. 0 \in 0..Len(f) /\ WireBytesUpTo(f)[0] = 0
      BY WireRun
    <3> QED  BY <3>1, OffsetIs, TopologyConstants
  <2>3. GroupsInv(f, 0, NewStream) /\ WellFormed(f, 0)
    BY GroupsBegin DEF WellFormed
  <2>4. ParsedAt(f, 0, NewParse)
    BY <2>1, <2>2, <2>3 DEF ParsedAt
  <2> QED  BY <1>1, <2>4
<1>3. ASSUME NEW j \in 1..n, j - 1 \in T PROVE j \in T
  <2> DEFINE q == F[j-1]
             u == F[j]
  <2>1. u = ParseStep(q, f[j]) /\ j - 1 \in 0..n /\ q \in Parsers
    BY <1>1
  <2>2. Going(q) => ParsedAt(f, j - 1, q)
    BY <1>3
  <2> HIDE DEF q, u
  <2>3. Going(u) => ParsedAt(f, j, u)
    BY <2>1, <2>2, ParsedOn
  <2> QED  BY <2>3 DEF u
<1>4. 0..n \subseteq T
  <2> HIDE DEF T
  <2> QED  BY <1>1, <1>2, <1>3, InductionUpTo
<1>5. k \in T
  BY <1>4
<1> QED  BY <1>5 DEF F

LEMMA ParsedGroups ==
  ASSUME NEW f \in Seq(Packet), Going(Parsed(f))
  PROVE  ParsedAt(f, Len(f), Parsed(f))
<1>1. Len(f) \in 0..Len(f) /\ Parsed(f) = ParsedUpTo(f)[Len(f)]
  BY DEF Parsed
<1> QED  BY <1>1, ParsedTurns

(* A frame read to its END: what was recorded are its groups.              *)
LEMMA DoneGroups ==
  ASSUME NEW f \in Seq(Packet), Parsed(f).status = "done"
  PROVE  LET q == Parsed(f)
         IN  /\ q.count \in 1..Len(f) /\ f[q.count].tag = "end" /\ WellFormed(f, q.count)
             /\ q.stream.seen = RecordsOf(f, Recorded(f, q.count))
<1> DEFINE q == Parsed(f)
           c == q.count
<1>1. ParsedAt(f, Len(f), q)
  BY ParsedGroups DEF Going
<1>2. c \in 1..Len(f) /\ f[c].tag = "end" /\ WellFormed(f, c) /\ GroupsInv(f, c, q.stream)
  BY <1>1 DEF ParsedAt
<1>3. \A i : ~Open(f, i, c)
  <2> SUFFICES ASSUME NEW i, Open(f, i, c) PROVE FALSE
    OBVIOUS
  <2>1. i = c \/ c \in (i + 1)..c
    BY <1>2 DEF Open
  <2> QED  BY <1>2, <2>1 DEF Open, Closing
<1>4. Closed(f, c) = Recorded(f, c)
  BY <1>3 DEF Closed, Recorded
<1> QED  BY <1>2, <1>4 DEF GroupsInv
-----------------------------------------------------------------------------
(* Places in a frame are in the order of its packets.                      *)
LEMMA OffsetsGrow ==
  ASSUME NEW f \in Seq(Packet), NEW a \in 1..(Len(f) + 1), NEW b \in 1..(Len(f) + 1)
  PROVE  /\ OffsetOf(f, a) \in Nat /\ OffsetOf(f, b) \in Nat
         /\ a <= b => OffsetOf(f, a) <= OffsetOf(f, b)
         /\ a < b => OffsetOf(f, a) < OffsetOf(f, b)
<1> DEFINE n == Len(f)
           O(k) == OffsetOf(f, k)
           m == n - (a - 1)
           T == { k \in 0..m : O(a + k) >= O(a) + k }
<1>1. n \in Nat /\ m \in Nat /\ a \in Nat /\ b \in Nat
  OBVIOUS
<1>2. \A k \in 1..(n + 1) : O(k) \in Nat
  <2> TAKE k \in 1..(n + 1)
  <2>1. k - 1 \in 0..Len(f) /\ (k - 1) + 1 = k
    BY <1>1
  <2>2. OffsetOf(f, (k - 1) + 1) \in Nat
    BY <2>1, OffsetIs
  <2> QED  BY <2>1, <2>2
<1>3. \A k \in 1..n : O(k + 1) >= O(k) + 1
  <2> TAKE k \in 1..n
  <2>1. f[k] \in Packet
    OBVIOUS
  <2>2. WireLen(f[k]) \in Nat /\ WireLen(f[k]) >= 5
    BY <2>1, WireLenIs
  <2>3. O(k + 1) = O(k) + WireLen(f[k]) /\ O(k) \in Nat
    BY OffsetNext
  <2> QED  BY <2>2, <2>3
<1> HIDE DEF O
<1>4. 0 \in T
  <2>1. O(a + 0) = O(a) /\ O(a) \in Nat /\ 0 \in 0..m
    BY <1>1, <1>2
  <2> QED  BY <2>1
<1>5. ASSUME NEW k \in 1..m, k - 1 \in T PROVE k \in T
  <2>1. a + (k - 1) \in 1..n /\ (a + (k - 1)) + 1 = a + k /\ k \in 0..m
    BY <1>1
  <2>2. O(a + k) >= O(a + (k - 1)) + 1
    BY <1>3, <2>1
  <2>3. O(a + (k - 1)) >= O(a) + (k - 1)
    BY <1>5
  <2>4. O(a + (k - 1)) \in Nat /\ O(a) \in Nat /\ O(a + k) \in Nat
    <3>1. a + k \in 1..(n + 1) /\ a + (k - 1) \in 1..(n + 1)
      BY <1>1
    <3> QED  BY <1>2, <3>1
  <2>5. O(a + k) >= O(a) + k
    BY <1>1, <2>2, <2>3, <2>4
  <2> QED  BY <2>1, <2>5
<1>6. 0..m \subseteq T
  <2> HIDE DEF T, m
  <2> QED  BY <1>1, <1>4, <1>5, InductionUpTo
<1>7. ASSUME a <= b PROVE O(b) >= O(a) + (b - a)
  <2>1. b - a \in 0..m /\ a + (b - a) = b
    BY <1>1, <1>7
  <2> DEFINE k == b - a
  <2>2. k \in T /\ a + k = b
    BY <1>6, <2>1
  <2> HIDE DEF k
  <2> QED  BY <2>2 DEF k
<1>8. O(a) \in Nat /\ O(b) \in Nat
  BY <1>2
<1> QED  BY <1>1, <1>7, <1>8 DEF O

(* The data of the packets so far is no longer than the data of them all.  *)
LEMMA DataGrows ==
  ASSUME NEW f \in Seq(Packet), NEW js, NEW h, IsDataRun(f, js, h), NEW a \in 0..Len(f)
  PROVE  Len(h[a]) \in Nat /\ Len(h[Len(f)]) \in Nat /\ Len(h[a]) <= Len(h[Len(f)])
<1> DEFINE n == Len(f)
           m == n - a
           T == { k \in 0..m : Len(h[a]) <= Len(h[a + k]) }
<1>1. n \in Nat /\ m \in Nat /\ a \in Nat /\ a + m = n
  OBVIOUS
<1>2. \A k \in 0..n : h[k] \in Payload /\ Len(h[k]) \in Nat
  <2>1. \A k \in 0..n : h[k] \in Payload
    BY DEF IsDataRun
  <2> QED  BY <2>1, PayloadConcat
<1>3. \A k \in 1..n : Len(h[k - 1]) <= Len(h[k])
  <2> TAKE k \in 1..n
  <2>1. k - 1 \in 0..n /\ k \in 0..n /\ f[k] \in Packet
    BY <1>1
  <2>2. f[k].payload \in Payload /\ Len(f[k].payload) \in Nat
    BY <2>1, WireLenIs DEF Payload
  <2>3. h[k] = h[k-1] \/ h[k] = h[k-1] \o f[k].payload
    BY DEF IsDataRun
  <2>4. h[k - 1] \in Payload /\ Len(h[k - 1]) \in Nat
    BY <1>2, <2>1
  <2>5. Len(h[k-1] \o f[k].payload) = Len(h[k-1]) + Len(f[k].payload)
    BY <2>2, <2>4, PayloadConcat
  <2>6. CASE h[k] = h[k-1]
    BY <2>4, <2>6
  <2>7. CASE h[k] = h[k-1] \o f[k].payload
    <3> DEFINE x == Len(h[k-1])
               y == Len(h[k])
               z == Len(f[k].payload)
    <3>1. y = x + z
      BY <2>5, <2>7
    <3>2. x \in Nat /\ z \in Nat
      BY <2>2, <2>4
    <3> HIDE DEF x, y, z
    <3>3. x <= y
      BY <3>1, <3>2
    <3> QED  BY <3>3 DEF x, y
  <2> QED  BY <2>3, <2>6, <2>7
<1>4. 0 \in T
  BY <1>1, <1>2
<1>5. ASSUME NEW k \in 1..m, k - 1 \in T PROVE k \in T
  <2>1. a + k \in 1..n /\ (a + k) - 1 = a + (k - 1) /\ k \in 0..m /\ a + k \in 0..n
        /\ a + (k - 1) \in 0..n
    BY <1>1
  <2>2. Len(h[(a + k) - 1]) <= Len(h[a + k])
    BY <1>3, <2>1
  <2>3. Len(h[a]) <= Len(h[a + (k - 1)])
    BY <1>5
  <2>4. Len(h[a]) \in Nat /\ Len(h[a + (k - 1)]) \in Nat /\ Len(h[a + k]) \in Nat
    BY <1>1, <1>2, <2>1
  <2> QED  BY <2>1, <2>2, <2>3, <2>4
<1>6. 0..m \subseteq T
  <2> HIDE DEF T, m
  <2> QED  BY <1>1, <1>4, <1>5, InductionUpTo
<1>7. Len(h[a]) <= Len(h[n])
  <2>1. m \in 0..m
    BY <1>1
  <2> HIDE DEF m
  <2>2. m \in T
    BY <1>6, <2>1
  <2> QED  BY <1>1, <2>2
<1> QED  BY <1>1, <1>2, <1>7

(* The group of a selector with nothing but data in it stands in one piece *)
(* behind it.                                                              *)
LEMMA GroupStands ==
  ASSUME NEW f \in Seq(Packet), f # <<>>, f[Len(f)].tag = "end",
         NEW i \in 1..Len(f), f[i].tag = "select", GroupData(f, i) # {},
         \A j \in Group(f, i) : f[j].tag = "data"
  PROVE  \E b \in (i + 1)..(Len(f) - 1) :
           /\ GroupData(f, i) = (i + 1)..b
           /\ Min(GroupData(f, i)) = i + 1 /\ Max(GroupData(f, i)) = b
           /\ f[b + 1].tag \in Closing
<1> DEFINE n == Len(f)
           G == GroupData(f, i)
           S == { j \in 1..n : j > i /\ f[j].tag \in Closing }
<1>1. n \in 1..n /\ n \in Nat /\ i \in Nat
  OBVIOUS
<1>2. n \in S
  <2>1. i # n
    OBVIOUS
  <2> QED  BY <1>1, <2>1 DEF Closing
<1>3. S \in SUBSET Nat
  OBVIOUS
<1> HIDE DEF S
<1>4. PICK c \in S : \A j \in S : c <= j
  BY <1>2, <1>3, LeastNumber
<1>5. c \in 1..n /\ c > i /\ f[c].tag \in Closing
      /\ \A j \in (i + 1)..(c - 1) : f[j].tag \notin Closing
  <2>1. c \in 1..n /\ c > i /\ f[c].tag \in Closing
    BY DEF S
  <2>2. ASSUME NEW j \in (i + 1)..(c - 1) PROVE f[j].tag \notin Closing
    <3>1. j \in 1..n /\ j > i /\ ~(c <= j)
      BY <1>1, <2>1
    <3> QED  BY <1>4, <3>1 DEF S
  <2> QED  BY <2>1, <2>2
<1>6. ASSUME NEW j \in Nat PROVE j \in Group(f, i) <=> j \in (i + 1)..(c - 1)
  <2>1. j \in Group(f, i) <=>
          j \in 1..n /\ j > i /\ \A m \in (i + 1)..j : f[m].tag \notin Closing
    BY GroupIs
  <2>2. ASSUME j \in Group(f, i) PROVE j \in (i + 1)..(c - 1)
    <3>1. ~(c \in (i + 1)..j)
      BY <1>5, <2>1, <2>2
    <3> QED  BY <1>1, <1>5, <2>1, <2>2, <3>1
  <2>3. ASSUME j \in (i + 1)..(c - 1) PROVE j \in Group(f, i)
    <3>1. j \in 1..n /\ j > i /\ \A m \in (i + 1)..j : m \in (i + 1)..(c - 1)
      BY <1>1, <1>5, <2>3
    <3> QED  BY <1>5, <2>1, <3>1
  <2> QED  BY <2>2, <2>3
<1>7. Group(f, i) = (i + 1)..(c - 1)
  <2>1. Group(f, i) \subseteq Nat /\ (i + 1)..(c - 1) \subseteq Nat
    BY <1>1, <1>5, GroupIs
  <2> QED  BY <1>6, <2>1
<1>8. G = (i + 1)..(c - 1)
  BY <1>7 DEF GroupData
<1> DEFINE b == c - 1
<1>9. b \in (i + 1)..(n - 1) /\ b \in Nat
  <2>1. (i + 1)..(c - 1) # {}
    BY <1>8
  <2>2. c - 1 >= i + 1
    BY <1>1, <1>5, <2>1
  <2> QED  BY <1>1, <1>5, <2>2
<1>11. f[b + 1].tag \in Closing
  <2>1. b + 1 = c
    BY <1>5
  <2> QED  BY <1>5, <2>1
<1> HIDE DEF b
<1>10. Min((i + 1)..b) = i + 1 /\ Max((i + 1)..b) = b
  <2> DEFINE K == (i + 1)..b
  <2>1. i + 1 \in K /\ b \in K /\ \A y \in K : i + 1 <= y /\ b >= y
    BY <1>1, <1>9
  <2>2. \A x \in K : (\A y \in K : x <= y) => x = i + 1
    BY <1>1, <2>1
  <2>3. \A x \in K : (\A y \in K : x >= y) => x = b
    BY <1>1, <1>9, <2>1
  <2> HIDE DEF K
  <2>4. Min(K) = i + 1 /\ Max(K) = b
    BY <2>1, <2>2, <2>3 DEF Min, Max
  <2> QED  BY <2>4 DEF K
<1> QED  BY <1>8, <1>9, <1>10, <1>11 DEF b

-----------------------------------------------------------------------------
(* What the plan over a frame says, with a guard byte or without.          *)
Planning(seen, t, n, full) ==
  Sized(CountedInFrame(seen, t, n), seen[t].data_bytes - HeaderBytes, StorageBytes(n, full))

PlanObjections(seen, t, n, full) ==
  << Objection("duplicate_selector" \in EditFlags(Measured(seen), seen[t]),
               "parse", "duplicate_target_selector"),
     Objection("source_ambiguous" \in EditFlags(Measured(seen), seen[t]),
               "parse", "ambiguous_selector"),
     Objection("unknown_extension" \in seen[t].flags,
               "parse", "unknown_target_extension"),
     Objection(EditStrays(Measured(seen), seen, seen[t].selector,
                          CountedInFrame(seen, t, n).pool),
               "parse", "ambiguous_selector"),
     Objection(full /\ (CountedInFrame(seen, t, n).references # 1
                          \/ seen[t].source # seen[t].selector),
               "parse", "not_exclusive"),
     Unaligned(Planning(seen, t, n, full)) >>

PlanVerdict(seen, t, n, full) ==
  IF t \notin DOMAIN seen
  THEN Refused(Asked(n), "range", "target_record_out_of_range")
  ELSE IF "header_only" \in seen[t].flags \/ PoolOf(seen, t) = NoIndex
  THEN Refused(Asked(n), "range", "target_not_owned")
  ELSE IF ~TargetBoundaryValid(seen[t])
  THEN Refused(CountedInFrame(seen, t, n), "parse", "ambiguous_group_boundary")
  ELSE Judged(Planning(seen, t, n, full), PlanObjections(seen, t, n, full))

EditFor(f, seen, t, verdict) ==
  IF verdict.status # "ok" THEN [NoEdit EXCEPT !.replacement = verdict.plan]
  ELSE [frame_bytes |-> NewFrameBytes(f, verdict.plan), target |-> t, data |-> seen[t].data,
        selector |-> seen[t].selector, replacement |-> verdict.plan]

LEMMA EditPlanIs ==
  ASSUME NEW f, NEW t, NEW n, NEW full
  PROVE  LET seen    == Parsed(f).stream.seen
             verdict == PlanVerdict(seen, t, n, full)
         IN  EditPlan(f, t, n, full) =
               IF full /\ n = 0 THEN [status |-> "range", edit |-> NoEdit]
               ELSE IF ExactStatus(f, Parsed(f)) # "ok"
               THEN [status |-> "frame", edit |-> NoEdit]
               ELSE [status |-> verdict.status, edit |-> EditFor(f, seen, t, verdict)]
  BY DEF EditPlan, PlanVerdict, PlanObjections, Planning, CountedInFrame, Asked, EditFor

(* The figures of a plan: how much there is, and what must grow.           *)
Figures(plan, e) == plan.existing = e /\ plan.growth \in Nat

LEMMA SizedFigures ==
  ASSUME NEW c \in PlanRecord, NEW e \in Nat, NEW w \in Nat
  PROVE  Sized(c, e, w) \in PlanRecord /\ Figures(Sized(c, e, w), e)
<1> DEFINE q == IF w <= e THEN e ELSE Rounded(w)
           fits == w <= e
           more == w > e
           d == q - e
           z == Sized(c, e, w)
<1>1. z = [c EXCEPT !.existing = e, !.required = q, !.growth = d,
                    !.fits = fits, !.growth_required = more]
  BY DEF Sized
<1>2. q \in Nat /\ d \in Nat /\ fits \in BOOLEAN /\ more \in BOOLEAN
  BY RoundedIsEnough
<1> HIDE DEF z, q, d, fits, more
<1>3. d \in Int
  BY <1>2
<1>4. z \in PlanRecord
  BY <1>1, <1>2, <1>3 DEF PlanRecord
<1>5. z.existing = e /\ z.growth = d
  BY <1>1 DEF PlanRecord
<1> QED  BY <1>2, <1>4, <1>5 DEF Figures, z

LEMMA JudgedFigures ==
  ASSUME NEW plan \in PlanRecord, NEW e, Figures(plan, e), NEW objections,
         DOMAIN objections \in SUBSET Nat,
         \A i \in DOMAIN objections : objections[i].status \in {"parse", "range"}
  PROVE  LET verdict == Judged(plan, objections)
         IN  /\ Figures(verdict.plan, e) /\ verdict.status \in {"ok", "parse", "range"}
             /\ verdict.status = "ok" => \A i \in DOMAIN objections : ~objections[i].holds
<1> DEFINE verdict == Judged(plan, objections)
<1>1. FirstDecides(plan, objections)
  BY FirstObjection
<1>2. CASE \A i \in DOMAIN objections : ~objections[i].holds
  <2> DEFINE g == plan.existing % BlockBytes = 0
             z == [plan EXCEPT !.growth_eligible = g]
  <2>1. verdict = Granted(z)
    BY <1>1, <1>2 DEF FirstDecides
  <2>2. z.existing = plan.existing /\ z.growth = plan.growth
    BY DEF PlanRecord
  <2> HIDE DEF z, verdict
  <2>3. verdict.plan = z /\ verdict.status = "ok"
    BY <2>1 DEF Granted
  <2>4. Figures(verdict.plan, e)
    BY <2>2, <2>3 DEF Figures
  <2> QED  BY <1>2, <2>3, <2>4 DEF verdict
<1>3. CASE \E i \in DOMAIN objections : objections[i].holds
  <2>1. PICK i \in DOMAIN objections :
          verdict = Refused(plan, objections[i].status, objections[i].reason)
    BY <1>1, <1>3 DEF FirstDecides
  <2> DEFINE reason == objections[i].reason
             status == objections[i].status
             z == [plan EXCEPT !.reason = reason]
  <2>2. verdict = [status |-> status, plan |-> z]
    BY <2>1 DEF Refused
  <2>3. status \in {"parse", "range"}
    OBVIOUS
  <2>4. z.existing = plan.existing /\ z.growth = plan.growth
    BY DEF PlanRecord
  <2> HIDE DEF z, verdict, status
  <2>5. verdict.plan = z /\ verdict.status = status
    BY <2>2
  <2>6. Figures(verdict.plan, e)
    BY <2>4, <2>5 DEF Figures
  <2> QED  BY <2>3, <2>5, <2>6 DEF verdict
<1> QED  BY <1>2, <1>3

LEMMA CountedType ==
  ASSUME NEW seen \in Seq(Observation), NEW t \in DOMAIN seen, NEW n \in Nat
  PROVE  CountedInFrame(seen, t, n) \in PlanRecord /\ Figures(CountedInFrame(seen, t, n), 0)
         /\ Asked(n) \in PlanRecord /\ Figures(Asked(n), 0)
<1> DEFINE p == PoolOf(seen, t)
           refs == EditReferring(Measured(seen), seen, p)
           a == Cardinality(refs)
           b == 1 + Cardinality(refs \ {t})
           asked == Asked(n)
           c == CountedInFrame(seen, t, n)
<1>1. p \in Nat
  BY PoolIsRank
<1>2. a \in Nat /\ b \in Nat
  <2>1. IsFiniteSet(refs) /\ IsFiniteSet(refs \ {t})
    <3>1. refs \in SUBSET DOMAIN seen /\ refs \ {t} \in SUBSET DOMAIN seen
      BY DEF EditReferring
    <3> QED  BY <3>1, OwnersFinite, FS_Subset
  <2> HIDE DEF refs
  <2>2. Cardinality(refs) \in Nat /\ Cardinality(refs \ {t}) \in Nat
    BY <2>1, FS_CardinalityType
  <2> QED  BY <2>2
<1>3. asked \in PlanRecord /\ asked.existing = 0 /\ asked.growth = 0
  <2>1. NoPlan \in PlanRecord /\ NoPlan.existing = 0 /\ NoPlan.growth = 0
    BY DEF NoPlan, NoIndex, PlanRecord, Reasons
  <2>2. asked = [NoPlan EXCEPT !.requested = n]
    BY DEF Asked
  <2> HIDE DEF asked
  <2> QED  BY <2>1, <2>2 DEF PlanRecord
<1>4. c = [asked EXCEPT !.pool = p, !.references = a, !.affected = b]
  BY DEF CountedInFrame, Counted
<1> HIDE DEF asked, p, a, b, c
<1>5. c \in PlanRecord /\ c.existing = 0 /\ c.growth = 0
  BY <1>1, <1>2, <1>3, <1>4 DEF PlanRecord
<1> QED  BY <1>3, <1>5 DEF Figures, c, asked

LEMMA PlanObjectionsAre ==
  ASSUME NEW seen, NEW t, NEW n, NEW full
  PROVE  LET objections == PlanObjections(seen, t, n, full)
         IN  /\ DOMAIN objections = 1..6
             /\ objections[3].holds <=> "unknown_extension" \in seen[t].flags
             /\ \A i \in 1..6 : objections[i].status \in {"parse", "range"}
<1> DEFINE x == "unknown_extension" \in seen[t].flags
           o1 == Objection("duplicate_selector" \in EditFlags(Measured(seen), seen[t]),
                           "parse", "duplicate_target_selector")
           o2 == Objection("source_ambiguous" \in EditFlags(Measured(seen), seen[t]),
                           "parse", "ambiguous_selector")
           o3 == Objection(x, "parse", "unknown_target_extension")
           o4 == Objection(EditStrays(Measured(seen), seen, seen[t].selector,
                                      CountedInFrame(seen, t, n).pool),
                           "parse", "ambiguous_selector")
           o5 == Objection(full /\ (CountedInFrame(seen, t, n).references # 1
                                      \/ seen[t].source # seen[t].selector),
                           "parse", "not_exclusive")
           o6 == Unaligned(Planning(seen, t, n, full))
           objections == PlanObjections(seen, t, n, full)
           OK(o) == o.status \in {"parse", "range"}
<1>1. OK(o1) /\ OK(o2) /\ OK(o3) /\ OK(o4) /\ OK(o5)
  BY DEF Objection
<1>2. OK(o6)
  <2> DEFINE d == Planning(seen, t, n, full).existing % BlockBytes # 0
                    /\ Planning(seen, t, n, full).growth_required
  <2>1. o6 = Objection(d, "range", "existing_allocation_unaligned")
    BY DEF Unaligned
  <2> HIDE DEF d, o6
  <2> QED  BY <2>1 DEF Objection
<1>3. o3.holds <=> x
  BY DEF Objection
<1>4. objections = <<o1, o2, o3, o4, o5, o6>>
  BY DEF PlanObjections
<1> HIDE DEF o1, o2, o3, o4, o5, o6, objections, x
<1>5. /\ DOMAIN objections = 1..6
      /\ objections[1] = o1 /\ objections[2] = o2 /\ objections[3] = o3
      /\ objections[4] = o4 /\ objections[5] = o5 /\ objections[6] = o6
  BY <1>4
<1>6. \A i \in 1..6 : OK(objections[i])
  <2> HIDE DEF OK
  <2> QED  BY <1>1, <1>2, <1>5
<1> QED  BY <1>3, <1>5, <1>6 DEF objections, x

LEMMA PlanVerdictFigures ==
  ASSUME NEW seen \in Seq(Observation), NEW t, NEW n \in Nat, NEW full \in BOOLEAN
  PROVE  LET verdict == PlanVerdict(seen, t, n, full)
         IN  /\ verdict.plan.existing \in Nat /\ verdict.plan.growth \in Nat
             /\ verdict.status \in {"ok", "parse", "range"}
             /\ verdict.status = "ok" =>
                  /\ t \in DOMAIN seen /\ OwnsPool(seen[t])
                  /\ verdict.plan.existing = seen[t].data_bytes - HeaderBytes
                  /\ "unknown_extension" \notin seen[t].flags
<1> DEFINE verdict == PlanVerdict(seen, t, n, full)
<1>0. ASSUME NEW p \in PlanRecord, Figures(p, 0), NEW s \in {"parse", "range"}, NEW r,
             verdict = Refused(p, s, r)
      PROVE  /\ verdict.plan.existing \in Nat /\ verdict.plan.growth \in Nat
             /\ verdict.status \in {"ok", "parse", "range"} /\ verdict.status # "ok"
  <2> DEFINE z == [p EXCEPT !.reason = r]
  <2>1. z.existing = p.existing /\ z.growth = p.growth
    BY DEF PlanRecord
  <2> HIDE DEF z, verdict
  <2>2. verdict.plan = z /\ verdict.status = s
    BY <1>0 DEF Refused, z
  <2> QED  BY <1>0, <2>1, <2>2 DEF Figures
<1>1. Asked(n) \in PlanRecord /\ Figures(Asked(n), 0)
  <2> DEFINE asked == Asked(n)
  <2>1. NoPlan \in PlanRecord /\ NoPlan.existing = 0 /\ NoPlan.growth = 0
    BY DEF NoPlan, NoIndex, PlanRecord, Reasons
  <2>2. asked = [NoPlan EXCEPT !.requested = n]
    BY DEF Asked
  <2> HIDE DEF asked
  <2>3. asked \in PlanRecord /\ asked.existing = 0 /\ asked.growth = 0
    BY <2>1, <2>2 DEF PlanRecord
  <2> QED  BY <2>3 DEF Figures, asked
<1>2. CASE t \notin DOMAIN seen
  <2>1. verdict = Refused(Asked(n), "range", "target_record_out_of_range")
    BY <1>2 DEF PlanVerdict
  <2> QED  BY <1>0, <1>1, <2>1
<1>3. CASE t \in DOMAIN seen /\ ("header_only" \in seen[t].flags \/ PoolOf(seen, t) = NoIndex)
  <2>1. verdict = Refused(Asked(n), "range", "target_not_owned")
    BY <1>3 DEF PlanVerdict
  <2> QED  BY <1>0, <1>1, <2>1
<1>4. CASE /\ t \in DOMAIN seen /\ ~("header_only" \in seen[t].flags \/ PoolOf(seen, t) = NoIndex)
           /\ ~TargetBoundaryValid(seen[t])
  <2>1. verdict = Refused(CountedInFrame(seen, t, n), "parse", "ambiguous_group_boundary")
    BY <1>4 DEF PlanVerdict
  <2>2. CountedInFrame(seen, t, n) \in PlanRecord /\ Figures(CountedInFrame(seen, t, n), 0)
    BY <1>4, CountedType
  <2> QED  BY <1>0, <2>1, <2>2
<1>5. CASE /\ t \in DOMAIN seen /\ ~("header_only" \in seen[t].flags \/ PoolOf(seen, t) = NoIndex)
           /\ TargetBoundaryValid(seen[t])
  <2> DEFINE o == seen[t]
             e == o.data_bytes - HeaderBytes
             plan == Planning(seen, t, n, full)
             objections == PlanObjections(seen, t, n, full)
  <2>1. verdict = Judged(plan, objections)
    BY <1>5 DEF PlanVerdict
  <2>2. e \in Nat /\ OwnsPool(o)
    <3>1. o \in Observation
      BY <1>5
    <3>2. o.data_bytes > HeaderBytes
      BY <1>5 DEF TargetBoundaryValid
    <3>3. o.data_bytes \in Nat
      <4> HIDE DEF o
      <4> QED  BY <3>1 DEF Observation
    <3> QED  BY <3>2, <3>3, TopologyConstants DEF OwnsPool
  <2>3. StorageBytes(n, full) \in Nat
    BY DEF StorageBytes
  <2>4. plan \in PlanRecord /\ Figures(plan, e)
    <3>1. CountedInFrame(seen, t, n) \in PlanRecord
      BY <1>5, CountedType
    <3> DEFINE c == CountedInFrame(seen, t, n)
               w == StorageBytes(n, full)
    <3> HIDE DEF c, w, e
    <3>2. Sized(c, e, w) \in PlanRecord /\ Figures(Sized(c, e, w), e)
      BY <2>2, <2>3, <3>1, SizedFigures DEF c, w
    <3> QED  BY <3>2 DEF Planning, c, w, e
  <2>5. /\ DOMAIN objections = 1..6
        /\ objections[3].holds <=> "unknown_extension" \in o.flags
        /\ \A i \in 1..6 : objections[i].status \in {"parse", "range"}
    BY PlanObjectionsAre
  <2> HIDE DEF plan, objections, verdict, e
  <2>6. DOMAIN objections \in SUBSET Nat
    BY <2>5
  <2>7. /\ Figures(verdict.plan, e) /\ verdict.status \in {"ok", "parse", "range"}
        /\ verdict.status = "ok" => \A i \in DOMAIN objections : ~objections[i].holds
    BY <2>1, <2>4, <2>5, <2>6, JudgedFigures
  <2>8. verdict.status = "ok" => "unknown_extension" \notin o.flags
    <3>1. 3 \in 1..6
      OBVIOUS
    <3> QED  BY <2>5, <2>7, <3>1
  <2> QED  BY <1>5, <2>2, <2>7, <2>8 DEF Figures, e, verdict
<1> QED  BY <1>2, <1>3, <1>4, <1>5

(* A frame an edit can be planned for is whole.                            *)
LEMMA ExactFrame ==
  ASSUME NEW f \in Seq(Packet), ExactStatus(f, Parsed(f)) = "ok"
  PROVE  /\ Parsed(f).status = "done" /\ Parsed(f).count = Len(f) /\ Len(f) >= 1
         /\ f[Len(f)].tag = "end" /\ WellFormed(f, Len(f))
         /\ Parsed(f).stream.seen = RecordsOf(f, Recorded(f, Len(f)))
         /\ Parsed(f).stream.seen \in Seq(Observation)
<1> DEFINE q == Parsed(f)
<1>1. RecordsStatus(q) = "ok" /\ q.count = Len(f)
  BY DEF ExactStatus
<1>2. q.status = "done"
  BY <1>1 DEF RecordsStatus
<1>3. /\ q.count \in 1..Len(f) /\ f[q.count].tag = "end" /\ WellFormed(f, q.count)
      /\ q.stream.seen = RecordsOf(f, Recorded(f, q.count))
  BY <1>2, DoneGroups
<1>4. q \in Parsers
  <2>1. ParsedUpTo(f) \in [0..Len(f) -> Parsers] /\ Len(f) \in 0..Len(f)
    BY ParsedRun
  <2> QED  BY <2>1 DEF Parsed
<1>5. q.stream.seen \in Seq(Observation)
  BY <1>4, ParserFacts, StreamFields
<1> QED  BY <1>1, <1>2, <1>3, <1>5

(* The edit planned for a frame is about one piece of it, the data packets *)
(* from behind selector i up to packet b.                                  *)
TargetAt(f, edit, i, b) ==
  /\ i \in 1..Len(f) /\ b \in (i + 1)..(Len(f) - 1)
  /\ f[i].tag = "select" /\ f[b + 1].tag \in Closing
  /\ GroupData(f, i) = (i + 1)..b
  /\ edit.data.offset = OffsetOf(f, i + 1) /\ SpanEnd(edit.data) = OffsetOf(f, b + 1)
  /\ HeaderBytes + edit.replacement.existing = Len(DataRunOf(f, i)[Len(f)])
  /\ edit.replacement.existing > 0

LEMMA PlannedTarget ==
  ASSUME NEW f \in Seq(Packet), NEW t, NEW n \in Nat, NEW full \in BOOLEAN,
         EditPlan(f, t, n, full).status = "ok",
         NEW edit, edit = EditPlan(f, t, n, full).edit
  PROVE  /\ f # <<>> /\ f[Len(f)].tag = "end" /\ WellFormed(f, Len(f))
         /\ edit.frame_bytes = NewFrameBytes(f, edit.replacement)
         /\ edit.replacement.growth \in Nat /\ edit.replacement.existing \in Nat
         /\ \E i : \E b : TargetAt(f, edit, i, b)
<1> DEFINE seen    == Parsed(f).stream.seen
           verdict == PlanVerdict(seen, t, n, full)
           m == Len(f)
<1>1. /\ ExactStatus(f, Parsed(f)) = "ok" /\ verdict.status = "ok"
      /\ edit = EditFor(f, seen, t, verdict)
  <2> DEFINE e == EditFor(f, seen, t, verdict)
             s == verdict.status
  <2>1. EditPlan(f, t, n, full) =
          IF full /\ n = 0 THEN [status |-> "range", edit |-> NoEdit]
          ELSE IF ExactStatus(f, Parsed(f)) # "ok"
          THEN [status |-> "frame", edit |-> NoEdit]
          ELSE [status |-> s, edit |-> e]
    BY EditPlanIs
  <2> HIDE DEF e, s
  <2>2. ExactStatus(f, Parsed(f)) = "ok" /\ s = "ok" /\ edit = e
    BY <2>1
  <2> QED  BY <2>2 DEF e, s
<1>2. /\ m >= 1 /\ f[m].tag = "end" /\ WellFormed(f, m)
      /\ seen = RecordsOf(f, Recorded(f, m)) /\ seen \in Seq(Observation)
  BY <1>1, ExactFrame
<1>3. /\ verdict.plan.existing \in Nat /\ verdict.plan.growth \in Nat
      /\ t \in DOMAIN seen /\ OwnsPool(seen[t])
      /\ verdict.plan.existing = seen[t].data_bytes - HeaderBytes
      /\ "unknown_extension" \notin seen[t].flags
  BY <1>1, <1>2, PlanVerdictFigures
<1>4. /\ edit.frame_bytes = NewFrameBytes(f, edit.replacement)
      /\ edit.replacement = verdict.plan /\ edit.data = seen[t].data
  <2> HIDE DEF verdict, seen
  <2> QED  BY <1>1 DEF EditFor
<1> DEFINE S == Recorded(f, m)
           i == Nth(S, t)
           G == GroupData(f, i)
           r == seen[t]
<1>5. t \in 1..Cardinality(S) /\ r = GroupAt(f, i)
  <2> HIDE DEF S, seen
  <2>1. seen = [k \in 1..Cardinality(S) |-> GroupAt(f, Nth(S, k))]
    BY <1>2 DEF RecordsOf, S
  <2> QED  BY <1>3, <2>1
<1>6. i \in S /\ S \in SUBSET Nat
  <2>1. S \in SUBSET (1..m) /\ IsFiniteSet(1..m) /\ S \in SUBSET Nat
    BY FS_Interval DEF Recorded
  <2>2. IsFiniteSet(S)
    BY <2>1, FS_Subset
  <2> HIDE DEF S
  <2> QED  BY <1>5, <2>1, <2>2, NthRank
<1> HIDE DEF i
<1>7. i \in 1..m /\ f[i].tag = "select" /\ G # {}
  BY <1>6 DEF Recorded
<1>8. /\ r.flags = { z \in {"header_only"} : r.data_bytes = HeaderBytes }
                     \cup { z \in {"unknown_extension"} :
                              \E j \in Group(f, i) : f[j].tag # "data" }
      /\ r.data.offset = OffsetOf(f, Min(G))
      /\ r.data.length = WireBytes(SubSeq(f, Min(G), Max(G)))
      /\ r.data_bytes = Len(DataOf(f, G))
  <2> HIDE DEF r, seen
  <2> QED  BY <1>5 DEF GroupAt
<1>9. \A j \in Group(f, i) : f[j].tag = "data"
  <2> HIDE DEF r, seen
  <2> QED  BY <1>3, <1>8 DEF r
<1>10. PICK b \in (i + 1)..(m - 1) : /\ G = (i + 1)..b
                                     /\ Min(G) = i + 1 /\ Max(G) = b
                                     /\ f[b + 1].tag \in Closing
  BY <1>2, <1>7, <1>9, GroupStands
<1>11. i + 1 \in 1..m /\ b \in (i + 1)..m /\ b \in Nat
  BY <1>7, <1>10
<1>12. r.data.offset = OffsetOf(f, i + 1) /\ SpanEnd(r.data) = OffsetOf(f, b + 1)
  <2>1. WireBytes(SubSeq(f, i + 1, b)) = OffsetOf(f, b + 1) - OffsetOf(f, i + 1)
    BY <1>11, StretchLength
  <2>2. OffsetOf(f, i + 1) \in Nat /\ OffsetOf(f, b + 1) \in Nat
    BY <1>11, OffsetNext
  <2> HIDE DEF r, G
  <2> QED  BY <1>8, <1>10, <2>1, <2>2 DEF SpanEnd
<1>13. r.data_bytes = Len(DataRunOf(f, i)[m]) /\ r.data_bytes \in Nat
  <2>1. DataOf(f, G) = DataRunOf(f, i)[m] /\ DataRunOf(f, i)[m] \in Payload
    BY DataRunOfIs
  <2> HIDE DEF r
  <2> QED  BY <1>8, <2>1, PayloadConcat
<1>14. HeaderBytes + verdict.plan.existing = Len(DataRunOf(f, i)[m]) /\ verdict.plan.existing > 0
  <2> DEFINE x == verdict.plan.existing
             y == r.data_bytes
  <2>1. x = y - HeaderBytes
    BY <1>3
  <2>2. y = Len(DataRunOf(f, i)[m]) /\ y \in Nat
    BY <1>13
  <2>3. HeaderBytes \in Nat /\ y \in Nat /\ y > HeaderBytes
    BY <1>3, <2>2, TopologyConstants DEF OwnsPool
  <2> HIDE DEF x, y
  <2>4. HeaderBytes + x = y /\ x > 0
    BY <2>1, <2>3
  <2> QED  BY <2>2, <2>4 DEF x
<1>15. TargetAt(f, edit, i, b)
  <2> HIDE DEF verdict, r, G, seen
  <2> QED  BY <1>4, <1>7, <1>10, <1>12, <1>14 DEF TargetAt, G, r
<1> QED  BY <1>2, <1>3, <1>4, <1>15

(* The plan's fields have their types, granted or not.                     *)
EditTyped(e) ==
  /\ e.frame_bytes \in Nat /\ e.target \in Nat /\ e.selector \in 0..255
  /\ e.replacement.existing \in Nat /\ e.replacement.growth \in Nat

PlanStatuses == {"ok", "range", "frame", "parse"}

LEMMA EditTypes ==
  ASSUME NEW f \in Seq(Packet), NEW t \in Nat, NEW n \in Nat, NEW full \in BOOLEAN
  PROVE  /\ EditPlan(f, t, n, full).status \in PlanStatuses
         /\ EditTyped(EditPlan(f, t, n, full).edit)
<1> DEFINE seen    == Parsed(f).stream.seen
           verdict == PlanVerdict(seen, t, n, full)
           e == EditFor(f, seen, t, verdict)
           s == verdict.status
<1>1. EditPlan(f, t, n, full) =
        IF full /\ n = 0 THEN [status |-> "range", edit |-> NoEdit]
        ELSE IF ExactStatus(f, Parsed(f)) # "ok"
        THEN [status |-> "frame", edit |-> NoEdit]
        ELSE [status |-> s, edit |-> e]
  BY EditPlanIs
<1> DEFINE Typed(x) == /\ x.frame_bytes \in Nat /\ x.target \in Nat /\ x.selector \in 0..255
                       /\ x.replacement.existing \in Nat /\ x.replacement.growth \in Nat
<1>2. Typed(NoEdit)
  BY DEF NoEdit, NoPlan, NoIndex, NoSelector
<1>3. ASSUME ExactStatus(f, Parsed(f)) = "ok"
      PROVE  Typed(e) /\ s \in {"ok", "parse", "range"}
  <2>1. seen \in Seq(Observation)
    BY <1>3, ExactFrame
  <2> HIDE DEF seen
  <2>2. /\ verdict.plan.existing \in Nat /\ verdict.plan.growth \in Nat
        /\ s \in {"ok", "parse", "range"}
        /\ s = "ok" => t \in DOMAIN seen
    BY <2>1, PlanVerdictFigures
  <2> HIDE DEF verdict, s
  <2>3. CASE verdict.status # "ok"
    <3> DEFINE p == verdict.plan
    <3>1. e = [NoEdit EXCEPT !.replacement = p]
      BY <2>3 DEF EditFor
    <3> HIDE DEF p, e
    <3>2. /\ e.frame_bytes = 0 /\ e.target = NoIndex /\ e.selector = NoSelector
          /\ e.replacement = p
      BY <3>1 DEF NoEdit
    <3> QED  BY <2>2, <3>2 DEF NoIndex, NoSelector, p
  <2>4. CASE verdict.status = "ok"
    <3> DEFINE p == verdict.plan
               b == NewFrameBytes(f, p)
               o == seen[t]
    <3>1. e = [frame_bytes |-> b, target |-> t, data |-> o.data,
               selector |-> o.selector, replacement |-> p]
      BY <2>4 DEF EditFor
    <3>2. o \in Observation
      BY <2>1, <2>2, <2>4 DEF s
    <3>3. b \in Nat
      <4> DEFINE g == p.growth
                 q == g \div BlockBytes
                 w == BlockBytes + PacketsPerBlock * OverheadBytes
      <4>1. g \in Nat
        BY <2>2
      <4> HIDE DEF g
      <4>2. q \in Nat
        BY <4>1, SizesAssumption
      <4> HIDE DEF q
      <4>3. w \in Nat
        BY SizesAssumption, TopologyConstants
      <4> HIDE DEF w
      <4>4. q * w \in Nat
        BY <4>2, <4>3
      <4>5. FrameLen(f) \in Nat
        <5>1. WireBytesUpTo(f) \in [0..Len(f) -> Nat] /\ Len(f) \in 0..Len(f)
          BY WireRun
        <5>2. WireBytes(f) \in Nat
          BY <5>1 DEF WireBytes
        <5> QED  BY <5>2, TopologyConstants DEF FrameLen
      <4>6. FrameLen(f) + q * w \in Nat
        BY <4>4, <4>5
      <4> QED  BY <4>6 DEF NewFrameBytes, q, w, g
    <3> HIDE DEF b, p, o, e
    <3>4. o.selector \in 0..255
      BY <3>2 DEF Observation
    <3>5. e.frame_bytes = b /\ e.target = t /\ e.selector = o.selector /\ e.replacement = p
      BY <3>1
    <3> QED  BY <2>2, <3>3, <3>4, <3>5 DEF p
  <2> QED  BY <2>2, <2>3, <2>4
<1> DEFINE plan == EditPlan(f, t, n, full)
<1> HIDE DEF e, s, Typed, plan
<1>4. plan.status \in PlanStatuses /\ Typed(plan.edit)
  BY <1>1, <1>2, <1>3 DEF plan, PlanStatuses
<1> QED  BY <1>4 DEF Typed, EditTyped, plan

===============================================================================
