------------------------- MODULE Po33PoolEdit_proofs -------------------------
(***************************************************************************)
(* Replacing the samples of a pool, for every frame, every record, every   *)
(* run of samples and whatever the caller does between plan and rebuild:   *)
(* what the builder has written, what is left of the old frame and what is *)
(* still to grow always add up to the planned size.  So a rebuild that     *)
(* begins is never stopped by its own buffers or its own checks.           *)
(*                                                                         *)
(* The argument: a plan is granted for a pool that stands in one piece in  *)
(* its frame (Po33Sound_proofs), whose data, packet by packet, are counted *)
(* in logical; behind its last packet the growth is written, once, and its *)
(* packets are as long as the plan's arithmetic says.                      *)
(***************************************************************************)
EXTENDS Po33PoolEdit, Po33Sound_proofs

-----------------------------------------------------------------------------
(* Arithmetic of whole blocks and the packets they are cut into.           *)
LEMMA QuotientIs ==
  ASSUME NEW x \in Nat, NEW d \in Nat \ {0}, NEW q \in Nat, q * d <= x, x < q * d + d
  PROVE  x \div d = q /\ x % d = x - q * d
<1> DEFINE p == x \div d
           r == x % d
<1>1. p \in Nat /\ r \in 0..(d - 1) /\ x = p * d + r
  OBVIOUS
<1> HIDE DEF p, r
<1>2. p = q
  <2>1. ASSUME p < q PROVE FALSE
    <3> DEFINE y == q - p - 1
    <3>1. y \in Nat /\ q = p + 1 + y
      BY <1>1, <2>1
    <3> HIDE DEF y
    <3>2. q * d = p * d + d + y * d /\ y * d \in Nat
      BY <1>1, <3>1
    <3> DEFINE a == p * d
               b == y * d
               c == q * d
    <3>3. c = a + d + b /\ b \in Nat /\ c <= x /\ x = a + r /\ a \in Nat
      BY <1>1, <3>2
    <3> HIDE DEF a, b, c
    <3> QED  BY <1>1, <3>3
  <2>2. ASSUME q < p PROVE FALSE
    <3> DEFINE y == p - q - 1
    <3>1. y \in Nat /\ p = q + 1 + y
      BY <1>1, <2>2
    <3> HIDE DEF y
    <3>2. p * d = q * d + d + y * d /\ y * d \in Nat
      BY <1>1, <3>1
    <3> DEFINE a == p * d
               b == y * d
               c == q * d
    <3>3. a = c + d + b /\ b \in Nat /\ x < c + d /\ x = a + r /\ c \in Nat
      BY <1>1, <3>2
    <3> HIDE DEF a, b, c
    <3> QED  BY <1>1, <3>3
  <2> QED  BY <1>1, <2>1, <2>2
<1>3. r = x - q * d
  <2> DEFINE c == q * d
  <2>1. c \in Nat /\ x = c + r
    BY <1>1, <1>2
  <2> HIDE DEF c
  <2>2. r = x - c
    BY <1>1, <2>1
  <2> QED  BY <2>2 DEF c
<1> QED  BY <1>2, <1>3 DEF p, r

(* A block takes as many packets as the plan counts for it (po33.c spells  *)
(* out 17 in one place and divides in the other).                          *)
LEMMA ChunksAre ==
  /\ ChunksPerBlock = PacketsPerBlock
  /\ PacketsPerBlock \in Nat \ {0} /\ MaxPayload \in Nat \ {0} /\ BlockBytes \in Nat \ {0}
  /\ PacketsPerBlock * MaxPayload >= BlockBytes
  /\ (PacketsPerBlock - 1) * MaxPayload < BlockBytes
<1> DEFINE C == PacketsPerBlock
           d == MaxPayload
           B == BlockBytes
           x == B + d - 1
           y == C * d
<1>1. /\ C \in Nat /\ d \in Nat \ {0} /\ B \in Nat \ {0} /\ C * d >= B /\ (C - 1) * d < B
  BY SizesAssumption
<1>2. C # 0
  <2>1. CASE C = 0
    <3>1. 0 * d = 0
      BY <1>1
    <3> QED  BY <1>1, <2>1, <3>1
  <2> QED  BY <2>1
<1> HIDE DEF C, d, B
<1>3. y \in Nat /\ (C - 1) * d = y - d
  BY <1>1, <1>2
<1>4. y >= B /\ y - d < B
  BY <1>1, <1>3
<1> HIDE DEF y
<1>5. x \in Nat /\ y <= x /\ x < y + d
  BY <1>1, <1>3, <1>4
<1>6. x \div d = C
  BY <1>1, <1>5, QuotientIs DEF y
<1> QED  BY <1>1, <1>2, <1>6 DEF ChunksPerBlock, C, d, B

(* The k-th packet of growth, k = m blocks and j packets.                  *)
LEMMA ChunkIs ==
  ASSUME NEW m \in Nat, NEW j \in 0..(ChunksPerBlock - 1)
  PROVE  LET k == m * ChunksPerBlock + j
         IN  /\ k \in Nat /\ k % ChunksPerBlock = j /\ k \div ChunksPerBlock = m
             /\ ChunkLen(k) \in Nat
             /\ j # ChunksPerBlock - 1 => ChunkLen(k) = MaxPayload
             /\ ChunkLen(k) = IF j # ChunksPerBlock - 1 THEN MaxPayload
                              ELSE BlockBytes - j * MaxPayload
             /\ ChunkStart(k) \in Nat
<1> DEFINE C == ChunksPerBlock
           k == m * C + j
           d == MaxPayload
           B == BlockBytes
<1>1. C \in Nat \ {0} /\ d \in Nat \ {0} /\ B \in Nat \ {0} /\ C * d >= B /\ (C - 1) * d < B
  BY ChunksAre
<1> HIDE DEF C, d, B
<1> DEFINE y == m * C
<1>2. y \in Nat
  BY <1>1
<1> HIDE DEF y
<1>3. k = y + j /\ j \in Nat /\ j < C /\ k \in Nat /\ y <= k /\ k < y + C
  BY <1>1, <1>2 DEF y, C
<1> HIDE DEF k
<1>4. k \div C = m /\ k % C = k - m * C
  BY <1>1, <1>3, QuotientIs DEF y
<1>5. k % C = j
  BY <1>2, <1>3, <1>4 DEF y
<1>6. ChunkLen(k) = Smaller(d, B - j * d)
  BY <1>5 DEF ChunkLen, C, d, B
<1>7. ChunkStart(k) \in Nat
  <2>1. ChunkStart(k) = m * B + j * d
    BY <1>4, <1>5 DEF ChunkStart, C, d, B
  <2>2. m * B \in Nat /\ j * d \in Nat
    BY <1>1, <1>3
  <2> QED  BY <2>1, <2>2
<1> DEFINE z == j * d
           u == (C - 1) * d
<1>8. z \in Nat /\ u \in Nat /\ C * d = u + d
  BY <1>1, <1>3
<1>9. ASSUME j # C - 1 PROVE z + d <= u
  <2> DEFINE w == (C - 1) - (j + 1)
  <2>1. w \in Nat /\ C - 1 = j + 1 + w
    BY <1>1, <1>3, <1>9
  <2> HIDE DEF w
  <2>2. u = z + d + w * d /\ w * d \in Nat
    BY <1>1, <1>3, <2>1
  <2> DEFINE v == w * d
  <2>3. u = z + d + v /\ v \in Nat
    BY <2>2
  <2> HIDE DEF u, z, v
  <2> QED  BY <1>1, <1>8, <2>3
<1>10. j = C - 1 => z = u
  OBVIOUS
<1>11. u < B /\ u + d >= B
  BY <1>1, <1>8
<1> HIDE DEF z, u
<1>12. ChunkLen(k) = IF j # C - 1 THEN d ELSE B - z
  <2>1. CASE j # C - 1
    <3>1. ~(B - z < d)
      BY <1>1, <1>8, <1>9, <1>11, <2>1
    <3> QED  BY <1>1, <1>6, <1>8, <1>9, <1>11, <2>1 DEF Smaller, z
  <2>2. CASE j = C - 1
    <3>1. B - z <= d
      BY <1>1, <1>8, <1>10, <1>11, <2>2
    <3> QED  BY <1>1, <1>6, <1>8, <2>2, <3>1 DEF Smaller, z
  <2> QED  BY <2>1, <2>2
<1>13. ChunkLen(k) \in Nat
  BY <1>1, <1>8, <1>10, <1>11, <1>12
<1> QED  BY <1>3, <1>4, <1>5, <1>7, <1>12, <1>13 DEF k, C, d, B, z

(* The growth on the wire is what the plan counts for it.                  *)
BlockWire == BlockBytes + PacketsPerBlock * OverheadBytes

LEMMA GrowthWire ==
  ASSUME NEW blocks \in Nat, NEW g \in Seq(Packet), Len(g) = blocks * ChunksPerBlock,
         \A k \in 1..Len(g) : Len(g[k].payload) = ChunkLen(k - 1)
  PROVE  WireBytes(g) = blocks * BlockWire /\ blocks * BlockWire \in Nat
<1> DEFINE C == ChunksPerBlock
           d == MaxPayload
           B == BlockBytes
           W == BlockWire
           n == Len(g)
           F == WireBytesUpTo(g)
           At(k, m, j) == k = m * C + j /\ F[k] = m * W + j * (d + 5)
           T == { k \in 0..n : \E m \in Nat : \E j \in 0..(C - 1) : At(k, m, j) }
<1>1. C \in Nat \ {0} /\ d \in Nat \ {0} /\ B \in Nat \ {0} /\ C = PacketsPerBlock
  BY ChunksAre
<1>2. W = B + C * 5 /\ W \in Nat
  BY <1>1, TopologyConstants DEF BlockWire
<1>3. n \in Nat /\ F \in [0..n -> Nat] /\ F[0] = 0
      /\ \A k \in 1..n : F[k] = F[k-1] + WireLen(g[k])
  BY WireRun
<1>4. \A k \in 1..n : WireLen(g[k]) = 5 + ChunkLen(k - 1)
  BY TopologyConstants DEF WireLen
<1> HIDE DEF F, W, n, B, d
<1>5. 0 \in T
  <2>1. At(0, 0, 0)
    BY <1>1, <1>2, <1>3
  <2>2. 0 \in Nat /\ 0 \in 0..(C - 1) /\ 0 \in 0..n
    BY <1>1, <1>3
  <2> HIDE DEF At
  <2> QED  BY <2>1, <2>2
<1>6. ASSUME NEW k \in 1..n, k - 1 \in T PROVE k \in T
  <2>1. PICK m \in Nat : \E j \in 0..(C - 1) : At(k - 1, m, j)
    BY <1>6
  <2>2. PICK j \in 0..(C - 1) : At(k - 1, m, j)
    BY <2>1
  <2>3. F[k] = F[k-1] + 5 + ChunkLen(k - 1) /\ k \in 0..n /\ F[k-1] \in Nat
    <3>1. k \in 0..n /\ k - 1 \in 0..n
      BY <1>3
    <3>2. F[k] = F[k-1] + (5 + ChunkLen(k - 1))
      BY <1>3, <1>4
    <3>3. ChunkLen(k - 1) \in Nat
      BY <2>2, ChunkIs
    <3> QED  BY <1>3, <3>1, <3>2, <3>3
  <2>4. ChunkLen(k - 1) = IF j # C - 1 THEN d ELSE B - j * d
    BY <2>2, ChunkIs DEF d, B
  <2> DEFINE y == m * C
             v == m * W
             z == j * d
  <2>5. y \in Nat /\ v \in Nat /\ z \in Nat /\ j \in Nat /\ j <= C - 1
        /\ j * (d + 5) = z + 5 * j
    BY <1>1, <1>2
  <2>6. k - 1 = y + j /\ F[k-1] = v + (z + 5 * j)
    BY <2>2, <2>5
  <2>7. CASE j # C - 1
    <3>1. j + 1 \in 0..(C - 1)
      BY <1>1, <2>5, <2>7
    <3>2. (j + 1) * (d + 5) = z + d + 5 * j + 5
      BY <1>1, <2>5
    <3>3. k = y + (j + 1) /\ F[k] = v + (z + d + 5 * j + 5)
      <4> HIDE DEF y, v, z
      <4> QED  BY <1>1, <2>3, <2>4, <2>5, <2>6, <2>7
    <3>4. At(k, m, j + 1)
      BY <3>2, <3>3
    <3> HIDE DEF At
    <3> QED  BY <2>3, <3>1, <3>4
  <2>8. CASE j = C - 1
    <3>1. (m + 1) * C = y + C /\ (m + 1) * W = v + W
      BY <1>1, <1>2
    <3>2. 0 \in 0..(C - 1) /\ m + 1 \in Nat
      BY <1>1
    <3>3. k = y + C /\ F[k] = v + W
      <4>1. k = y + C
        <5> HIDE DEF y
        <5> QED  BY <1>1, <2>5, <2>6, <2>8
      <4>2. F[k] = v + (z + 5 * j) + 5 + (B - z)
        BY <2>3, <2>4, <2>6, <2>8
      <4>3. W = B + 5 * j + 5
        BY <1>1, <1>2, <2>8
      <4> HIDE DEF v, z
      <4> QED  BY <1>1, <2>5, <4>1, <4>2, <4>3
    <3>4. At(k, m + 1, 0)
      <4>1. 0 * (d + 5) = 0
        BY <1>1
      <4>2. k = (m + 1) * C + 0 /\ F[k] = (m + 1) * W + 0
        BY <1>1, <1>2, <2>5, <3>1, <3>3
      <4> QED  BY <4>1, <4>2
    <3> HIDE DEF At
    <3> QED  BY <2>3, <3>2, <3>4
  <2> QED  BY <2>7, <2>8
<1>7. 0..n \subseteq T
  <2> HIDE DEF T
  <2> QED  BY <1>3, <1>5, <1>6, InductionUpTo
<1>8. \E m \in Nat : \E j \in 0..(C - 1) : At(n, m, j)
  <2> HIDE DEF At
  <2> QED  BY <1>3, <1>7
<1>9. PICK m \in Nat : \E j \in 0..(C - 1) : At(n, m, j)
  BY <1>8
<1>10. PICK j \in 0..(C - 1) : At(n, m, j)
  BY <1>9
<1>11. m = blocks /\ j = 0
  <2>1. n % C = j /\ n \div C = m
    BY <1>10, ChunkIs
  <2>2. 0 \in 0..(C - 1)
    BY <1>1
  <2>3. n = blocks * C + 0
    <3>1. blocks * C \in Nat /\ n = blocks * C
      BY <1>1 DEF n
    <3> QED  BY <3>1
  <2>4. n % C = 0 /\ n \div C = blocks
    BY <2>2, <2>3, ChunkIs
  <2> QED  BY <2>1, <2>4
<1>12. F[n] = blocks * W /\ blocks * W \in Nat
  <2>1. F[n] = blocks * W + 0 * (d + 5)
    BY <1>10, <1>11
  <2>2. 0 * (d + 5) = 0 /\ blocks * W \in Nat
    BY <1>1, <1>2
  <2> QED  BY <2>1, <2>2
<1> QED  BY <1>12 DEF WireBytes, F, n, W

(* The wire bytes of one packet.                                           *)
LEMMA OneWire ==
  ASSUME NEW p, Len(p.payload) \in Nat
  PROVE  WireBytes(<<p>>) = WireLen(p) /\ WireLen(p) \in Nat
<1> DEFINE s == <<p>>
           w == WireLen(p)
           Def(g) == g = [k \in 0..Len(s) |-> IF k = 0 THEN 0 ELSE g[k-1] + WireLen(s[k])]
           F == WireBytesUpTo(s)
           G == [k \in 0..1 |-> IF k = 0 THEN 0 ELSE w]
<1>1. F = CHOOSE g : Def(g)
  BY DEF WireBytesUpTo
<1>2. Len(s) = 1 /\ s[1] = p /\ w \in Nat
  BY TopologyConstants DEF WireLen
<1> HIDE DEF s
<1>3. Def(G)
  <2>1. \A k \in 0..1 : G[k] = IF k = 0 THEN 0 ELSE G[k-1] + WireLen(s[k])
    BY <1>2
  <2> QED  BY <1>2, <2>1
<1>4. Def(F)
  <2> HIDE DEF Def, F
  <2> QED  BY <1>1, <1>3
<1>5. F[0] = 0 /\ F[1] = F[0] + WireLen(s[1])
  <2> HIDE DEF F
  <2> QED  BY <1>2, <1>4
<1>6. F[1] = w
  <2> HIDE DEF F, w
  <2>1. F[1] = 0 + w
    BY <1>2, <1>5 DEF w
  <2> QED  BY <1>2, <2>1
<1> QED  BY <1>2, <1>6 DEF WireBytes, s

-----------------------------------------------------------------------------
(* The growth of an edit on the wire.                                      *)
GrowthBytes(edit) == (edit.replacement.growth \div BlockBytes) * BlockWire

LEMMA SampleRange ==
  ASSUME NEW Bytes, NEW run \in Seq(Bytes), NEW i \in 1..Len(run)
  PROVE  run[i] \in Bytes
  OBVIOUS

LEMMA GrowthIs ==
  ASSUME samples \in Seq(0..255), NEW e \in Nat, NEW growth \in Nat
  PROVE  /\ WireBytes(GrowthPackets(e, growth)) = (growth \div BlockBytes) * BlockWire
         /\ (growth \div BlockBytes) * BlockWire \in Nat
         /\ GrowthPackets(e, growth) \in Seq(Packet)
         /\ Len(GrowthPackets(e, growth)) = (growth \div BlockBytes) * ChunksPerBlock
         /\ \A k \in 1..Len(GrowthPackets(e, growth)) : GrowthPackets(e, growth)[k].tag = "data"
<1> DEFINE blocks == growth \div BlockBytes
           n == blocks * ChunksPerBlock
           g == GrowthPackets(e, growth)
           D(k) == [j \in 1..ChunkLen(k - 1) |-> SampleAt(e + ChunkStart(k - 1) + j)]
<1>0. samples \in Seq(0..255)
  OBVIOUS
<1>1. blocks \in Nat /\ ChunksPerBlock \in Nat \ {0}
  BY ChunksAre
<1>2. n \in Nat
  BY <1>1
<1>3. ASSUME NEW k \in 1..n PROVE ChunkLen(k - 1) \in Nat /\ ChunkStart(k - 1) \in Nat
  <2> DEFINE C == ChunksPerBlock
             x == k - 1
             m == x \div C
             j == x % C
  <2>1. x \in Nat /\ C \in Nat \ {0}
    BY <1>1, <1>2
  <2> HIDE DEF x, C
  <2>2. m \in Nat /\ j \in 0..(C - 1) /\ x = m * C + j
    BY <2>1
  <2> HIDE DEF m, j
  <2>3. ChunkLen(x) \in Nat /\ ChunkStart(x) \in Nat
    BY <2>2, ChunkIs DEF C
  <2> QED  BY <2>3 DEF x
<1>4. ASSUME NEW k \in 1..n PROVE D(k) \in Seq(0..255) /\ Len(D(k)) = ChunkLen(k - 1)
  <2> DEFINE c == ChunkLen(k - 1)
             o == ChunkStart(k - 1)
  <2>1. c \in Nat /\ o \in Nat
    BY <1>3
  <2> HIDE DEF c, o
  <2>2. \A j \in 1..c : SampleAt(e + o + j) \in 0..255
    <3> TAKE j \in 1..c
    <3> DEFINE i == e + o + j
    <3>1. i \in Nat /\ i >= 1
      BY <2>1
    <3> HIDE DEF i
    <3>2. SampleAt(i) \in 0..255
      <4>1. CASE i <= Len(samples)
        <5>1. i \in 1..Len(samples)
          BY <3>1, <4>1
        <5>2. samples[i] \in 0..255
          BY <1>0, <5>1, SampleRange
        <5> QED  BY <4>1, <5>2 DEF SampleAt
      <4>2. CASE ~(i <= Len(samples))
        BY <4>2 DEF SampleAt
      <4> QED  BY <4>1, <4>2
    <3> QED  BY <3>2 DEF i
  <2> DEFINE v == [j \in 1..c |-> SampleAt(e + o + j)]
  <2>3. v \in [1..c -> 0..255]
    BY <2>2
  <2> HIDE DEF v
  <2>4. v \in Seq(0..255) /\ Len(v) = c
    BY <2>1, <2>3
  <2> QED  BY <2>4 DEF v, c, o
<1>5. g = [k \in 1..n |-> [tag |-> "data", payload |-> D(k)]]
  BY DEF GrowthPackets
<1> HIDE DEF D, g, n, blocks
<1>6. \A k \in 1..n : g[k] \in Packet /\ Len(g[k].payload) = ChunkLen(k - 1)
  BY <1>4, <1>5 DEF Packet, Tags
<1>7. g \in Seq(Packet) /\ Len(g) = n
  <2>1. g \in [1..n -> Packet]
    BY <1>5, <1>6
  <2> QED  BY <1>2, <2>1
<1>8. WireBytes(g) = blocks * BlockWire /\ blocks * BlockWire \in Nat
  BY <1>1, <1>6, <1>7, GrowthWire DEF n
<1>9. \A k \in 1..Len(g) : g[k].tag = "data"
  BY <1>5, <1>7
<1> QED  BY <1>7, <1>8, <1>9 DEF g, n, blocks

-----------------------------------------------------------------------------
(* The builder of a rebuild and what has become of the old frame when its  *)
(* packets before k have been handed over.                                 *)
IsRebuild(r) ==
  r = [packets |-> r.packets, length |-> r.length, logical |-> r.logical,
       finished |-> r.finished, status |-> r.status]

Left(f, k) ==
  FrameLen(f) - OffsetOf(f, IF k = 1 THEN 2 ELSE k) + (IF k > Len(f) THEN OverheadBytes ELSE 0)

ToWrite(edit, r) == IF r.finished THEN 0 ELSE GrowthBytes(edit)

Built(f, edit, k, r, i, b) ==
  /\ TargetAt(f, edit, i, b)
  /\ r.logical = Len(DataRunOf(f, i)[k - 1])
  /\ r.finished <=> k > b

Progress(f, edit, k, r) ==
  /\ IsRebuild(r) /\ r.status = "ok" /\ r.length \in Nat /\ r.finished \in BOOLEAN
  /\ r.length + Left(f, k) + ToWrite(edit, r) = edit.frame_bytes
  /\ \E i : \E b : Built(f, edit, k, r, i, b)

LEMMA RebuildFields ==
  ASSUME NEW packets, NEW length, NEW logical, NEW finished, NEW verdict,
         NEW r, r = [packets |-> packets, length |-> length, logical |-> logical,
                     finished |-> finished, status |-> verdict]
  PROVE  /\ IsRebuild(r)
         /\ r.packets = packets /\ r.length = length /\ r.logical = logical
         /\ r.finished = finished /\ r.status = verdict
  BY DEF IsRebuild

LEMMA AppendedIs ==
  ASSUME room \in Int, NEW r, IsRebuild(r), r.length \in Nat,
         NEW packets, WireBytes(packets) \in Nat, r.length + WireBytes(packets) <= room,
         NEW a, a = Appended(r, packets)
  PROVE  /\ IsRebuild(a) /\ a.length = r.length + WireBytes(packets)
         /\ a.logical = r.logical /\ a.finished = r.finished /\ a.status = r.status
         /\ a.packets = r.packets \o packets
<1> DEFINE l == r.length + WireBytes(packets)
           s == r.packets \o packets
           c == [packets |-> s, length |-> l, logical |-> r.logical,
                 finished |-> r.finished, status |-> r.status]
<1>1. a = [r EXCEPT !.packets = s, !.length = l]
  <2>1. ~(r.length + WireBytes(packets) > room)
    OBVIOUS
  <2> QED  BY <2>1, Zenon DEF Appended
<1> HIDE DEF s, l
<1>2. a = c
  <2>1. r = [packets |-> r.packets, length |-> r.length, logical |-> r.logical,
             finished |-> r.finished, status |-> r.status]
    BY DEF IsRebuild
  <2> QED  BY <1>1, <2>1
<1>3. /\ IsRebuild(a) /\ a.length = l /\ a.packets = s
      /\ a.logical = r.logical /\ a.finished = r.finished /\ a.status = r.status
  BY <1>2, RebuildFields
<1> QED  BY <1>3 DEF l, s

LEMMA FrameEnds ==
  ASSUME NEW f \in Seq(Packet), f # <<>>, f[Len(f)].tag = "end", WellFormed(f, Len(f)),
         Len(f) >= 2
  PROVE  /\ OffsetOf(f, 2) = PreambleBytes + OverheadBytes
         /\ FrameLen(f) = OffsetOf(f, Len(f) + 1)
         /\ OffsetOf(f, Len(f) + 1) = OffsetOf(f, Len(f)) + OverheadBytes
         /\ FrameLen(f) \in Nat
<1> DEFINE n == Len(f)
<1>1. n \in Nat /\ 1 \in 1..n /\ n \in 1..n /\ 0 \in 0..n /\ n \in 0..n
  OBVIOUS
<1>2. WireLen(f[1]) = OverheadBytes /\ WireLen(f[n]) = OverheadBytes
  <2>1. f[1].payload = <<>> /\ f[n].payload = <<>>
    <3>1. f[1].tag = "begin"
      BY <1>1 DEF WellFormed
    <3> QED  BY <1>1, <3>1 DEF WellFormed
  <2>2. Len(f[1].payload) = 0 /\ Len(f[n].payload) = 0
    BY <2>1
  <2> QED  BY <2>2, TopologyConstants DEF WireLen
<1>3. OffsetOf(f, 1) = PreambleBytes
  <2>1. OffsetOf(f, 0 + 1) = PreambleBytes + WireBytesUpTo(f)[0] /\ WireBytesUpTo(f)[0] = 0
    BY <1>1, OffsetIs, WireRun
  <2> QED  BY <2>1, TopologyConstants
<1>4. OffsetOf(f, 1 + 1) = OffsetOf(f, 1) + WireLen(f[1])
  BY <1>1, OffsetNext
<1>5. OffsetOf(f, n + 1) = OffsetOf(f, n) + WireLen(f[n])
  BY <1>1, OffsetNext
<1>6. OffsetOf(f, n + 1) = FrameLen(f) /\ OffsetOf(f, n + 1) \in Nat
  <2>1. OffsetOf(f, n + 1) = PreambleBytes + WireBytesUpTo(f)[n] /\ OffsetOf(f, n + 1) \in Nat
    BY <1>1, OffsetIs
  <2> QED  BY <2>1 DEF FrameLen, WireBytes
<1> QED  BY <1>2, <1>3, <1>4, <1>5, <1>6

(* What a packet of the old frame is to the rebuild.                       *)
LEMMA WhereItIs ==
  ASSUME NEW f \in Seq(Packet), f # <<>>, f[Len(f)].tag = "end", WellFormed(f, Len(f)),
         NEW edit, NEW i, NEW b, TargetAt(f, edit, i, b), NEW k \in 1..Len(f)
  PROVE  /\ i \in Nat /\ b \in Nat /\ i >= 1 /\ i < b /\ b < Len(f) /\ Len(f) >= 3
         /\ OffsetOf(f, k) \in Nat /\ WireLen(f[k]) \in Nat
         /\ OffsetOf(f, k + 1) = OffsetOf(f, k) + WireLen(f[k])
         /\ OffsetOf(f, k + 1) <= FrameLen(f)
         /\ SpanEnd(edit.data) \in Nat
         /\ (edit.data.offset <= OffsetOf(f, k) /\ OffsetOf(f, k) < SpanEnd(edit.data))
              <=> k \in (i + 1)..b
         /\ k \in (i + 1)..b =>
              /\ f[k].tag = "data"
              /\ OffsetOf(f, k) + WireLen(f[k]) <= SpanEnd(edit.data)
              /\ (OffsetOf(f, k) + WireLen(f[k]) = SpanEnd(edit.data)) <=> k = b
         /\ f[k].tag \in {"begin", "end"} <=> k \in {1, Len(f)}
<1> DEFINE n == Len(f)
           O(j) == OffsetOf(f, j)
<1>1. /\ n \in Nat /\ i \in 1..n /\ b \in (i + 1)..(n - 1) /\ GroupData(f, i) = (i + 1)..b
      /\ edit.data.offset = O(i + 1) /\ SpanEnd(edit.data) = O(b + 1)
  BY DEF TargetAt
<1>2. i \in Nat /\ b \in Nat /\ i >= 1 /\ i < b /\ b < n /\ n >= 3
  BY <1>1
<1>3. /\ i + 1 \in 1..(n + 1) /\ b + 1 \in 1..(n + 1) /\ k \in 1..(n + 1)
      /\ k + 1 \in 1..(n + 1) /\ n + 1 \in 1..(n + 1) /\ k \in Nat
  BY <1>2
<1>4. O(k) \in Nat /\ WireLen(f[k]) \in Nat /\ O(k + 1) = O(k) + WireLen(f[k])
  <2>1. f[k] \in Packet
    OBVIOUS
  <2> QED  BY <2>1, OffsetNext, WireLenIs
<1>5. O(k + 1) <= FrameLen(f) /\ O(b + 1) \in Nat
  <2>1. O(k + 1) <= O(n + 1) /\ O(b + 1) \in Nat
    <3>1. k + 1 <= n + 1
      BY <1>1
    <3> QED  BY <1>3, <3>1, OffsetsGrow
  <2>2. FrameLen(f) = O(n + 1)
    BY <1>2, FrameEnds
  <2> QED  BY <2>1, <2>2
<1>6. /\ O(i + 1) \in Nat
      /\ i + 1 <= k => O(i + 1) <= O(k)
      /\ k < i + 1 => O(k) < O(i + 1)
      /\ k < b + 1 => O(k) < O(b + 1)
      /\ b + 1 <= k => O(b + 1) <= O(k)
      /\ k + 1 <= b + 1 => O(k + 1) <= O(b + 1)
      /\ k + 1 < b + 1 => O(k + 1) < O(b + 1)
  BY <1>3, OffsetsGrow
<1> HIDE DEF O
<1>7. (edit.data.offset <= O(k) /\ O(k) < SpanEnd(edit.data)) <=> k \in (i + 1)..b
  BY <1>1, <1>2, <1>3, <1>4, <1>5, <1>6, SMTT(30)
<1>8. ASSUME k \in (i + 1)..b
      PROVE  /\ f[k].tag = "data"
             /\ O(k) + WireLen(f[k]) <= SpanEnd(edit.data)
             /\ (O(k) + WireLen(f[k]) = SpanEnd(edit.data)) <=> k = b
  <2>1. f[k].tag = "data"
    BY <1>1, <1>8 DEF GroupData
  <2>2. O(k) + WireLen(f[k]) = O(k + 1)
    BY <1>4
  <2>3. O(k + 1) <= O(b + 1) /\ (O(k + 1) = O(b + 1) <=> k = b)
    BY <1>2, <1>3, <1>4, <1>5, <1>6, <1>8, SMTT(30)
  <2> QED  BY <1>1, <2>1, <2>2, <2>3
<1>9. f[k].tag \in {"begin", "end"} <=> k \in {1, n}
  <2>1. k \in 1..n /\ n \in 1..n /\ 1 \in 1..n
    BY <1>2
  <2>2. f[k].tag = "begin" <=> k = 1
    BY <2>1 DEF WellFormed
  <2>3. f[k].tag = "end" => k = n
    BY <2>1 DEF WellFormed
  <2> QED  BY <2>2, <2>3
<1> QED  BY <1>1, <1>2, <1>4, <1>5, <1>7, <1>8, <1>9 DEF O

(* A changed payload is as long as it was.                                 *)
LEMMA ReplacedLength ==
  ASSUME NEW payload, payload \in Seq(0..255), NEW logical
  PROVE  Len(Replaced(logical, payload)) = Len(payload)
<1> DEFINE m == Len(payload)
           B(j) == DataByte(logical + j, payload[j])
           v == [j \in 1..m |-> B(j)]
           S == { B(j) : j \in 1..m }
<1>1. m \in Nat /\ DOMAIN payload = 1..m
  OBVIOUS
<1>2. Replaced(logical, payload) = v
  BY <1>1, Zenon DEF Replaced
<1> HIDE DEF B, m
<1>3. v \in [1..m -> S]
  OBVIOUS
<1> HIDE DEF v, S
<1>4. v \in Seq(S) /\ Len(v) = m
  BY <1>1, <1>3
<1> QED  BY <1>2, <1>4 DEF m

(* Where the caller and the rebuild are when a packet is handed over: the  *)
(* plan made again is the one the caller holds.                            *)
Building(f) ==
  /\ expected = plan
  /\ samples \in Seq(0..255)
  /\ plan.replacement.growth \in Nat /\ plan.replacement.existing \in Nat
  /\ plan.frame_bytes \in Nat /\ room \in Int /\ room >= plan.frame_bytes
  /\ f \in Seq(Packet) /\ f # <<>> /\ f[Len(f)].tag = "end" /\ WellFormed(f, Len(f))

LEMMA GrowthIsBytes ==
  ASSUME samples \in Seq(0..255), plan.replacement.growth \in Nat,
         plan.replacement.existing \in Nat
  PROVE  /\ WireBytes(GrowthPackets(plan.replacement.existing, plan.replacement.growth))
              = GrowthBytes(plan)
         /\ GrowthBytes(plan) \in Nat
<1> DEFINE e == plan.replacement.existing
           g == plan.replacement.growth
<1>1. e \in Nat /\ g \in Nat
  OBVIOUS
<1> HIDE DEF e, g
<1>2. /\ WireBytes(GrowthPackets(e, g)) = (g \div BlockBytes) * BlockWire
      /\ (g \div BlockBytes) * BlockWire \in Nat
  BY <1>1, GrowthIs
<1> QED  BY <1>2, Zenon DEF GrowthBytes, e, g

(* What is left shrinks by what a packet takes, but for BEGIN and END.     *)
LEMMA LeftShrinks ==
  ASSUME NEW f \in Seq(Packet), f # <<>>, f[Len(f)].tag = "end", WellFormed(f, Len(f)),
         Len(f) >= 3, NEW k \in 1..Len(f)
  PROVE  /\ Left(f, k) \in Nat
         /\ k \in {1, Len(f)} => Left(f, k + 1) = Left(f, k)
         /\ k \notin {1, Len(f)} => /\ Left(f, k + 1) = Left(f, k) - WireLen(f[k])
                                    /\ Left(f, k + 1) >= 0
<1> DEFINE n == Len(f)
           O(j) == OffsetOf(f, j)
           w == WireLen(f[k])
<1>1. n \in Nat /\ k \in Nat /\ n >= 3 /\ k >= 1 /\ k <= n
  OBVIOUS
<1>2. FrameLen(f) = O(n + 1) /\ O(n + 1) = O(n) + OverheadBytes /\ O(n + 1) \in Nat
  BY <1>1, FrameEnds
<1>3. /\ O(2) \in Nat /\ O(k) \in Nat /\ O(k + 1) \in Nat /\ O(n) \in Nat /\ O(k + 1) <= O(n + 1)
      /\ O(k) <= O(n + 1) /\ O(2) <= O(n + 1)
  <2>1. /\ 2 \in 1..(n + 1) /\ k \in 1..(n + 1) /\ k + 1 \in 1..(n + 1) /\ n \in 1..(n + 1)
        /\ n + 1 \in 1..(n + 1) /\ k + 1 <= n + 1 /\ k <= n + 1 /\ 2 <= n + 1
    BY <1>1
  <2> QED  BY <2>1, OffsetsGrow
<1>4. O(k + 1) = O(k) + w /\ w \in Nat
  <2>1. f[k] \in Packet
    OBVIOUS
  <2> QED  BY <2>1, OffsetNext, WireLenIs
<1>5. Left(f, k) = FrameLen(f) - (IF k = 1 THEN O(2) ELSE O(k))
  <2>1. ~(k > n)
    BY <1>1
  <2> DEFINE j == IF k = 1 THEN 2 ELSE k
  <2>2. O(j) = IF k = 1 THEN O(2) ELSE O(k)
    BY DEF j
  <2>3. FrameLen(f) - O(j) + 0 = FrameLen(f) - O(j)
    <3>1. O(j) \in Nat /\ FrameLen(f) \in Nat
      BY <1>2, <1>3, <2>2
    <3> HIDE DEF O, j
    <3> QED  BY <3>1
  <2>4. Left(f, k) = FrameLen(f) - O(j) + 0
    BY <2>1 DEF Left
  <2> QED  BY <2>2, <2>3, <2>4
<1>6. Left(f, k + 1) = FrameLen(f) - O(k + 1) + (IF k = n THEN OverheadBytes ELSE 0)
  <2>1. k + 1 # 1 /\ (k + 1 > n <=> k = n)
    BY <1>1
  <2> QED  BY <2>1 DEF Left
<1>7. OverheadBytes = 5
  BY TopologyConstants
<1>8. 1 + 1 = 2
  OBVIOUS
<1> DEFINE x == O(k)
           y == O(k + 1)
           z == O(n + 1)
           left == Left(f, k)
           more == Left(f, k + 1)
<1>9. CASE k = 1
  <2>1. left = z - y /\ more = (z - y) + 0 /\ k # n
    BY <1>1, <1>2, <1>5, <1>6, <1>8, <1>9
  <2>2. y \in Nat /\ z \in Nat /\ y <= z
    BY <1>2, <1>3
  <2> HIDE DEF y, z, left, more
  <2>3. left \in Nat /\ more = left
    BY <2>1, <2>2
  <2> QED  BY <1>9, <2>3 DEF left, more
<1>10. CASE k = n
  <2>1. left = z - x /\ more = (z - z) + 5 /\ k # 1 /\ z = x + 5
    BY <1>1, <1>2, <1>5, <1>6, <1>7, <1>10
  <2>2. x \in Nat /\ z \in Nat
    BY <1>2, <1>3
  <2> HIDE DEF x, z, left, more
  <2>3. left \in Nat /\ more = left
    BY <2>1, <2>2
  <2> QED  BY <1>10, <2>3 DEF left, more
<1>11. CASE k # 1 /\ k # n
  <2>1. left = z - x /\ more = (z - y) + 0 /\ y = x + w
    BY <1>2, <1>4, <1>5, <1>6, <1>11
  <2>2. x \in Nat /\ y \in Nat /\ z \in Nat /\ y <= z /\ w \in Nat
    BY <1>2, <1>3, <1>4
  <2> HIDE DEF x, y, z, left, more, w
  <2>3. left \in Nat /\ more = left - w /\ more >= 0
    BY <2>1, <2>2
  <2> QED  BY <1>11, <2>3 DEF left, more, w
<1> QED  BY <1>9, <1>10, <1>11

(* Sums of what is written, what is left and what is still to grow.        *)
LEMMA SumsHold ==
  ASSUME NEW length \in Nat, NEW left \in Nat, NEW growth \in Nat, NEW bytes \in Nat,
         NEW rest, rest = left - bytes, rest >= 0, NEW size \in Nat,
         length + left + growth = size, NEW space \in Int, space >= size
  PROVE  /\ length + bytes <= space /\ length + bytes \in Nat
         /\ (length + bytes) + rest + growth = size
         /\ (length + bytes) + growth <= space /\ (length + bytes) + growth \in Nat
         /\ ((length + bytes) + growth) + rest + 0 = size
  OBVIOUS

LEMMA RebuildGoesOn ==
  ASSUME NEW f, Building(f), NEW k \in 1..Len(f), NEW r, Progress(f, plan, k, r),
         NEW t, t = RebuildStep(r, OffsetOf(f, k), f[k])
  PROVE  Progress(f, plan, k + 1, t)
<1> DEFINE n == Len(f)
           p == f[k]
           o == OffsetOf(f, k)
           w == WireLen(p)
           G == GrowthBytes(plan)
           T == TargetDataBytes
<1>0. expected = plan
  BY DEF Building
<1>1. /\ f \in Seq(Packet) /\ f # <<>> /\ f[n].tag = "end" /\ WellFormed(f, n)
      /\ plan.frame_bytes \in Nat /\ room \in Int /\ room >= plan.frame_bytes
      /\ samples \in Seq(0..255) /\ plan.replacement.growth \in Nat
      /\ plan.replacement.existing \in Nat
  BY DEF Building
<1>2. /\ IsRebuild(r) /\ r.status = "ok" /\ r.length \in Nat /\ r.finished \in BOOLEAN
      /\ r.length + Left(f, k) + ToWrite(plan, r) = plan.frame_bytes
  BY DEF Progress
<1>3. PICK i : \E b : Built(f, plan, k, r, i, b)
  BY DEF Progress
<1>4. PICK b : Built(f, plan, k, r, i, b)
  BY <1>3
<1> DEFINE h == DataRunOf(f, i)
<1>5. TargetAt(f, plan, i, b) /\ r.logical = Len(h[k - 1]) /\ (r.finished <=> k > b)
  BY <1>4 DEF Built
<1>6. /\ i \in Nat /\ b \in Nat /\ i >= 1 /\ i < b /\ b < n /\ n >= 3
      /\ o \in Nat /\ w \in Nat /\ SpanEnd(plan.data) \in Nat
      /\ InTarget(o) <=> k \in (i + 1)..b
      /\ k \in (i + 1)..b => /\ p.tag = "data"
                             /\ o + w <= SpanEnd(plan.data)
                             /\ (o + w = SpanEnd(plan.data)) <=> k = b
      /\ p.tag \in {"begin", "end"} <=> k \in {1, n}
  <2>1. InTarget(o) <=> plan.data.offset <= o /\ o < SpanEnd(plan.data)
    BY <1>0, Zenon DEF InTarget
  <2> QED  BY <1>1, <1>5, <2>1, WhereItIs
<1>7. /\ Left(f, k) \in Nat
      /\ k \in {1, n} => Left(f, k + 1) = Left(f, k)
      /\ k \notin {1, n} => Left(f, k + 1) = Left(f, k) - w /\ Left(f, k + 1) >= 0
  BY <1>1, <1>6, LeftShrinks
<1>8. G \in Nat /\ WireBytes(GrowthPackets(plan.replacement.existing, plan.replacement.growth)) = G
  BY <1>1, GrowthIsBytes
<1>9. GroupData(f, i) = (i + 1)..b /\ T = Len(h[n])
  BY <1>0, <1>5 DEF TargetAt, TargetDataBytes
<1>10. /\ IsDataRun(f, GroupData(f, i), h)
       /\ \A j \in 0..n : h[j] \in Payload /\ Len(h[j]) \in Nat
  <2>1. IsDataRun(f, GroupData(f, i), h) /\ \A j \in 0..n : h[j] \in Payload
    BY <1>1, DataRunOfIs
  <2> QED  BY <2>1, PayloadConcat
<1>11. k \in 1..n /\ k - 1 \in 0..n /\ k \in 0..n /\ n \in 0..n /\ n \in Nat /\ (k + 1) - 1 = k
       /\ k \in Nat
  BY <1>1
<1>12. /\ p \in Packet /\ p.payload \in Payload /\ Len(p.payload) \in Nat
       /\ p.payload \in Seq(0..255) /\ w = 5 + Len(p.payload)
  <2>1. p \in Packet
    BY <1>1
  <2> QED  BY <2>1, WireLenIs DEF Payload
<1>13. ToWrite(plan, r) = IF r.finished THEN 0 ELSE G
  BY DEF ToWrite
<1> DEFINE more == ToWrite(plan, r)
           rest == Left(f, k + 1)
<1> HIDE DEF n, p, o, w, G, T, h
(* There is room for the packet and what follows it.                       *)
<1>14. ASSUME k \notin {1, n}
       PROVE  /\ r.length + w <= room /\ r.length + w \in Nat
              /\ (r.length + w) + rest + more = plan.frame_bytes
              /\ (r.length + w) + more <= room
              /\ ((r.length + w) + more) + rest + 0 = plan.frame_bytes
  <2> DEFINE left   == Left(f, k)
             length == r.length
             size   == plan.frame_bytes
  <2>1. more \in Nat /\ left \in Nat /\ length \in Nat /\ w \in Nat /\ size \in Nat
        /\ room \in Int /\ room >= size
    BY <1>1, <1>2, <1>6, <1>7, <1>8, <1>13
  <2>2. rest = left - w /\ rest >= 0
    BY <1>7, <1>14
  <2>3. length + left + more = size
    BY <1>2
  <2> HIDE DEF more, rest, left, length, size
  <2>4. /\ length + w <= room /\ length + w \in Nat
        /\ (length + w) + rest + more = size
        /\ (length + w) + more <= room
        /\ ((length + w) + more) + rest + 0 = size
    BY <2>1, <2>2, <2>3, SumsHold
  <2> QED  BY <2>4, Zenon DEF length, size
<1> HIDE DEF more
(* Outside the target nothing is counted.                                  *)
<1>15. ASSUME k \notin (i + 1)..b PROVE Len(h[k]) = Len(h[k - 1]) /\ (k > b <=> k + 1 > b)
  <2>1. h[k] = h[k - 1]
    BY <1>9, <1>10, <1>11, <1>15 DEF IsDataRun, n
  <2> QED  BY <1>6, <1>11, <1>15, <2>1
<1>16. CASE k \in {1, n}
  <2>1. t = r
    BY <1>6, <1>16 DEF RebuildStep, p, o
  <2>2. k \notin (i + 1)..b
    BY <1>6, <1>11, <1>16
  <2>3. Built(f, plan, k + 1, t, i, b)
    BY <1>5, <1>11, <1>15, <2>1, <2>2 DEF Built, h
  <2>4. t.length + Left(f, k + 1) + ToWrite(plan, t) = plan.frame_bytes
    BY <1>2, <1>7, <1>16, <2>1
  <2> QED  BY <1>2, <2>1, <2>3, <2>4, Zenon DEF Progress
<1>17. CASE k \notin {1, n} /\ k \notin (i + 1)..b
  <2>1. p.tag \notin {"begin", "end"} /\ ~InTarget(o)
    BY <1>6, <1>17
  <2>2. t = Appended(r, <<p>>)
    BY <2>1, Zenon DEF RebuildStep, p, o
  <2>3. WireBytes(<<p>>) = w
    BY <1>12, OneWire DEF w
  <2>4. r.length + w <= room
    BY <1>17, <1>14
  <2>5. /\ IsRebuild(t) /\ t.length = r.length + w
        /\ t.logical = r.logical /\ t.finished = r.finished /\ t.status = r.status
    <3>1. WireBytes(<<p>>) \in Nat /\ r.length + WireBytes(<<p>>) <= room /\ room \in Int
      BY <1>1, <1>6, <2>3, <2>4
    <3> QED  BY <1>2, <2>2, <2>3, <3>1, AppendedIs
  <2>6. Built(f, plan, k + 1, t, i, b)
    BY <1>5, <1>11, <1>15, <1>17, <2>5 DEF Built, h
  <2>7. ToWrite(plan, t) = more
    BY <2>5 DEF ToWrite, more
  <2>8. t.length + Left(f, k + 1) + ToWrite(plan, t) = plan.frame_bytes /\ t.length \in Nat
    BY <1>17, <1>14, <2>5, <2>7
  <2> QED  BY <1>2, <2>5, <2>6, <2>8 DEF Progress
<1>18. CASE k \in (i + 1)..b
  <2>1. k \notin {1, n} /\ ~(k > b) /\ (k + 1 > b <=> k = b)
    BY <1>6, <1>11, <1>18
  <2> DEFINE m == Len(p.payload)
             L == r.logical + m
             c == Replaced(r.logical, p.payload)
             q == [p EXCEPT !.payload = c]
             u == [r EXCEPT !.logical = L]
             a == Appended(u, <<q>>)
             E == SpanEnd(plan.data)
  <2>2. Len(h[k]) = L /\ L <= T /\ L \in Nat
    <3>1. h[k] = h[k - 1] \o p.payload
      BY <1>9, <1>10, <1>11, <1>18 DEF IsDataRun, n, p
    <3>2. Len(h[k - 1] \o p.payload) = Len(h[k - 1]) + m
      BY <1>10, <1>11, <1>12, PayloadConcat
    <3>3. Len(h[k]) <= Len(h[n])
      BY <1>1, <1>10, <1>11, DataGrows DEF n
    <3>4. Len(h[k]) \in Nat
      BY <1>10, <1>11
    <3> HIDE DEF m
    <3>5. L = Len(h[k - 1]) + m
      BY <1>5
    <3> HIDE DEF L
    <3> QED  BY <1>9, <3>1, <3>2, <3>3, <3>4, <3>5
  <2>3. Len(c) = m
    BY <1>12, ReplacedLength
  <2>4. q.payload = c
    <3> HIDE DEF c
    <3> QED  BY <1>12 DEF Packet
  <2>5. WireBytes(<<q>>) = w
    <3>1. Len(q.payload) = m
      BY <2>3, <2>4
    <3>2. m \in Nat
      BY <1>12
    <3> HIDE DEF q, m
    <3>3. WireBytes(<<q>>) = WireLen(q)
      BY <3>1, <3>2, OneWire
    <3>4. WireLen(q) = 5 + m
      BY <3>1, TopologyConstants DEF WireLen
    <3> QED  BY <1>12, <3>3, <3>4 DEF m
  <2>6. IsRebuild(u) /\ u.length = r.length /\ u.logical = L /\ u.finished = r.finished
        /\ u.status = r.status
    <3> HIDE DEF L
    <3>1. u = [packets |-> r.packets, length |-> r.length, logical |-> L,
               finished |-> r.finished, status |-> r.status]
      <4>1. r = [packets |-> r.packets, length |-> r.length, logical |-> r.logical,
                 finished |-> r.finished, status |-> r.status]
        BY <1>2 DEF IsRebuild
      <4> QED  BY <4>1
    <3> HIDE DEF u
    <3> QED  BY <3>1, RebuildFields
  <2> HIDE DEF q, u, c, m
  <2>7. r.finished = FALSE
    BY <1>2, <1>5, <2>1
  <2>8. more = G
    BY <1>13, <2>7 DEF more
  <2>9. r.length + w <= room /\ (r.length + w) + G <= room
    BY <1>14, <2>1, <2>8
  <2>10. IsRebuild(a) /\ a.length = r.length + w /\ a.logical = L /\ a.finished = FALSE
        /\ a.status = "ok"
    <3>1. /\ WireBytes(<<q>>) \in Nat /\ u.length + WireBytes(<<q>>) <= room /\ room \in Int
          /\ u.length \in Nat
      BY <1>1, <1>2, <1>6, <2>5, <2>6, <2>9
    <3> HIDE DEF a
    <3>2. a = Appended(u, <<q>>)
      BY DEF a
    <3> QED  BY <1>2, <2>5, <2>6, <2>7, <3>1, <3>2, AppendedIs
  <2>11. t = Grown(a, o, p)
    <3>1. p.tag \notin {"begin", "end"} /\ InTarget(o) /\ p.tag = "data"
      BY <1>6, <1>18
    <3>2. ~(o + w > E) /\ ~(L > T)
      <4> HIDE DEF L, E
      <4>1. E \in Nat /\ o + w <= E /\ o + w \in Nat
        BY <1>6, <1>18 DEF E
      <4>2. L <= T /\ T \in Nat /\ L \in Nat
        BY <1>9, <1>10, <1>11, <2>2
      <4> QED  BY <4>1, <4>2
    <3>3. RebuildStep(r, o, p) = Grown(a, o, p)
      BY <1>0, <3>1, <3>2, Zenon DEF RebuildStep, a, u, q, c, m, L, T, E, w
    <3> QED  BY <3>3 DEF o, p
  <2> HIDE DEF a, L
  <2>12. CASE k # b
    <3>1. t = a
      <4>1. ~(o + w = SpanEnd(plan.data))
        BY <1>6, <1>18, <2>12
      <4> QED  BY <1>0, <2>11, <4>1, Zenon DEF Grown, w
    <3>2. Built(f, plan, k + 1, t, i, b)
      BY <1>5, <1>11, <2>1, <2>2, <2>10, <2>12, <3>1 DEF Built, h
    <3>3. ToWrite(plan, t) = G /\ t.length \in Nat
      BY <1>2, <1>6, <2>10, <3>1 DEF ToWrite, G
    <3>4. t.length + Left(f, k + 1) + ToWrite(plan, t) = plan.frame_bytes
      BY <1>14, <2>1, <2>10, <2>8, <3>1, <3>3
    <3> QED  BY <2>10, <3>1, <3>2, <3>3, <3>4 DEF Progress
  <2>13. CASE k = b
    <3> DEFINE v == GrowthPackets(plan.replacement.existing, plan.replacement.growth)
               x == Appended(a, v)
               y == [x EXCEPT !.finished = (x.status = "ok")]
    <3>1. t = y
      <4>1. o + w = SpanEnd(plan.data)
        BY <1>6, <1>18, <2>13
      <4> QED  BY <1>0, <2>10, <2>11, <4>1, Zenon DEF Grown, w
    <3>2. a.length \in Nat /\ a.length + WireBytes(v) <= room /\ WireBytes(v) = G
      BY <1>2, <1>6, <1>8, <2>9, <2>10
    <3> HIDE DEF v
    <3>3. IsRebuild(x) /\ x.length = a.length + G /\ x.logical = L /\ x.status = "ok"
      BY <1>1, <1>8, <2>10, <3>2, AppendedIs, SMTT(30)
    <3> HIDE DEF x
    <3>4. IsRebuild(t) /\ t.length = a.length + G /\ t.logical = L /\ t.finished = TRUE
          /\ t.status = "ok"
      <4>1. t = [packets |-> x.packets, length |-> x.length, logical |-> x.logical,
                 finished |-> TRUE, status |-> x.status]
        <5>1. x = [packets |-> x.packets, length |-> x.length, logical |-> x.logical,
                   finished |-> x.finished, status |-> x.status]
          BY <3>3 DEF IsRebuild
        <5>2. t = [x EXCEPT !.finished = TRUE]
          BY <3>1, <3>3
        <5> QED  BY <5>1, <5>2
      <4> QED  BY <3>3, <4>1, RebuildFields
    <3>5. Built(f, plan, k + 1, t, i, b)
      BY <1>5, <1>11, <2>1, <2>2, <2>13, <3>4 DEF Built, h
    <3>6. ToWrite(plan, t) = 0 /\ t.length \in Nat
      BY <1>8, <3>2, <3>4 DEF ToWrite
    <3>7. t.length + Left(f, k + 1) + ToWrite(plan, t) = plan.frame_bytes
      BY <1>14, <2>1, <2>10, <2>8, <3>4, <3>6
    <3> QED  BY <3>4, <3>5, <3>6, <3>7 DEF Progress
  <2> QED  BY <2>12, <2>13
<1> QED  BY <1>16, <1>17, <1>18

-----------------------------------------------------------------------------
(* The inductive invariant: between the calls nothing has been built, and  *)
(* while a frame is rebuilt the plan is one of that very frame and the     *)
(* sums hold.                                                              *)
Arguments ==
  /\ frame \in Seq(Packet) /\ target \in Nat /\ samples \in Seq(0..255) /\ full \in BOOLEAN

RebuildTyped(r) ==
  /\ r.length \in Nat /\ r.logical \in Nat /\ r.finished \in BOOLEAN /\ r.status \in Statuses

EditInv ==
  /\ Arguments
  /\ stage \in {"asking", "planned", "rebuilding", "rebuilt", "ended"}
  /\ status \in Statuses
  /\ EditTyped(plan)
  /\ room \in Int /\ at \in 1..(Len(frame) + 1)
  /\ RebuildTyped(rebuild)
  /\ stage \in {"asking", "planned"} => at = 1
  /\ stage \notin {"rebuilding", "rebuilt"} => rebuild = NoRebuild
  /\ stage \in {"rebuilding", "rebuilt"} => status = "ok"
  /\ stage = "rebuilding" => Building(frame) /\ Progress(frame, plan, at, rebuild)

LEMMA CallerBrings ==
  /\ Frames \subseteq Seq(Packet) /\ Substitutes \subseteq Seq(Packet)
  /\ Targets \subseteq Nat /\ SampleRuns \subseteq Seq(0..255)
  BY CallerAssumption DEF Packet

LEMMA NothingRebuilt ==
  /\ RebuildTyped(NoRebuild) /\ IsRebuild(NoRebuild)
  /\ NoRebuild.length = 0 /\ NoRebuild.logical = 0 /\ NoRebuild.finished = FALSE
  /\ NoRebuild.status = "ok" /\ NoRebuild.packets = <<>>
  BY DEF NoRebuild, RebuildTyped, IsRebuild, Statuses

LEMMA EditBegins ==
  ASSUME EditInit
  PROVE  EditInv
<1>1. EditTyped(NoEdit)
  BY DEF EditTyped, NoEdit, NoPlan, NoIndex, NoSelector
<1>2. Len(frame) \in Nat /\ Arguments
  BY CallerBrings DEF EditInit, Arguments
<1>3. 1 \in 1..(Len(frame) + 1)
  BY <1>2
<1> QED  BY <1>1, <1>2, <1>3, NothingRebuilt DEF EditInit, EditInv, Statuses

LEMMA PlanKeeps ==
  ASSUME EditInv, Plan
  PROVE  EditInv'
<1> DEFINE n == Len(samples)
           verdict == EditPlan(frame, target, n, full)
<1>1. /\ frame \in Seq(Packet) /\ target \in Nat /\ n \in Nat /\ full \in BOOLEAN
  BY DEF EditInv, Arguments
<1>2. EditTyped(verdict.edit) /\ verdict.status \in Statuses
  <2> HIDE DEF n
  <2>1. verdict.status \in PlanStatuses /\ EditTyped(verdict.edit)
    BY <1>1, EditTypes
  <2> HIDE DEF verdict
  <2> QED  BY <2>1 DEF PlanStatuses, Statuses
<1>3. /\ plan' = verdict.edit /\ status' = verdict.status
      /\ stage' \in {"planned", "ended"} /\ stage = "asking"
      /\ UNCHANGED <<arguments, expected, room, at, rebuild>>
  BY DEF Plan
<1> HIDE DEF verdict
<1>4. at' = 1 /\ rebuild' = NoRebuild
  BY <1>3 DEF EditInv
<1>5. Arguments' /\ room' \in Int /\ at' \in 1..(Len(frame') + 1)
  BY <1>3 DEF EditInv, Arguments, arguments
<1> QED  BY <1>2, <1>3, <1>4, <1>5, NothingRebuilt DEF EditInv

LEMMA ChangesKeep ==
  ASSUME EditInv,
         (\E run \in SampleRuns : ChangeSamples(run)) \/ (\E other \in Substitutes : ChangeFrame(other))
  PROVE  EditInv'
<1>1. /\ stage = "planned" /\ stage' = "planned"
      /\ UNCHANGED <<target, full, status, plan, expected, room, at, rebuild>>
      /\ frame' \in Seq(Packet) /\ samples' \in Seq(0..255)
  BY CallerBrings DEF ChangeSamples, ChangeFrame, EditInv, Arguments
<1>2. at' = 1 /\ Len(frame') \in Nat
  BY <1>1 DEF EditInv
<1>3. at' \in 1..(Len(frame') + 1)
  BY <1>2
<1> QED  BY <1>1, <1>2, <1>3 DEF EditInv, Arguments

LEMMA BeginKeeps ==
  ASSUME EditInv, NEW bytes \in Rooms, RebuildBegin(bytes)
  PROVE  EditInv'
<1> DEFINE n == Len(samples)
           verdict == EditPlan(frame, target, n, full)
           packets == <<[tag |-> "begin", payload |-> <<>>]>>
           r == [NoRebuild EXCEPT !.packets = packets, !.length = PreambleBytes + OverheadBytes]
<1>1. /\ frame \in Seq(Packet) /\ target \in Nat /\ n \in Nat /\ full \in BOOLEAN
      /\ samples \in Seq(0..255) /\ EditTyped(plan) /\ at = 1 /\ rebuild = NoRebuild
      /\ status \in Statuses /\ at \in 1..(Len(frame) + 1) /\ stage = "planned"
  BY DEF EditInv, Arguments, RebuildBegin
<1>2. plan.frame_bytes \in Nat /\ bytes \in Int
  BY <1>1 DEF EditTyped, Rooms
<1>3. /\ room' = bytes /\ UNCHANGED <<arguments, plan, at>>
      /\ \/ /\ status' \in {"invalid_arg", "buffer_too_small"} /\ stage' = "ended"
            /\ UNCHANGED rebuild
         \/ /\ PlanMatches(verdict) /\ ~(bytes < verdict.edit.frame_bytes)
            /\ status' = "ok" /\ stage' = "rebuilding" /\ rebuild' = r
            /\ expected' = verdict.edit
  <2> HIDE DEF r, verdict
  <2> QED  BY Zenon DEF RebuildBegin, r, verdict, packets
<1>4. Arguments' /\ at' = 1 /\ at' \in 1..(Len(frame') + 1) /\ EditTyped(plan') /\ room' \in Int
  BY <1>1, <1>2, <1>3 DEF Arguments, arguments
<1>5. CASE stage' = "ended"
  BY <1>1, <1>3, <1>4, <1>5, NothingRebuilt DEF EditInv, Statuses
<1>6. CASE stage' # "ended"
  <2>0. /\ PlanMatches(verdict) /\ ~(bytes < verdict.edit.frame_bytes)
        /\ status' = "ok" /\ stage' = "rebuilding" /\ rebuild' = r
        /\ expected' = verdict.edit
    <3> HIDE DEF r, verdict
    <3> QED  BY <1>3, <1>6
  <2>2. verdict.status = "ok" /\ plan = verdict.edit
    <3> HIDE DEF verdict
    <3> QED  BY <2>0 DEF PlanMatches
  <2>1. /\ bytes >= plan.frame_bytes
        /\ status' = "ok" /\ stage' = "rebuilding" /\ rebuild' = r
        /\ expected' = plan
    <3> HIDE DEF r, verdict
    <3> QED  BY <1>2, <2>0, <2>2
  <2>3. /\ frame # <<>> /\ frame[Len(frame)].tag = "end" /\ WellFormed(frame, Len(frame))
        /\ plan.frame_bytes = NewFrameBytes(frame, plan.replacement)
        /\ plan.replacement.growth \in Nat /\ plan.replacement.existing \in Nat
        /\ \E i : \E b : TargetAt(frame, plan, i, b)
    <3> HIDE DEF n
    <3> QED  BY <1>1, <2>2, PlannedTarget
  <2>4. PICK i : \E b : TargetAt(frame, plan, i, b)
    BY <2>3
  <2>5. PICK b : TargetAt(frame, plan, i, b)
    BY <2>4
  <2> DEFINE l == PreambleBytes + OverheadBytes
  <2>6. /\ IsRebuild(r) /\ r.length = l /\ r.logical = 0 /\ r.finished = FALSE /\ r.status = "ok"
    <3> HIDE DEF packets, l
    <3>1. r = [packets |-> packets, length |-> l, logical |-> 0, finished |-> FALSE,
               status |-> "ok"]
      <4> DEFINE x == NoRebuild
      <4>1. x = [packets |-> x.packets, length |-> x.length, logical |-> x.logical,
                 finished |-> x.finished, status |-> x.status]
        BY NothingRebuilt DEF IsRebuild
      <4>2. r = [x EXCEPT !.packets = packets, !.length = l]
        BY Zenon DEF l
      <4>3. x.logical = 0 /\ x.finished = FALSE /\ x.status = "ok"
        BY NothingRebuilt
      <4> HIDE DEF x, r
      <4> QED  BY <4>1, <4>2, <4>3
    <3> HIDE DEF r
    <3> QED  BY <3>1, RebuildFields
  <2> HIDE DEF r
  <2>7. l \in Nat
    BY TopologyConstants
  <2>8. Len(frame) \in Nat /\ 1 < b /\ Len(frame) >= 3 /\ b \in Nat
    <3>1. i \in 1..Len(frame) /\ b \in (i + 1)..(Len(frame) - 1) /\ Len(frame) \in Nat
      BY <1>1, <2>5 DEF TargetAt
    <3> QED  BY <3>1
  <2>9. r.length + Left(frame, 1) + ToWrite(plan, r) = plan.frame_bytes
    <3> DEFINE F == FrameLen(frame)
               G == GrowthBytes(plan)
    <3>1. OffsetOf(frame, 2) = l /\ F \in Nat
      BY <1>1, <2>3, <2>8, FrameEnds
    <3>2. Left(frame, 1) = F - l + 0
      <4>1. ~(1 > Len(frame))
        BY <2>8
      <4> QED  BY <3>1, <4>1 DEF Left
    <3>3. ToWrite(plan, r) = G
      BY <2>6 DEF ToWrite
    <3>4. plan.frame_bytes = F + G
      BY <2>3, Zenon DEF NewFrameBytes, GrowthBytes, BlockWire
    <3>5. G \in Nat
      BY <1>1, <2>3, GrowthIsBytes
    <3> HIDE DEF F, G, l
    <3>6. l + (F - l + 0) + G = F + G
      BY <2>7, <3>1, <3>5
    <3> QED  BY <2>6, <3>2, <3>3, <3>4, <3>6
  <2>10. Built(frame, plan, 1, r, i, b)
    <3>1. DataRunOf(frame, i)[0] = <<>>
      BY <1>1, DataRunOfIs DEF IsDataRun
    <3>2. Len(DataRunOf(frame, i)[1 - 1]) = 0
      BY <3>1
    <3>3. ~(1 > b)
      BY <2>8
    <3> QED  BY <2>5, <2>6, <3>2, <3>3 DEF Built
  <2>11. Progress(frame, plan, 1, r)
    BY <2>6, <2>7, <2>9, <2>10 DEF Progress
  <2>12. Building(frame)' /\ Progress(frame, plan, at, rebuild)'
    <3>1. UNCHANGED <<frame, samples, plan>> /\ at' = 1 /\ rebuild' = r /\ room' = bytes
      BY <1>1, <1>3, <2>1 DEF arguments
    <3>2. Building(frame)'
      BY <1>1, <1>2, <2>1, <2>3, <3>1 DEF Building
    <3>3. Progress(frame, plan, at, rebuild)'
      BY <2>11, <3>1
    <3> QED  BY <3>2, <3>3
  <2>13. RebuildTyped(rebuild')
    <3>1. 0 \in Nat /\ FALSE \in BOOLEAN /\ "ok" \in Statuses
      BY DEF Statuses
    <3> HIDE DEF l
    <3> QED  BY <2>1, <2>6, <2>7, <3>1, Zenon DEF RebuildTyped
  <2> QED  BY <1>4, <2>1, <2>12, <2>13 DEF EditInv, Statuses
<1> QED  BY <1>5, <1>6

LEMMA ProgressTyped ==
  ASSUME NEW f \in Seq(Packet), NEW edit, NEW k \in 1..(Len(f) + 1), NEW r,
         Progress(f, edit, k, r)
  PROVE  RebuildTyped(r)
<1>1. r.status = "ok" /\ r.length \in Nat /\ r.finished \in BOOLEAN
  BY DEF Progress
<1>2. PICK i : \E b : Built(f, edit, k, r, i, b)
  BY DEF Progress
<1>3. r.logical = Len(DataRunOf(f, i)[k - 1])
  BY <1>2 DEF Built
<1>4. k - 1 \in 0..Len(f)
  OBVIOUS
<1>5. r.logical \in Nat
  <2>1. DataRunOf(f, i)[k - 1] \in Payload
    BY <1>4, DataRunOfIs
  <2> QED  BY <1>3, <2>1, PayloadConcat
<1>6. "ok" \in Statuses
  BY DEF Statuses
<1> QED  BY <1>1, <1>5, <1>6, Zenon DEF RebuildTyped

LEMMA RebuildKeeps ==
  ASSUME EditInv, RebuildPacket
  PROVE  EditInv'
<1> DEFINE o == OffsetOf(frame, at)
           p == frame[at]
           t == RebuildStep(rebuild, o, p)
<1>1. /\ Building(frame) /\ Progress(frame, plan, at, rebuild)
      /\ frame \in Seq(Packet) /\ at \in 1..(Len(frame) + 1) /\ at <= Len(frame)
      /\ EditTyped(plan) /\ room \in Int /\ Arguments
  BY DEF EditInv, RebuildPacket, Arguments
<1>2. /\ rebuild' = t /\ status' = rebuild'.status
      /\ stage' = IF status' = "ok" THEN "rebuilding" ELSE "ended"
      /\ at' = at + 1 /\ UNCHANGED <<frame, target, samples, full, plan, expected, room>>
  BY DEF RebuildPacket, arguments
<1>3. at \in 1..Len(frame) /\ at' \in 1..(Len(frame) + 1)
  BY <1>1, <1>2
<1>4. Progress(frame, plan, at + 1, t)
  BY <1>1, <1>3, RebuildGoesOn
<1> HIDE DEF t
<1>5. t.status = "ok" /\ RebuildTyped(t)
  <2>1. at + 1 \in 1..(Len(frame) + 1)
    BY <1>2, <1>3
  <2>2. t.status = "ok"
    BY <1>4 DEF Progress
  <2> QED  BY <1>1, <1>4, <2>1, <2>2, ProgressTyped
<1>6. status' = "ok" /\ stage' = "rebuilding"
  BY <1>2, <1>5
<1>7. Progress(frame, plan, at, rebuild)'
  BY <1>2, <1>4
<1>8. Building(frame)' /\ Arguments' /\ EditTyped(plan')
  BY <1>1, <1>2 DEF Building, Arguments
<1>9. at' \in 1..(Len(frame') + 1) /\ room' \in Int /\ RebuildTyped(rebuild')
  BY <1>1, <1>2, <1>3, <1>5
<1> QED  BY <1>6, <1>7, <1>8, <1>9 DEF EditInv, Statuses

LEMMA EndKeeps ==
  ASSUME EditInv, RebuildEnd
  PROVE  EditInv'
<1> DEFINE n == Len(frame)
           end == [tag |-> "end", payload |-> <<>>]
           closed == Appended(rebuild, <<end>>)
           r == rebuild
<1>1. /\ Building(frame) /\ Progress(frame, plan, at, r)
      /\ frame \in Seq(Packet) /\ at \in 1..(n + 1) /\ at > n
      /\ EditTyped(plan) /\ room \in Int /\ Arguments /\ RebuildTyped(r) /\ n \in Nat
  BY DEF EditInv, RebuildEnd, Arguments
<1>2. /\ frame # <<>> /\ frame[n].tag = "end" /\ WellFormed(frame, n)
      /\ plan.frame_bytes \in Nat /\ room >= plan.frame_bytes /\ expected = plan
  BY <1>1 DEF Building
<1>3. at = n + 1 /\ (n + 1) - 1 = n
  BY <1>1
<1>4. /\ IsRebuild(r) /\ r.status = "ok" /\ r.length \in Nat
      /\ r.length + Left(frame, n + 1) + ToWrite(plan, r) = plan.frame_bytes
  BY <1>1, <1>3 DEF Progress
<1>5. PICK i : \E b : Built(frame, plan, n + 1, r, i, b)
  BY <1>1, <1>3 DEF Progress
<1>6. PICK b : Built(frame, plan, n + 1, r, i, b)
  BY <1>5
<1>7. TargetAt(frame, plan, i, b) /\ r.logical = Len(DataRunOf(frame, i)[n])
      /\ (r.finished <=> n + 1 > b)
  BY <1>3, <1>6 DEF Built
<1>8. i \in 1..n /\ b \in (i + 1)..(n - 1)
      /\ TargetDataBytes = Len(DataRunOf(frame, i)[n])
  BY <1>2, <1>7 DEF TargetAt, TargetDataBytes
<1>9. r.finished /\ r.logical = TargetDataBytes /\ n >= 3
  BY <1>1, <1>7, <1>8
<1>10. Left(frame, n + 1) = 5 /\ ToWrite(plan, r) = 0
  <2> DEFINE O == OffsetOf(frame, n + 1)
  <2>1. FrameLen(frame) = O /\ O \in Nat
    BY <1>1, <1>2, <1>9, FrameEnds
  <2>2. Left(frame, n + 1) = FrameLen(frame) - O + OverheadBytes
    <3>1. n + 1 > n /\ n + 1 # 1
      BY <1>1, <1>9
    <3> QED  BY <3>1 DEF Left
  <2> HIDE DEF O
  <2>3. Left(frame, n + 1) = 5
    BY <2>1, <2>2, TopologyConstants
  <2> QED  BY <1>9, <2>3 DEF ToWrite
<1>11. r.length + 5 = plan.frame_bytes /\ r.length + 5 <= room
  BY <1>1, <1>2, <1>4, <1>10
<1>12. WireBytes(<<end>>) = 5
  <2>1. end.payload = <<>>
    OBVIOUS
  <2> HIDE DEF end
  <2>2. Len(end.payload) = 0
    BY <2>1
  <2>3. Len(end.payload) \in Nat
    BY <2>2
  <2>4. WireBytes(<<end>>) = WireLen(end)
    BY <2>3, OneWire
  <2> QED  BY <2>2, <2>4, TopologyConstants DEF WireLen
<1>13. closed.status = "ok" /\ closed.length = plan.frame_bytes
  <2> HIDE DEF end, closed, r
  <2>1. closed = Appended(r, <<end>>) /\ WireBytes(<<end>>) \in Nat
        /\ r.length + WireBytes(<<end>>) <= room
    BY <1>11, <1>12 DEF closed, r
  <2> QED  BY <1>1, <1>4, <1>11, <1>12, <2>1, AppendedIs
<1>14. /\ status' = (IF ~r.finished \/ r.logical # TargetDataBytes THEN "frame"
                     ELSE IF closed.status = "ok" /\ closed.length # expected.frame_bytes
                     THEN "frame" ELSE closed.status)
       /\ stage' = IF status' = "ok" THEN "rebuilt" ELSE "ended"
       /\ UNCHANGED <<arguments, plan, room, at, rebuild>>
  <2> HIDE DEF closed
  <2> QED  BY Zenon DEF RebuildEnd, closed, end
<1> HIDE DEF closed
<1>15. status' = "ok" /\ stage' = "rebuilt"
  BY <1>2, <1>9, <1>13, <1>14
<1>16. Arguments' /\ EditTyped(plan') /\ room' \in Int /\ at' \in 1..(Len(frame') + 1)
       /\ RebuildTyped(rebuild')
  BY <1>1, <1>14 DEF Arguments, arguments
<1> QED  BY <1>15, <1>16 DEF EditInv, Statuses

LEMMA EditKeeps ==
  EditInv /\ [EditNext]_editVars => EditInv'
<1> SUFFICES ASSUME EditInv, [EditNext]_editVars PROVE EditInv'
  OBVIOUS
<1>1. CASE Plan
  BY <1>1, PlanKeeps
<1>2. CASE \/ \E run \in SampleRuns : ChangeSamples(run)
           \/ \E other \in Substitutes : ChangeFrame(other)
  BY <1>2, ChangesKeep
<1>3. CASE \E bytes \in Rooms : RebuildBegin(bytes)
  BY <1>3, BeginKeeps
<1>4. CASE RebuildPacket
  BY <1>4, RebuildKeeps
<1>5. CASE RebuildEnd
  BY <1>5, EndKeeps
<1>6. CASE UNCHANGED editVars
  BY <1>6 DEF editVars, arguments, EditInv, Arguments, Building
<1> QED  BY <1>1, <1>2, <1>3, <1>4, <1>5, <1>6 DEF EditNext

LEMMA EditSound ==
  EditSpec => []EditInv
<1>1. EditInit => EditInv
  BY EditBegins
<1> QED  BY <1>1, EditKeeps, PTL DEF EditSpec

LEMMA EditIsSized ==
  ASSUME EditInv
  PROVE  EditTypeOK /\ PlannedSizesAreExact
<1>1. EditTypeOK
  BY DEF EditInv, EditTypeOK, EditTyped, RebuildTyped, Building
<1>2. stage \in {"rebuilding", "rebuilt"} => status = "ok"
  BY DEF EditInv
<1>3. rebuild # NoRebuild => stage \in {"rebuilding", "rebuilt"}
  BY DEF EditInv
<1>4. ASSUME stage = "rebuilding"
      PROVE  rebuild.length + Remaining + StillToGrow
               + (IF at > Len(frame) THEN OverheadBytes ELSE 0) = plan.frame_bytes
  <2> DEFINE n == Len(frame)
             place == IF at = 1 THEN 2 ELSE at
             F == FrameLen(frame)
             O == OffsetOf(frame, place)
             last == IF at > n THEN OverheadBytes ELSE 0
             more == ToWrite(plan, rebuild)
             length == rebuild.length
  <2>1. /\ Building(frame) /\ Progress(frame, plan, at, rebuild)
        /\ frame \in Seq(Packet) /\ at \in 1..(n + 1) /\ n \in Nat
    BY <1>4 DEF EditInv, Arguments
  <2>2. /\ samples \in Seq(0..255) /\ plan.replacement.growth \in Nat
        /\ plan.replacement.existing \in Nat
        /\ frame # <<>> /\ frame[n].tag = "end" /\ WellFormed(frame, n)
    BY <2>1 DEF Building
  <2>3. length \in Nat /\ length + (F - O + last) + more = plan.frame_bytes
        /\ \E i : \E b : TargetAt(frame, plan, i, b)
    BY <2>1 DEF Progress, Left, Built
  <2>4. n >= 3
    BY <2>1, <2>3 DEF TargetAt
  <2>5. F \in Nat /\ O \in Nat
    <3>1. place \in 1..(n + 1)
      BY <2>1, <2>4
    <3> HIDE DEF place
    <3>2. O \in Nat
      BY <2>1, <3>1, OffsetsGrow
    <3> QED  BY <2>1, <2>2, <2>4, <3>2, FrameEnds
  <2>6. StillToGrow = more /\ more \in Nat
    BY <2>2, GrowthIsBytes, Zenon DEF StillToGrow, ToWrite
  <2>7. Remaining = F - O
    BY Zenon DEF Remaining
  <2>8. last \in Nat
    BY TopologyConstants
  <2> HIDE DEF F, O, last, more, length
  <2>9. length + (F - O) + more + last = length + (F - O + last) + more
    BY <2>3, <2>5, <2>6, <2>8
  <2> QED  BY <2>3, <2>6, <2>7, <2>9, Zenon DEF last, length, n
<1> QED  BY <1>1, <1>2, <1>3, <1>4 DEF PlannedSizesAreExact

-----------------------------------------------------------------------------
(* In every state of an edit each field holds a value of its C type.       *)
THEOREM EditTypeCorrect == EditSpec => []EditTypeOK
<1>1. EditInv => EditTypeOK
  BY EditIsSized
<1> QED  BY <1>1, EditSound, PTL

(* A plan's sizes are exact, whatever the frame, the record, the samples   *)
(* and the sizes of header, block and packet: at every packet what has     *)
(* been written, what is left of the old frame and the growth still to     *)
(* come add up to the planned size (pool_edit_rebuild_packet of            *)
(* src/core/src/po33.c).  So a rebuild that begins fails neither for want  *)
(* of room nor by the checks at its end.                                   *)
THEOREM SizesHold == EditSpec => []PlannedSizesAreExact
<1>1. EditInv => PlannedSizesAreExact
  BY EditIsSized
<1> QED  BY <1>1, EditSound, PTL

-----------------------------------------------------------------------------
-----------------------------------------------------------------------------
(***************************************************************************)
(* Reading two frames side by side.  The parser's turns on a frame do not  *)
(* depend on what stands behind the packets read, and a frame read to its  *)
(* END went on at every turn before.                                       *)
(***************************************************************************)
LEMMA ParsedPrefix ==
  ASSUME NEW a \in Seq(Packet), NEW c \in Seq(Packet), Len(a) <= Len(c),
         \A k \in 1..Len(a) : c[k] = a[k]
  PROVE  \A k \in 0..Len(a) : ParsedUpTo(c)[k] = ParsedUpTo(a)[k]
<1> DEFINE n == Len(a)
           m == Len(c)
           old == ParsedUpTo(a)
           new == ParsedUpTo(c)
           T == { k \in 0..n : new[k] = old[k] }
<1>1. n \in Nat /\ m \in Nat /\ n <= m
  OBVIOUS
<1>2. old[0] = NewParse /\ \A k \in 1..n : old[k] = ParseStep(old[k-1], a[k])
  BY ParsedRun
<1>3. new[0] = NewParse /\ \A k \in 1..m : new[k] = ParseStep(new[k-1], c[k])
  BY ParsedRun
<1> HIDE DEF old, new, m
<1>4. 0 \in T
  BY <1>1, <1>2, <1>3
<1>5. ASSUME NEW k \in 1..n, k - 1 \in T PROVE k \in T
  <2>1. k \in 1..m /\ k \in 0..n /\ c[k] = a[k]
    BY <1>1
  <2>2. new[k] = ParseStep(new[k-1], c[k]) /\ old[k] = ParseStep(old[k-1], a[k])
    BY <1>2, <1>3, <2>1
  <2> QED  BY <1>5, <2>1, <2>2
<1> HIDE DEF n
<1>6. 0..n \subseteq T
  <2> HIDE DEF T
  <2> QED  BY <1>1, <1>4, <1>5, InductionUpTo
<1>7. \A k \in 0..n : new[k] = old[k]
  BY <1>6
<1> QED  BY <1>7 DEF new, old, n

(* A parser that has failed stays failed.                                  *)
LEMMA Stuck ==
  ASSUME NEW f \in Seq(Packet), NEW k \in 0..Len(f), ParsedUpTo(f)[k].status # "more"
  PROVE  Parsed(f) = ParsedUpTo(f)[k]
<1> DEFINE n == Len(f)
           F == ParsedUpTo(f)
           T == { j \in 0..n : j >= k => F[j] = F[k] }
<1>1. n \in Nat /\ k \in 0..n
  OBVIOUS
<1>2. \A j \in 1..n : F[j] = ParseStep(F[j-1], f[j])
  BY ParsedRun
<1>3. Parsed(f) = F[n] /\ F[k].status # "more"
  BY DEF Parsed
<1> HIDE DEF F, n
<1>4. 0 \in T
  BY <1>1
<1>5. ASSUME NEW j \in 1..n, j - 1 \in T PROVE j \in T
  <2>1. j \in 0..n /\ F[j] = ParseStep(F[j-1], f[j])
    BY <1>1, <1>2
  <2>2. CASE j - 1 >= k
    <3>1. F[j-1] = F[k]
      BY <1>5, <2>2
    <3>2. F[j] = F[k]
      BY <1>3, <2>1, <3>1 DEF ParseStep
    <3> QED  BY <2>1, <3>2
  <2>3. CASE ~(j - 1 >= k)
    BY <1>1, <2>1, <2>3
  <2> QED  BY <2>2, <2>3
<1>6. 0..n \subseteq T
  <2> HIDE DEF T
  <2> QED  BY <1>1, <1>4, <1>5, InductionUpTo
<1>7. n \in T
  BY <1>1, <1>6
<1>8. n >= k
  BY <1>1
<1>9. F[n] = F[k]
  BY <1>7, <1>8
<1> QED  BY <1>3, <1>9 DEF F

(* A parser that goes on has gone on before.                               *)
LEMMA GoesOnBefore ==
  ASSUME NEW f \in Seq(Packet), ExactStatus(f, Parsed(f)) = "ok", NEW k \in 0..(Len(f) - 1)
  PROVE  LET q == ParsedUpTo(f)[k]
         IN  /\ q \in Parsers /\ q.status = "more" /\ q.count = k /\ q.pos = OffsetOf(f, k + 1)
             /\ q.stream.status = "ok"
<1> DEFINE q == ParsedUpTo(f)[k]
<1>1. Parsed(f).status = "done" /\ Parsed(f).count = Len(f) /\ Len(f) \in Nat
  BY ExactFrame
<1>2. k \in 0..Len(f) /\ k < Len(f)
  BY <1>1
<1>3. q \in Parsers
  BY <1>2, ParsedRun
<1>4. q.status = "more"
  <2> SUFFICES ASSUME q.status # "more" PROVE FALSE
    OBVIOUS
  <2>1. q = Parsed(f)
    BY <1>2, Stuck
  <2>2. Going(q) /\ q.count = Len(f)
    BY <1>1, <2>1 DEF Going
  <2>3. ParsedAt(f, k, q)
    BY <1>2, <2>2, ParsedTurns
  <2> QED  BY <1>2, <2>2, <2>3 DEF ParsedAt
<1>5. ParsedAt(f, k, q)
  BY <1>2, <1>4, ParsedTurns DEF Going
<1> QED  BY <1>3, <1>4, <1>5 DEF ParsedAt

(* One turn, when it goes well.                                            *)
Turn(q, p, u) ==
  LET t == TopologyPacket(q.stream, p, q.pos)
  IN  /\ t.status = "ok" /\ u.stream = t
      /\ u.pos = q.pos + WireLen(p) /\ u.count = q.count + 1
      /\ u.status = IF p.tag = "end" THEN "done" ELSE "more"

(* What a turn of the parser is.                                           *)
LEMMA TurnIs ==
  ASSUME NEW q \in Parsers, q.status = "more", NEW p
  PROVE  /\ ~Misplaced(q.count, p) /\ TopologyPacket(q.stream, p, q.pos).status = "ok"
              => Turn(q, p, ParseStep(q, p))
         /\ Going(ParseStep(q, p)) => ~Misplaced(q.count, p) /\ Turn(q, p, ParseStep(q, p))
<1> DEFINE t == TopologyPacket(q.stream, p, q.pos)
           u == ParseStep(q, p)
           later == q.pos + WireLen(p)
           verdict == IF t.status # "ok" THEN "stopped"
                      ELSE IF p.tag = "end" THEN "done" ELSE "more"
<1>1. CASE Misplaced(q.count, p)
  <2>1. u = [q EXCEPT !.status = "bad"]
    BY <1>1 DEF ParseStep
  <2>2. u.status = "bad"
    BY <2>1 DEF Parsers
  <2> QED  BY <1>1, <2>2 DEF Going
<1>2. CASE ~Misplaced(q.count, p)
  <2>1. u = [pos |-> later, count |-> q.count + 1, stream |-> t, status |-> verdict]
    BY <1>2 DEF ParseStep
  <2> HIDE DEF later, verdict, t, u
  <2>2. u.pos = later /\ u.count = q.count + 1 /\ u.stream = t /\ u.status = verdict
    BY <2>1
  <2>3. Going(u) => t.status = "ok"
    BY <2>2 DEF Going, verdict
  <2>4. t.status = "ok" => Turn(q, p, u)
    BY <2>2 DEF Turn, verdict, later, t
  <2> QED  BY <1>2, <2>3, <2>4 DEF t, u
<1> QED  BY <1>1, <1>2


-----------------------------------------------------------------------------
(***************************************************************************)
(* The frame as it was and the frame as it becomes, read side by side.     *)
(* Up to the target's data they are the same.  Inside it the gathered      *)
(* headers differ by the range a full edit writes.  Behind it every place  *)
(* has moved by the bytes of the growth packets.                           *)
(***************************************************************************)
GrowthData(edit) == (edit.replacement.growth \div BlockBytes) * BlockBytes

(* A span that lies behind the growth.                                     *)
Shifted(span, g) == [offset |-> span.offset + g, length |-> span.length]

(* A byte of the header and a header, for n sample bytes.                  *)
HeaderByte(n, whole, j, b) ==
  IF whole /\ j <= RangeBytes THEN 0
  ELSE IF whole /\ j <= 2 * RangeBytes THEN (n \div 256^(j - RangeBytes - 1)) % 256
  ELSE b

Rewritten(n, whole, h) == [j \in 1..Len(h) |-> HeaderByte(n, whole, j, h[j])]

(* A record read, before and after the edit.                               *)
ObsMoves(edit, n, whole, o, u) ==
  /\ u.selector = o.selector /\ u.source = o.source /\ u.flags = o.flags
  /\ o.data.offset < edit.data.offset =>
       /\ u.range = o.range /\ u.selection = o.selection
       /\ u.data = o.data /\ u.data_bytes = o.data_bytes
  /\ o.data.offset = edit.data.offset =>
       /\ u.range = Rewritten(n, whole, o.range) /\ u.selection = o.selection
       /\ u.data = [offset |-> o.data.offset, length |-> o.data.length + GrowthBytes(edit)]
       /\ u.data_bytes = o.data_bytes + GrowthData(edit)
       /\ o.data_bytes > HeaderBytes /\ Len(o.range) = 2 * RangeBytes
  /\ o.data.offset > edit.data.offset =>
       /\ u.range = o.range /\ u.selection = Shifted(o.selection, GrowthBytes(edit))
       /\ u.data = Shifted(o.data, GrowthBytes(edit)) /\ u.data_bytes = o.data_bytes

SeenMoves(edit, n, whole, old, new) ==
  /\ Len(new) = Len(old)
  /\ \A j \in 1..Len(old) : ObsMoves(edit, n, whole, old[j], new[j])

(* The record being gathered is that of the target. *)
AtTarget(edit, a) == a.have_data /\ a.first = edit.data.offset

(* The record being gathered, before and after; pos is where the old       *)
(* parser is.                                                              *)
RecMoves(edit, n, whole, pos, a, b) ==
  /\ b.active = a.active /\ b.have_data = a.have_data /\ b.selector = a.selector
  /\ b.unknown_extension = a.unknown_extension
  /\ AtTarget(edit, a) =>
       /\ pos = SpanEnd(edit.data)
       /\ Len(a.header) = HeaderBytes /\ b.header = Rewritten(n, whole, a.header)
       /\ a.data_bytes > HeaderBytes /\ b.data_bytes = a.data_bytes + GrowthData(edit)
       /\ b.selection = a.selection /\ b.first = a.first
       /\ b.end = a.end + GrowthBytes(edit)
  /\ ~AtTarget(edit, a) =>
       /\ b.header = a.header /\ b.data_bytes = a.data_bytes
       /\ a.active => b.selection = Shifted(a.selection, GrowthBytes(edit))
       /\ a.have_data => /\ a.first > edit.data.offset
                         /\ b.first = a.first + GrowthBytes(edit)
                         /\ b.end = a.end + GrowthBytes(edit)

(* The two parsers between the target's selector and its last packet.      *)
Inside(edit, n, whole, logical, q, r) ==
  LET a == q.stream.record
      b == r.stream.record
  IN  /\ q.status = "more" /\ r.status = "more" /\ r.count # 0 /\ r.stream.status = "ok"
      /\ r.pos = q.pos /\ r.stream.seen = q.stream.seen
      /\ a.active /\ b.active = a.active /\ b.have_data = a.have_data
      /\ b.selector = a.selector /\ b.selection = a.selection
      /\ b.unknown_extension = a.unknown_extension
      /\ b.first = a.first /\ b.end = a.end
      /\ a.data_bytes = logical /\ b.data_bytes = logical
      /\ Len(a.header) = Smaller(HeaderBytes, logical)
      /\ b.header = Rewritten(n, whole, a.header)
      /\ a.have_data => a.first = edit.data.offset /\ a.end = q.pos
      /\ ~a.have_data => q.pos = edit.data.offset

(* The two parsers before the target and behind it.                        *)
Past(edit, n, whole, q, r) ==
  /\ q.status = "more" /\ r.status = "more" /\ r.count # 0 /\ r.stream.status = "ok"
  /\ q.pos >= SpanEnd(edit.data) /\ r.pos = q.pos + GrowthBytes(edit)
  /\ SeenMoves(edit, n, whole, q.stream.seen, r.stream.seen)
  /\ RecMoves(edit, n, whole, q.pos, q.stream.record, r.stream.record)

(* What the lemmas below take of the plan.                                 *)
Placed(edit) ==
  /\ edit.data.offset \in Nat /\ SpanEnd(edit.data) \in Nat
  /\ edit.data.offset < SpanEnd(edit.data)
  /\ GrowthBytes(edit) \in Nat /\ GrowthData(edit) \in Nat
  /\ edit.replacement.existing \in Nat


(* A byte of the header is a byte.                                         *)
LEMMA HeaderByteIs ==
  ASSUME NEW n \in Nat, NEW whole \in BOOLEAN, NEW j \in Nat \ {0}, NEW b \in 0..255
  PROVE  HeaderByte(n, whole, j, b) \in 0..255
<1>1. CASE whole /\ j <= RangeBytes
  BY <1>1 DEF HeaderByte
<1>2. CASE whole /\ ~(j <= RangeBytes) /\ j <= 2 * RangeBytes
  <2> DEFINE e == j - RangeBytes - 1
  <2>1. e \in Nat
    BY <1>2, TopologyConstants
  <2> HIDE DEF e
  <2>2. (n \div 256^e) % 256 \in 0..255
    BY <2>1
  <2> QED  BY <1>2, <2>2 DEF HeaderByte, e
<1>3. CASE ~whole \/ (~(j <= RangeBytes) /\ ~(j <= 2 * RangeBytes))
  BY <1>3 DEF HeaderByte
<1> QED  BY <1>1, <1>2, <1>3

(* A rewritten header is as long as it was.                                *)
LEMMA RewrittenIs ==
  ASSUME NEW n \in Nat, NEW whole \in BOOLEAN, NEW h \in Payload
  PROVE  /\ Rewritten(n, whole, h) \in Payload /\ Len(Rewritten(n, whole, h)) = Len(h)
         /\ \A j \in 1..Len(h) : Rewritten(n, whole, h)[j] = HeaderByte(n, whole, j, h[j])
<1> DEFINE m == Len(h)
           B(j) == HeaderByte(n, whole, j, h[j])
<1>1. m \in Nat /\ \A j \in 1..m : h[j] \in 0..255 /\ j \in Nat \ {0}
  <2>1. h \in Seq(0..255)
    BY DEF Payload
  <2> QED  BY <2>1, SampleRange
<1>2. \A j \in 1..m : B(j) \in 0..255
  BY <1>1, HeaderByteIs
<1> DEFINE v == [j \in 1..m |-> B(j)]
<1> HIDE DEF B, m
<1>3. v \in Seq(0..255) /\ Len(v) = m /\ \A j \in 1..m : v[j] = B(j)
  BY <1>1, <1>2
<1>4. Rewritten(n, whole, h) = v
  BY DEF Rewritten, B, m
<1> QED  BY <1>3, <1>4 DEF Payload, B, m

(* A header's prefix is rewritten as the header is; its source stays.      *)
LEMMA RewrittenPrefix ==
  ASSUME NEW n \in Nat, NEW whole \in BOOLEAN, NEW h \in Payload, Len(h) = HeaderBytes
  PROVE  /\ SubSeq(Rewritten(n, whole, h), 1, 2 * RangeBytes)
              = Rewritten(n, whole, SubSeq(h, 1, 2 * RangeBytes))
         /\ Rewritten(n, whole, h)[HeaderBytes] = h[HeaderBytes]
<1> DEFINE m == 2 * RangeBytes
           H == HeaderBytes
           x == SubSeq(h, 1, m)
           w == Rewritten(n, whole, h)
<1>1. m \in Nat /\ H = m + 1 /\ m \in 0..Len(h) /\ m <= H /\ H \in 1..Len(h) /\ RangeBytes \in Nat
  BY TopologyConstants
<1> HIDE DEF m, H
<1>2. x \in Payload /\ Len(x) = m /\ \A j \in 1..m : x[j] = h[j]
  BY <1>1 DEF Payload
<1>3. w \in Payload /\ Len(w) = Len(h) /\ \A j \in 1..Len(h) : w[j] = HeaderByte(n, whole, j, h[j])
  BY RewrittenIs
<1>4. /\ Rewritten(n, whole, x) \in Payload /\ Len(Rewritten(n, whole, x)) = m
      /\ \A j \in 1..m : Rewritten(n, whole, x)[j] = HeaderByte(n, whole, j, x[j])
  <2> HIDE DEF x
  <2> QED  BY <1>2, RewrittenIs
<1> DEFINE y == Rewritten(n, whole, x)
           z == SubSeq(w, 1, m)
<1> HIDE DEF w, x
<1>5. z \in Payload /\ Len(z) = m /\ \A j \in 1..m : z[j] = w[j]
  BY <1>1, <1>3 DEF Payload
<1>6. \A j \in 1..m : z[j] = y[j]
  <2>1. \A j \in 1..m : j \in 1..Len(h)
    BY <1>1
  <2> QED  BY <1>2, <1>3, <1>4, <1>5, <2>1
<1> HIDE DEF y, z
<1>7. z = y
  BY <1>1, <1>4, <1>5, <1>6, SameElements DEF y
<1>8. w[H] = h[H]
  <2>1. HeaderByte(n, whole, H, h[H]) = h[H]
    BY <1>1 DEF HeaderByte, m
  <2> QED  BY <1>1, <1>3, <2>1
<1> QED  BY <1>7, <1>8 DEF y, z, w, x, m, H

(* What Observed makes of a record and its prefix.                         *)
LEMMA ObservedIs ==
  ASSUME NEW a
  PROVE  /\ Observed(a).selector = a.selector
         /\ Observed(a).range = SubSeq(a.header, 1, 2 * RangeBytes)
         /\ Observed(a).source = a.header[HeaderBytes]
         /\ Observed(a).selection = a.selection
         /\ Observed(a).data = [offset |-> a.first, length |-> a.end - a.first]
         /\ Observed(a).data_bytes = a.data_bytes
         /\ Observed(a).flags = { f \in {"header_only"} : a.data_bytes = HeaderBytes }
                    \cup { f \in {"unknown_extension"} : a.unknown_extension }
  BY DEF Observed

(* Records that correspond are observed as records that correspond.        *)
LEMMA ObservedMoves ==
  ASSUME NEW edit, Placed(edit), NEW n \in Nat, NEW whole \in BOOLEAN, NEW pos \in Nat,
         NEW a \in Gathering, NEW b \in Gathering, a.have_data, Gathered(a, pos),
         RecMoves(edit, n, whole, pos, a, b), Len(a.header) = HeaderBytes
  PROVE  ObsMoves(edit, n, whole, Observed(a), Observed(b))
<1> DEFINE o == Observed(a)
           u == Observed(b)
           D == edit.data.offset
           g == GrowthBytes(edit)
           c == GrowthData(edit)
<1>1. /\ D \in Nat /\ g \in Nat /\ c \in Nat /\ HeaderBytes \in Nat
      /\ a.first \in Nat /\ a.end \in Nat /\ a.data_bytes \in Nat /\ a.header \in Payload
      /\ a.active /\ a.end >= a.first
  BY TopologyConstants DEF Placed, Gathering, Gathered, Payload
<1>2. /\ o.selector = a.selector /\ o.range = SubSeq(a.header, 1, 2 * RangeBytes)
      /\ o.source = a.header[HeaderBytes] /\ o.selection = a.selection
      /\ o.data = [offset |-> a.first, length |-> a.end - a.first]
      /\ o.data_bytes = a.data_bytes
      /\ o.flags = { f \in {"header_only"} : a.data_bytes = HeaderBytes }
                    \cup { f \in {"unknown_extension"} : a.unknown_extension }
  BY ObservedIs
<1>3. /\ u.selector = b.selector /\ u.range = SubSeq(b.header, 1, 2 * RangeBytes)
      /\ u.source = b.header[HeaderBytes] /\ u.selection = b.selection
      /\ u.data = [offset |-> b.first, length |-> b.end - b.first]
      /\ u.data_bytes = b.data_bytes
      /\ u.flags = { f \in {"header_only"} : b.data_bytes = HeaderBytes }
                    \cup { f \in {"unknown_extension"} : b.unknown_extension }
  BY ObservedIs
<1> HIDE DEF o, u
<1>4. o.data.offset = a.first
  BY <1>2
<1>5. b.selector = a.selector /\ b.unknown_extension = a.unknown_extension
  BY DEF RecMoves
<1>6. CASE a.first = D
  <2>1. AtTarget(edit, a)
    BY <1>6 DEF AtTarget
  <2>2. /\ b.header = Rewritten(n, whole, a.header)
        /\ a.data_bytes > HeaderBytes /\ b.data_bytes = a.data_bytes + c
        /\ b.selection = a.selection /\ b.first = a.first /\ b.end = a.end + g
    BY <2>1 DEF RecMoves
  <2>3. u.range = Rewritten(n, whole, o.range) /\ u.source = o.source
    BY <1>1, <1>2, <1>3, <2>2, RewrittenPrefix
  <2>4. u.flags = o.flags
    <3>1. b.data_bytes # HeaderBytes /\ a.data_bytes # HeaderBytes
      BY <1>1, <2>2
    <3> QED  BY <1>2, <1>3, <1>5, <3>1
  <2>5. u.data = [offset |-> o.data.offset, length |-> o.data.length + g]
    <3>1. b.end - b.first = (a.end - a.first) + g
      BY <1>1, <2>2
    <3>2. o.data.length = a.end - a.first
      BY <1>2
    <3> HIDE DEF g
    <3> QED  BY <1>3, <1>4, <2>2, <3>1, <3>2
  <2> HIDE DEF g, c
  <2>6. u.selector = o.selector /\ u.selection = o.selection
        /\ u.data_bytes = o.data_bytes + c /\ o.data_bytes > HeaderBytes
    BY <1>2, <1>3, <1>5, <2>2
  <2>9. Len(o.range) = 2 * RangeBytes
    <3> DEFINE m == 2 * RangeBytes
    <3>1. m \in Nat /\ m <= Len(a.header) /\ a.header \in Seq(0..255)
      BY <1>1, TopologyConstants DEF Payload
    <3> HIDE DEF m
    <3>2. Len(SubSeq(a.header, 1, m)) = m
      BY <3>1
    <3> QED  BY <1>2, <3>2 DEF m
  <2>7. ~(o.data.offset < D) /\ ~(o.data.offset > D)
    BY <1>1, <1>4, <1>6
  <2>8. ObsMoves(edit, n, whole, o, u)
    BY <2>3, <2>4, <2>5, <2>6, <2>7, <2>9, Zenon DEF ObsMoves, g, c, D
  <2> QED  BY <2>8 DEF o, u
<1>7. CASE a.first # D
  <2>1. ~AtTarget(edit, a)
    BY <1>7 DEF AtTarget
  <2>2. /\ b.header = a.header /\ b.data_bytes = a.data_bytes
        /\ b.selection = Shifted(a.selection, g)
        /\ a.first > D /\ b.first = a.first + g /\ b.end = a.end + g
    BY <1>1, <2>1 DEF RecMoves
  <2>3. u.range = o.range /\ u.source = o.source /\ u.flags = o.flags
        /\ u.selector = o.selector /\ u.selection = Shifted(o.selection, g)
        /\ u.data_bytes = o.data_bytes
    BY <1>2, <1>3, <1>5, <2>2
  <2>4. u.data = Shifted(o.data, g)
    <3>1. b.end - b.first = a.end - a.first
      BY <1>1, <2>2
    <3>2. o.data.length = a.end - a.first
      BY <1>2
    <3> HIDE DEF g
    <3> QED  BY <1>3, <1>4, <2>2, <3>1, <3>2 DEF Shifted
  <2>5. ~(o.data.offset < D) /\ ~(o.data.offset = D)
    BY <1>1, <1>4, <2>2
  <2> HIDE DEF g, c
  <2>6. ObsMoves(edit, n, whole, o, u)
    BY <2>3, <2>4, <2>5, Zenon DEF ObsMoves, g, D
  <2> QED  BY <2>6 DEF o, u
<1> QED  BY <1>6, <1>7


(* One more record on each side.                                           *)
LEMMA SeenGrows ==
  ASSUME NEW edit, NEW n, NEW whole, NEW old \in Seq(Observation), NEW new \in Seq(Observation),
         SeenMoves(edit, n, whole, old, new), NEW o \in Observation, NEW u \in Observation,
         ObsMoves(edit, n, whole, o, u)
  PROVE  SeenMoves(edit, n, whole, Append(old, o), Append(new, u))
<1> DEFINE m == Len(old)
           x == Append(old, o)
           y == Append(new, u)
<1>1. m \in Nat /\ Len(new) = m /\ \A j \in 1..m : ObsMoves(edit, n, whole, old[j], new[j])
  BY DEF SeenMoves
<1>2. /\ Len(x) = m + 1 /\ Len(y) = m + 1 /\ x[m + 1] = o /\ y[m + 1] = u
      /\ \A j \in 1..m : x[j] = old[j] /\ y[j] = new[j]
  BY <1>1
<1> HIDE DEF m, x, y
<1>3. ASSUME NEW j \in 1..(m + 1) PROVE ObsMoves(edit, n, whole, x[j], y[j])
  <2>1. CASE j = m + 1
    BY <1>2, <2>1
  <2>2. CASE j # m + 1
    <3>1. j \in 1..m
      BY <1>1, <2>2
    <3> QED  BY <1>1, <1>2, <3>1
  <2> QED  BY <2>1, <2>2
<1> QED  BY <1>2, <1>3 DEF SeenMoves, x, y

(* Finishing the record being gathered, on both sides.                     *)
LEMMA FinishMoves ==
  ASSUME NEW edit, Placed(edit), NEW n \in Nat, NEW whole \in BOOLEAN, NEW pos \in Nat,
         NEW s \in Stream, NEW v \in Stream, s.status = "ok", v.status = "ok",
         Gathered(s.record, pos), SeenMoves(edit, n, whole, s.seen, v.seen),
         RecMoves(edit, n, whole, pos, s.record, v.record), FinishRecord(s).status = "ok",
         FinishRecord(s) \in Stream, FinishRecord(v) \in Stream
  PROVE  /\ FinishRecord(v).status = "ok"
         /\ SeenMoves(edit, n, whole, FinishRecord(s).seen, FinishRecord(v).seen)
         /\ FinishRecord(s).record = NoRecord /\ FinishRecord(v).record = NoRecord
<1> DEFINE a == s.record
           b == v.record
           x == FinishRecord(s)
           y == FinishRecord(v)
<1>1. a \in Gathering /\ b \in Gathering /\ s.seen \in Seq(Observation)
      /\ v.seen \in Seq(Observation) /\ x.seen \in Seq(Observation)
  BY StreamFields
<1>2. b.have_data = a.have_data /\ a.have_data \in BOOLEAN /\ b.have_data \in BOOLEAN
  BY <1>1 DEF RecMoves, Gathering
<1> HIDE DEF x
<1>3. /\ x.record = NoRecord
      /\ ~a.have_data => x.seen = s.seen
      /\ a.have_data => Len(a.header) = HeaderBytes /\ x.seen = Append(s.seen, Observed(a))
  BY FinishedFields DEF x
<1>4. y.status = "ok"
  <2>1. CASE ~b.have_data
    <3>1. y = [v EXCEPT !.record = NoRecord]
      BY <2>1 DEF FinishRecord
    <3> QED  BY <3>1 DEF Stream
  <2>2. CASE b.have_data
    <3>1. Len(b.header) = HeaderBytes
      <4>1. CASE AtTarget(edit, a)
        <5>1. a.header \in Payload /\ b.header = Rewritten(n, whole, a.header)
              /\ Len(a.header) = HeaderBytes
          BY <1>1, <4>1 DEF RecMoves, Gathering, Payload
        <5> QED  BY <5>1, RewrittenIs
      <4>2. CASE ~AtTarget(edit, a)
        BY <1>2, <1>3, <2>2, <4>2 DEF RecMoves
      <4> QED  BY <4>1, <4>2
    <3>2. y = [v EXCEPT !.record = NoRecord, !.seen = Append(@, Observed(v.record))]
      BY <2>2, <3>1 DEF FinishRecord
    <3> QED  BY <3>2 DEF Stream
  <2> QED  BY <2>1, <2>2
<1> HIDE DEF y
<1>5. /\ y.record = NoRecord
      /\ ~b.have_data => y.seen = v.seen
      /\ b.have_data => y.seen = Append(v.seen, Observed(b))
  BY <1>4, FinishedFields DEF y
<1>6. y.seen \in Seq(Observation)
  BY StreamFields DEF y
<1>7. SeenMoves(edit, n, whole, x.seen, y.seen)
  <2>1. CASE ~a.have_data
    BY <1>2, <1>3, <1>5, <2>1
  <2>2. CASE a.have_data
    <3> DEFINE o == Observed(a)
               u == Observed(b)
    <3>1. ObsMoves(edit, n, whole, o, u)
      <4> HIDE DEF a, b
      <4>1. Gathered(a, pos) /\ RecMoves(edit, n, whole, pos, a, b)
        BY DEF a, b
      <4> QED  BY <1>1, <1>3, <2>2, <4>1, ObservedMoves
    <3>2. x.seen = Append(s.seen, o) /\ y.seen = Append(v.seen, u)
      BY <1>2, <1>3, <1>5, <2>2
    <3> HIDE DEF o, u
    <3>3. o \in Observation /\ u \in Observation
      <4>1. Append(s.seen, o) \in Seq(Observation) /\ Append(v.seen, u) \in Seq(Observation)
        BY <1>1, <1>6, <3>2
      <4>2. /\ Len(s.seen) \in Nat /\ Append(s.seen, o)[Len(s.seen) + 1] = o
            /\ Len(Append(s.seen, o)) = Len(s.seen) + 1
            /\ Len(v.seen) \in Nat /\ Append(v.seen, u)[Len(v.seen) + 1] = u
            /\ Len(Append(v.seen, u)) = Len(v.seen) + 1
        BY <1>1
      <4>3. o \in Observation
        <5>1. Len(s.seen) + 1 \in 1..Len(Append(s.seen, o))
          BY <4>2
        <5> QED  BY <4>1, <4>2, <5>1, SampleRange
      <4>4. u \in Observation
        <5>1. Len(v.seen) + 1 \in 1..Len(Append(v.seen, u))
          BY <4>2
        <5> QED  BY <4>1, <4>2, <5>1, SampleRange
      <4> QED  BY <4>3, <4>4
    <3> QED  BY <1>1, <3>1, <3>2, <3>3, SeenGrows
  <2> QED  BY <2>1, <2>2
<1> QED  BY <1>3, <1>4, <1>5, <1>7 DEF x, y


StreamMoves(edit, n, whole, pos, s, v) ==
  /\ v.status = "ok" /\ SeenMoves(edit, n, whole, s.seen, v.seen)
  /\ RecMoves(edit, n, whole, pos, s.record, v.record)

(* A record that starts well.                                              *)
LEMMA StartGoes ==
  ASSUME NEW s \in Stream, NEW p, NEW pos, FinishRecord(s) \in Stream
  PROVE  StartRecord(s, p, pos).status = "ok" <=>
           FinishRecord(s).status = "ok" /\ Len(p.payload) = 1
<1> DEFINE f    == FinishRecord(s)
           g    == [NoRecord EXCEPT !.active = TRUE, !.selector = p.payload[1],
                                    !.selection = [offset |-> pos, length |-> WireLen(p)]]
           t    == StartRecord(s, p, pos)
<1> HIDE DEF f
<1>1. t = IF f.status # "ok" THEN f
          ELSE IF Len(p.payload) # 1 THEN [f EXCEPT !.status = "frame"]
          ELSE [f EXCEPT !.record = g]
  BY DEF StartRecord, f
<1>2. f \in Stream
  BY DEF f
<1> HIDE DEF g, t
<1>3. [f EXCEPT !.status = "frame"].status = "frame" /\ [f EXCEPT !.record = g].status = f.status
  BY <1>2 DEF Stream
<1> QED  BY <1>1, <1>3 DEF f, t

(* Data that a record takes well.                                          *)
LEMMA AppendGoes ==
  ASSUME NEW s \in Stream, s.status = "ok", s.record.active, NEW p, NEW pos
  PROVE  AppendData(s, p, pos).status = "ok"
<1> DEFINE r == s.record
           g == [r EXCEPT
             !.first = IF s.record.have_data THEN @ ELSE pos, !.have_data  = TRUE,
             !.end = pos + WireLen(p),
             !.header = SubSeq(@ \o p.payload, 1,
                               Smaller(HeaderBytes, Len(@) + Len(p.payload))),
             !.data_bytes = @ + Len(p.payload)]
           u == [s EXCEPT !.record = g]
<1>1. AppendData(s, p, pos) = u
  BY StreamFields DEF AppendData, Stream, Gathering
<1> HIDE DEF g
<1>2. u.status = s.status
  BY DEF Stream
<1> QED  BY <1>1, <1>2

(* Starting a record, on both sides.                                       *)
LEMMA StartMoves ==
  ASSUME NEW edit, Placed(edit), NEW n \in Nat, NEW whole \in BOOLEAN, NEW pos \in Nat,
         NEW later \in Nat, later = pos + GrowthBytes(edit),
         NEW s, NEW v, StreamInv(s, pos), StreamInv(v, later), s.status = "ok",
         StreamMoves(edit, n, whole, pos, s, v), NEW p \in Packet,
         NEW t, t = StartRecord(s, p, pos), t.status = "ok",
         NEW w, w = StartRecord(v, p, later)
  PROVE  StreamMoves(edit, n, whole, pos + WireLen(p), t, w)
<1>1. /\ s \in Stream /\ v \in Stream /\ v.status = "ok" /\ Gathered(s.record, pos)
      /\ SeenMoves(edit, n, whole, s.seen, v.seen)
      /\ RecMoves(edit, n, whole, pos, s.record, v.record)
  BY DEF StreamInv, StreamMoves
<1>2. FinishRecord(s) \in Stream /\ FinishRecord(v) \in Stream
  <2>1. StreamInv(FinishRecord(s), pos) /\ StreamInv(FinishRecord(v), later)
    BY <1>1, FinishKeeps
  <2> QED  BY <2>1 DEF StreamInv
<1>3. FinishRecord(s).status = "ok" /\ Len(p.payload) = 1
  BY <1>1, <1>2, StartGoes
<1>4. /\ FinishRecord(v).status = "ok"
      /\ SeenMoves(edit, n, whole, FinishRecord(s).seen, FinishRecord(v).seen)
  BY <1>1, <1>2, <1>3, FinishMoves
<1>5. w.status = "ok"
  BY <1>1, <1>2, <1>3, <1>4, StartGoes
<1>6. t.seen = FinishRecord(s).seen /\ Begun(p, pos, t)
  BY <1>1, <1>2, StartedFields
<1>7. w.seen = FinishRecord(v).seen /\ Begun(p, later, w)
  BY <1>1, <1>2, <1>5, StartedFields
<1>8. w.record.selection = Shifted(t.record.selection, GrowthBytes(edit))
  BY <1>6, <1>7 DEF Shifted, Begun
<1>9. RecMoves(edit, n, whole, pos + WireLen(p), t.record, w.record)
  BY <1>6, <1>7, <1>8, Zenon DEF RecMoves, AtTarget, Begun
<1> QED  BY <1>4, <1>5, <1>6, <1>7, <1>9 DEF StreamMoves

(* Data of another record, on both sides.                                  *)
LEMMA DataMoves ==
  ASSUME NEW edit, Placed(edit), NEW n \in Nat, NEW whole \in BOOLEAN, NEW pos \in Nat,
         NEW later \in Nat, later = pos + GrowthBytes(edit), pos >= SpanEnd(edit.data),
         NEW s, NEW v, StreamInv(s, pos), StreamInv(v, later), s.status = "ok",
         StreamMoves(edit, n, whole, pos, s, v), NEW p \in Packet,
         ~AtTarget(edit, s.record),
         NEW t, t = AppendData(s, p, pos), t.status = "ok",
         NEW w, w = AppendData(v, p, later)
  PROVE  StreamMoves(edit, n, whole, pos + WireLen(p), t, w)
<1> DEFINE a == s.record
           b == v.record
           g == GrowthBytes(edit)
           D == edit.data.offset
           m == Len(p.payload)
<1>1. /\ s \in Stream /\ v \in Stream /\ v.status = "ok"
      /\ SeenMoves(edit, n, whole, s.seen, v.seen)
      /\ RecMoves(edit, n, whole, pos, a, b)
  BY DEF StreamInv, StreamMoves
<1>2. a \in Gathering /\ b \in Gathering /\ D \in Nat /\ g \in Nat /\ pos > D
      /\ a.first \in Nat /\ a.have_data \in BOOLEAN /\ WireLen(p) \in Nat
  <2>1. a \in Gathering /\ b \in Gathering /\ WireLen(p) \in Nat
    BY <1>1, StreamFields, WireLenIs
  <2>2. D \in Nat /\ g \in Nat /\ SpanEnd(edit.data) \in Nat /\ D < SpanEnd(edit.data)
    BY DEF Placed
  <2>3. a.first \in Nat /\ a.have_data \in BOOLEAN
    <3> HIDE DEF a
    <3> QED  BY <2>1 DEF Gathering
  <2> HIDE DEF a, b, D, g
  <2> QED  BY <2>1, <2>2, <2>3
<1>3. Extended(s, p, pos, t)
  BY <1>1, AppendedFields
<1>4. /\ b.active = TRUE /\ b.have_data = a.have_data /\ b.selector = a.selector
      /\ b.unknown_extension = a.unknown_extension
      /\ b.header = a.header /\ b.data_bytes = a.data_bytes
      /\ b.selection = Shifted(a.selection, g)
      /\ a.have_data => a.first > D /\ b.first = a.first + g
  BY <1>1, <1>3 DEF RecMoves, Extended
<1>5. w.status = "ok"
  BY <1>1, <1>4, AppendGoes
<1>6. Extended(v, p, later, w)
  BY <1>1, <1>5, AppendedFields
<1>7. t.record.first > D /\ w.record.first = t.record.first + g
  BY <1>2, <1>3, <1>4, <1>6 DEF Extended
<1>8. w.record.end = t.record.end + g
  BY <1>2, <1>3, <1>6 DEF Extended
<1>9. ~AtTarget(edit, t.record)
  BY <1>2, <1>3, <1>7 DEF AtTarget, Extended
<1>10. /\ w.record.header = t.record.header /\ w.record.data_bytes = t.record.data_bytes
       /\ w.record.active = t.record.active /\ w.record.have_data = t.record.have_data
       /\ w.record.selector = t.record.selector
       /\ w.record.unknown_extension = t.record.unknown_extension
       /\ w.record.selection = Shifted(t.record.selection, g)
  <2> HIDE DEF a, b, g
  <2>1. t.record.header = SubSeq(a.header \o p.payload, 1, Smaller(HeaderBytes, Len(a.header) + m))
        /\ t.record.data_bytes = a.data_bytes + m
    BY <1>3, Zenon DEF Extended, a, m
  <2>2. w.record.header = SubSeq(b.header \o p.payload, 1, Smaller(HeaderBytes, Len(b.header) + m))
        /\ w.record.data_bytes = b.data_bytes + m
    BY <1>6, Zenon DEF Extended, b, m
  <2>3. w.record.header = t.record.header /\ w.record.data_bytes = t.record.data_bytes
    BY <1>4, <2>1, <2>2, Zenon
  <2>4. /\ t.record.active = TRUE /\ t.record.have_data = TRUE
        /\ t.record.selector = a.selector /\ t.record.selection = a.selection
        /\ t.record.unknown_extension = a.unknown_extension
    BY <1>3, Zenon DEF Extended, a
  <2>5. /\ w.record.active = TRUE /\ w.record.have_data = TRUE
        /\ w.record.selector = b.selector /\ w.record.selection = b.selection
        /\ w.record.unknown_extension = b.unknown_extension
    BY <1>6, Zenon DEF Extended, b
  <2> QED  BY <1>4, <2>3, <2>4, <2>5, Zenon
<1>11. RecMoves(edit, n, whole, pos + WireLen(p), t.record, w.record)
  BY <1>7, <1>8, <1>9, <1>10, Zenon DEF RecMoves
<1> QED  BY <1>1, <1>3, <1>5, <1>6, <1>11 DEF StreamMoves, Extended

(* A packet, on both sides, outside the target.                            *)
LEMMA NoteMoves ==
  ASSUME NEW edit, Placed(edit), NEW n \in Nat, NEW whole \in BOOLEAN, NEW pos \in Nat,
         NEW later \in Nat, NEW next,
         NEW s, NEW v, StreamInv(s, pos), StreamInv(v, later), s.status = "ok",
         StreamMoves(edit, n, whole, pos, s, v), ~AtTarget(edit, s.record),
         NEW x \in BOOLEAN,
         NEW t, t = [s EXCEPT !.record.unknown_extension = x],
         NEW w, w = [v EXCEPT !.record.unknown_extension = x]
  PROVE  StreamMoves(edit, n, whole, next, t, w)
<1> DEFINE a == s.record
           b == v.record
<1>1. /\ s \in Stream /\ v \in Stream /\ v.status = "ok"
      /\ SeenMoves(edit, n, whole, s.seen, v.seen)
      /\ RecMoves(edit, n, whole, pos, a, b)
  BY DEF StreamInv, StreamMoves
<1>4. Noted(s, x, t)
  BY <1>1, NotedFields
<1>5. Noted(v, x, w)
  BY <1>1, NotedFields
<1>6. w.status = "ok"
  BY <1>1 DEF Stream
<1>7. ~AtTarget(edit, t.record)
  BY <1>4 DEF AtTarget, Noted
<1>8. RecMoves(edit, n, whole, next, t.record, w.record)
  <2> DEFINE c == t.record
             d == w.record
  <2>1. /\ b.active = a.active /\ b.have_data = a.have_data /\ b.selector = a.selector
        /\ b.header = a.header /\ b.data_bytes = a.data_bytes
        /\ a.active => b.selection = Shifted(a.selection, GrowthBytes(edit))
        /\ a.have_data => /\ a.first > edit.data.offset
                          /\ b.first = a.first + GrowthBytes(edit)
                          /\ b.end = a.end + GrowthBytes(edit)
    BY <1>1, Zenon DEF RecMoves
  <2>2. /\ d.active = c.active /\ d.have_data = c.have_data /\ d.selector = c.selector
        /\ d.unknown_extension = c.unknown_extension
        /\ d.header = c.header /\ d.data_bytes = c.data_bytes
        /\ c.active => d.selection = Shifted(c.selection, GrowthBytes(edit))
        /\ c.have_data => /\ c.first > edit.data.offset
                          /\ d.first = c.first + GrowthBytes(edit)
                          /\ d.end = c.end + GrowthBytes(edit)
    <3> HIDE DEF c, d
    <3> QED  BY <1>4, <1>5, <2>1, Zenon DEF c, d, Noted
  <2> HIDE DEF c, d
  <2>3. RecMoves(edit, n, whole, next, c, d)
    BY <1>7, <2>2, Zenon DEF RecMoves, c
  <2> QED  BY <2>3 DEF c, d
<1> QED  BY <1>1, <1>4, <1>5, <1>6, <1>8 DEF StreamMoves, Noted

(* One turn of both parsers, outside the target.                           *)
LEMMA PastStep ==
  ASSUME NEW edit, Placed(edit), NEW n \in Nat, NEW whole \in BOOLEAN,
         NEW q \in Parsers, NEW r \in Parsers, Past(edit, n, whole, q, r), q.count # 0,
         NEW p \in Packet, p.tag \notin {"begin", "end"},
         AtTarget(edit, q.stream.record) => p.tag = "select",
         NEW u, u = ParseStep(q, p), u.status = "more", NEW v, v = ParseStep(r, p)
  PROVE  Past(edit, n, whole, u, v)
<1> DEFINE pos == q.pos
           later == r.pos
           w == WireLen(p)
           s == q.stream
           z == r.stream
           t == TopologyPacket(s, p, pos)
           x == TopologyPacket(z, p, later)
           g == GrowthBytes(edit)
<1>1. /\ q.status = "more" /\ r.status = "more" /\ r.count # 0 /\ z.status = "ok"
      /\ pos >= SpanEnd(edit.data) /\ later = pos + g
      /\ SeenMoves(edit, n, whole, s.seen, z.seen)
      /\ RecMoves(edit, n, whole, pos, s.record, z.record)
  BY DEF Past
<1>2. /\ pos \in Nat /\ later \in Nat /\ q.count \in Nat /\ r.count \in Nat
      /\ s \in Stream /\ z \in Stream /\ StreamInv(s, pos) /\ StreamInv(z, later)
  BY ParserFacts
<1>3. s.status = "ok"
  BY <1>1 DEF Parsers
<1>4. ~Misplaced(q.count, p) /\ Turn(q, p, u)
  <2>1. Going(u)
    BY DEF Going
  <2> QED  BY <1>1, <2>1, TurnIs
<1>5. t.status = "ok" /\ u.stream = t /\ u.pos = pos + w /\ u.count = q.count + 1
  BY <1>4 DEF Turn
<1>6. ~Misplaced(r.count, p)
  BY <1>1, <1>4 DEF Misplaced
<1>7. StreamMoves(edit, n, whole, pos, s, z)
  BY <1>1 DEF StreamMoves
<1>8. StreamMoves(edit, n, whole, pos + w, t, x)
  <2> HIDE DEF s, z, pos, later
  <2>1. CASE p.tag = "select"
    <3>1. t = StartRecord(s, p, pos) /\ x = StartRecord(z, p, later)
      BY <2>1 DEF TopologyPacket
    <3> HIDE DEF t, x
    <3> QED  BY <1>1, <1>2, <1>3, <1>5, <1>7, <3>1, StartMoves
  <2>2. CASE p.tag = "data"
    <3>1. t = AppendData(s, p, pos) /\ x = AppendData(z, p, later)
          /\ ~AtTarget(edit, s.record)
      BY <2>2 DEF TopologyPacket, s
    <3> HIDE DEF t, x
    <3> QED  BY <1>1, <1>2, <1>3, <1>5, <1>7, <3>1, DataMoves
  <2>3. CASE p.tag \notin {"select", "data"}
    <3> DEFINE b == s.record.unknown_extension \/ s.record.active
    <3>1. t = [s EXCEPT !.record.unknown_extension = b] /\ ~AtTarget(edit, s.record)
      <4>1. TopologyPacket(s, p, pos)
              = [s EXCEPT !.record.unknown_extension = @ \/ s.record.active]
        BY <2>3 DEF TopologyPacket
      <4> QED  BY <2>3, <4>1 DEF s
    <3>2. /\ z.record.unknown_extension = s.record.unknown_extension
          /\ z.record.active = s.record.active /\ b \in BOOLEAN
      BY <1>1, <1>2, StreamFields DEF RecMoves, Gathering
    <3>3. x = [z EXCEPT !.record.unknown_extension = b]
      <4>1. TopologyPacket(z, p, later)
              = [z EXCEPT !.record.unknown_extension = @ \/ z.record.active]
        BY <2>3 DEF TopologyPacket
      <4>2. x = [z EXCEPT !.record.unknown_extension =
                          z.record.unknown_extension \/ z.record.active]
        BY <4>1
      <4> QED  BY <3>2, <4>2
    <3> HIDE DEF t, x, b
    <3> QED  BY <1>1, <1>2, <1>3, <1>5, <1>7, <3>1, <3>2, <3>3, NoteMoves
  <2>4. p.tag \in Tags
    BY DEF Packet
  <2> QED  BY <2>1, <2>2, <2>3
<1> HIDE DEF x
<1>9. x.status = "ok" /\ SeenMoves(edit, n, whole, t.seen, x.seen)
      /\ RecMoves(edit, n, whole, pos + w, t.record, x.record)
  BY <1>8 DEF StreamMoves
<1>10. Turn(r, p, v)
  BY <1>1, <1>6, <1>9, TurnIs DEF x
<1>11. v.stream = x /\ v.pos = later + w /\ v.count = r.count + 1 /\ v.status = "more"
  BY <1>10 DEF Turn, x
<1>12. w \in Nat /\ g \in Nat /\ SpanEnd(edit.data) \in Nat
  BY WireLenIs DEF Placed
<1>13. u.pos >= SpanEnd(edit.data) /\ v.pos = u.pos + g /\ v.count # 0
  <2> HIDE DEF w, g, pos, later
  <2> QED  BY <1>1, <1>2, <1>5, <1>11, <1>12
<1> HIDE DEF t, w, pos, later
<1> QED  BY <1>5, <1>9, <1>11, <1>13 DEF Past

(* At END both are done, with records that correspond.                     *)
LEMMA PastEnd ==
  ASSUME NEW edit, Placed(edit), NEW n \in Nat, NEW whole \in BOOLEAN,
         NEW q \in Parsers, NEW r \in Parsers, Past(edit, n, whole, q, r), q.count # 0,
         NEW p \in Packet, p.tag = "end",
         NEW u, u = ParseStep(q, p), u.status = "done", NEW v, v = ParseStep(r, p)
  PROVE  /\ v.status = "done" /\ v.stream.status = "ok" /\ v.count = r.count + 1
         /\ SeenMoves(edit, n, whole, u.stream.seen, v.stream.seen)
<1> DEFINE pos == q.pos
           later == r.pos
           s == q.stream
           z == r.stream
           t == FinishRecord(s)
           x == FinishRecord(z)
<1>1. /\ q.status = "more" /\ r.status = "more" /\ r.count # 0 /\ z.status = "ok"
      /\ SeenMoves(edit, n, whole, s.seen, z.seen)
      /\ RecMoves(edit, n, whole, pos, s.record, z.record)
  BY DEF Past
<1>2. /\ pos \in Nat /\ later \in Nat /\ q.count \in Nat /\ r.count \in Nat
      /\ s \in Stream /\ z \in Stream /\ StreamInv(s, pos) /\ StreamInv(z, later)
  BY ParserFacts
<1>3. s.status = "ok"
  BY <1>1 DEF Parsers
<1>4. ~Misplaced(q.count, p) /\ Turn(q, p, u)
  <2>1. Going(u)
    BY DEF Going
  <2> QED  BY <1>1, <2>1, TurnIs
<1>5. TopologyPacket(s, p, pos) = t /\ TopologyPacket(z, p, later) = x
  BY DEF TopologyPacket
<1>6. t.status = "ok" /\ u.stream = t
  BY <1>4, <1>5 DEF Turn
<1>7. ~Misplaced(r.count, p)
  BY <1>1, <1>4 DEF Misplaced
<1>8. t \in Stream /\ x \in Stream
  <2>1. StreamInv(t, pos) /\ StreamInv(x, later)
    BY <1>1, <1>2, <1>3, FinishKeeps
  <2> QED  BY <2>1 DEF StreamInv
<1>9. x.status = "ok" /\ SeenMoves(edit, n, whole, t.seen, x.seen)
  <2>1. Gathered(s.record, pos)
    BY <1>2 DEF StreamInv
  <2> HIDE DEF s, z, pos
  <2> QED  BY <1>1, <1>2, <1>3, <1>6, <1>8, <2>1, FinishMoves
<1> HIDE DEF x, t
<1>10. Turn(r, p, v)
  BY <1>1, <1>5, <1>7, <1>9, TurnIs
<1>11. v.stream = x /\ v.status = "done" /\ v.count = r.count + 1
  BY <1>5, <1>10 DEF Turn
<1> QED  BY <1>6, <1>9, <1>11

(* A payload with what a full edit writes into the header.                 *)
SameButHeader(n, whole, logical, a, c) ==
  /\ Len(c) = Len(a)
  /\ \A j \in 1..Len(a) :
       logical + j <= HeaderBytes => c[j] = HeaderByte(n, whole, logical + j, a[j])

HeaderMore(h, a) == SubSeq(h \o a, 1, Smaller(HeaderBytes, Len(h) + Len(a)))

(* A header takes what it still lacks.                                     *)
LEMMA HeaderMoreIs ==
  ASSUME NEW h \in Payload, NEW a \in Payload
  PROVE  LET x == HeaderMore(h, a)
             l == Smaller(HeaderBytes, Len(h) + Len(a))
         IN  /\ x \in Payload /\ Len(x) = l /\ Len(h) \in Nat /\ Len(a) \in Nat /\ l \in Nat
             /\ \A j \in 1..Len(h) : j <= l => x[j] = h[j]
             /\ \A j \in 1..Len(a) : Len(h) + j <= l => x[Len(h) + j] = a[j]
<1> DEFINE m == HeaderBytes
           y == h \o a
           l == Smaller(m, Len(h) + Len(a))
           x == SubSeq(y, 1, Smaller(m, Len(y)))
<1>1. m \in Nat /\ Len(h) \in Nat /\ Len(a) \in Nat
  BY TopologyConstants, PayloadConcat
<1>2. y \in Payload /\ Len(y) = Len(h) + Len(a)
  BY PayloadConcat
<1>3. /\ \A j \in 1..Len(h) : y[j] = h[j]
      /\ \A j \in 1..Len(a) : y[Len(h) + j] = a[j]
  BY <1>2, SMTT(30) DEF Payload
<1>4. HeaderMore(h, a) = x
  BY <1>2 DEF HeaderMore
<1> HIDE DEF m, y
<1>5. x \in Payload /\ Len(x) = Smaller(m, Len(y)) /\ \A j \in 1..Smaller(m, Len(y)) : x[j] = y[j]
  BY <1>1, <1>2, PrefixOf, ZenonT(90)
<1>6. l = Smaller(m, Len(y)) /\ l \in Nat
  BY <1>1, <1>2 DEF Smaller
<1> HIDE DEF x, l
<1>7. \A j \in 1..Len(h) : j <= l => x[j] = h[j]
  <2> TAKE j \in 1..Len(h)
  <2> HAVE j <= l
  <2>1. j \in 1..l
    BY <1>1, <1>6
  <2> QED  BY <1>3, <1>5, <1>6, <2>1
<1>8. \A j \in 1..Len(a) : Len(h) + j <= l => x[Len(h) + j] = a[j]
  <2> TAKE j \in 1..Len(a)
  <2> HAVE Len(h) + j <= l
  <2>1. Len(h) + j \in 1..l
    BY <1>1, <1>6
  <2> QED  BY <1>3, <1>5, <1>6, <2>1
<1> QED  BY <1>1, <1>4, <1>5, <1>6, <1>7, <1>8 DEF m, l

(* The header gathered of a payload and of the payload rewritten.          *)
LEMMA HeaderMoves ==
  ASSUME NEW n \in Nat, NEW whole \in BOOLEAN, NEW logical \in Nat,
         NEW h \in Payload, Len(h) = Smaller(HeaderBytes, logical),
         NEW a \in Payload, NEW c \in Payload, SameButHeader(n, whole, logical, a, c)
  PROVE  /\ Len(HeaderMore(h, a)) = Smaller(HeaderBytes, logical + Len(a))
         /\ HeaderMore(Rewritten(n, whole, h), c) = Rewritten(n, whole, HeaderMore(h, a))
<1> DEFINE m == HeaderBytes
           g == Rewritten(n, whole, h)
           x == HeaderMore(h, a)
           y == HeaderMore(g, c)
           z == Rewritten(n, whole, x)
           l == Smaller(m, Len(h) + Len(a))
           R(j, b) == HeaderByte(n, whole, j, b)
<1>1. m \in Nat /\ Len(c) = Len(a)
      /\ \A j \in 1..Len(a) : logical + j <= m => c[j] = R(logical + j, a[j])
  BY TopologyConstants DEF SameButHeader
<1>2. g \in Payload /\ Len(g) = Len(h) /\ \A j \in 1..Len(h) : g[j] = R(j, h[j])
  BY RewrittenIs
<1>3. /\ x \in Payload /\ Len(x) = l /\ Len(h) \in Nat /\ Len(a) \in Nat /\ l \in Nat
      /\ \A j \in 1..Len(h) : j <= l => x[j] = h[j]
      /\ \A j \in 1..Len(a) : Len(h) + j <= l => x[Len(h) + j] = a[j]
  BY HeaderMoreIs
<1>4. l <= m
  BY <1>1, <1>3 DEF Smaller
<1> HIDE DEF g, m, l
<1>5. /\ y \in Payload /\ Len(y) = Smaller(m, Len(g) + Len(c))
      /\ \A j \in 1..Len(g) : j <= Smaller(m, Len(g) + Len(c)) => y[j] = g[j]
      /\ \A j \in 1..Len(c) : Len(g) + j <= Smaller(m, Len(g) + Len(c)) => y[Len(g) + j] = c[j]
  BY <1>2, HeaderMoreIs DEF m
<1>6. Smaller(m, Len(g) + Len(c)) = l
  BY <1>1, <1>2 DEF l
<1> HIDE DEF x, y
<1>7. z \in Payload /\ Len(z) = Len(x) /\ \A j \in 1..Len(x) : z[j] = R(j, x[j])
  BY <1>3, RewrittenIs
<1> HIDE DEF z, R
<1>8. ASSUME NEW j \in 1..l PROVE y[j] = z[j]
  <2>1. z[j] = R(j, x[j])
    BY <1>3, <1>7
  <2>2. CASE j <= Len(h)
    <3>1. j \in 1..Len(h) /\ j <= l
      BY <1>3, <2>2
    <3> QED  BY <1>2, <1>3, <1>5, <1>6, <2>1, <3>1
  <2>3. CASE ~(j <= Len(h))
    <3> DEFINE i == j - Len(h)
    <3>1. Len(h) = logical
      BY <1>1, <1>3, <1>4, <2>3 DEF Smaller, m
    <3>2. i \in 1..Len(a) /\ j = Len(h) + i /\ j = logical + i /\ j <= m /\ j <= l
      BY <1>1, <1>3, <1>4, <2>3, <3>1 DEF Smaller, l
    <3> HIDE DEF i
    <3>3. x[Len(h) + i] = a[i] /\ y[Len(g) + i] = c[i] /\ c[i] = R(logical + i, a[i])
      BY <1>1, <1>2, <1>3, <1>5, <1>6, <3>2
    <3> QED  BY <1>2, <2>1, <3>2, <3>3
  <2> QED  BY <2>2, <2>3
<1>9. y = z
  BY <1>3, <1>5, <1>6, <1>7, <1>8, SameElements
<1>10. l = Smaller(m, logical + Len(a))
  BY <1>1, <1>3 DEF Smaller, l, m
<1> QED  BY <1>3, <1>9, <1>10 DEF x, y, z, g, m

(* A turn is as good as its packet.                                        *)
LEMMA DataTurn ==
  ASSUME NEW q \in Parsers, q.status = "more", q.count # 0, q.stream.record.active,
         NEW p \in Packet, p.tag = "data", NEW u, u = ParseStep(q, p)
  PROVE  /\ u.status = "more" /\ u.stream.status = "ok"
         /\ u.pos = q.pos + WireLen(p) /\ u.count = q.count + 1 /\ u.count # 0
         /\ Extended(q.stream, p, q.pos, u.stream)
<1> DEFINE s == q.stream
           t == AppendData(s, p, q.pos)
<1>1. q.pos \in Nat /\ q.count \in Nat /\ s \in Stream /\ s.status = "ok"
  BY ParserFacts DEF Parsers
<1>2. TopologyPacket(s, p, q.pos) = t
  BY DEF TopologyPacket
<1>3. t.status = "ok"
  BY <1>1, AppendGoes
<1>4. ~Misplaced(q.count, p)
  BY DEF Misplaced
<1>5. Turn(q, p, u)
  BY <1>2, <1>3, <1>4, TurnIs
<1> HIDE DEF t
<1>6. u.stream = t /\ u.pos = q.pos + WireLen(p) /\ u.count = q.count + 1 /\ u.status = "more"
  BY <1>2, <1>5 DEF Turn
<1>7. Extended(s, p, q.pos, t)
  BY <1>1, <1>3, AppendedFields DEF t
<1> QED  BY <1>1, <1>3, <1>6, <1>7

(* One turn of both parsers inside the target.                             *)
LEMMA InsideStep ==
  ASSUME NEW edit, Placed(edit), NEW n \in Nat, NEW whole \in BOOLEAN, NEW logical \in Nat,
         NEW q \in Parsers, NEW r \in Parsers, Inside(edit, n, whole, logical, q, r),
         q.count # 0, NEW p \in Packet, p.tag = "data", NEW d \in Packet, d.tag = "data",
         SameButHeader(n, whole, logical, p.payload, d.payload),
         NEW u, u = ParseStep(q, p), NEW v, v = ParseStep(r, d)
  PROVE  /\ Inside(edit, n, whole, logical + Len(p.payload), u, v)
         /\ u.stream.record.have_data = TRUE
<1> DEFINE a == q.stream.record
           b == r.stream.record
           c == u.stream.record
           e == v.stream.record
           w == WireLen(p)
           m == Len(p.payload)
           D == edit.data.offset
<1>1. /\ q.status = "more" /\ r.status = "more" /\ r.count # 0 /\ r.stream.status = "ok"
      /\ r.pos = q.pos /\ r.stream.seen = q.stream.seen
      /\ a.active /\ b.active = a.active /\ b.have_data = a.have_data
      /\ b.selector = a.selector /\ b.selection = a.selection
      /\ b.unknown_extension = a.unknown_extension
      /\ b.first = a.first /\ b.end = a.end
      /\ a.data_bytes = logical /\ b.data_bytes = logical
      /\ Len(a.header) = Smaller(HeaderBytes, logical)
      /\ b.header = Rewritten(n, whole, a.header)
      /\ a.have_data => a.first = D /\ a.end = q.pos
      /\ ~a.have_data => q.pos = D
  BY DEF Inside
<1>2. WireLen(d) = w /\ w \in Nat /\ m \in Nat /\ Len(d.payload) = m
      /\ p.payload \in Payload /\ d.payload \in Payload
  <2>1. Len(d.payload) = Len(p.payload)
    BY DEF SameButHeader
  <2> QED  BY <2>1, WireLenIs DEF Payload
<1>3. /\ u.status = "more" /\ u.stream.status = "ok" /\ u.pos = q.pos + w
      /\ Extended(q.stream, p, q.pos, u.stream)
  BY <1>1, DataTurn
<1>4. /\ v.status = "more" /\ v.stream.status = "ok" /\ v.pos = r.pos + w /\ v.count # 0
      /\ Extended(r.stream, d, r.pos, v.stream)
  <2>1. r.stream.record.active
    BY <1>1
  <2>2. /\ v.status = "more" /\ v.stream.status = "ok" /\ v.pos = r.pos + WireLen(d) /\ v.count # 0
        /\ Extended(r.stream, d, r.pos, v.stream)
    BY <1>1, <2>1, DataTurn
  <2> QED  BY <1>2, <2>2
<1>5. a.header \in Payload /\ a \in Gathering
  <2>1. a \in Gathering
    BY ParserFacts, StreamFields
  <2> HIDE DEF a
  <2> QED  BY <2>1 DEF Gathering, Payload
<1>6. /\ c.active = TRUE /\ c.selector = a.selector /\ c.selection = a.selection
      /\ c.have_data = TRUE /\ c.first = (IF a.have_data THEN a.first ELSE q.pos)
      /\ c.end = q.pos + w /\ c.header = HeaderMore(a.header, p.payload)
      /\ c.data_bytes = logical + m /\ c.unknown_extension = a.unknown_extension
      /\ u.stream.seen = q.stream.seen
  BY <1>1, <1>3 DEF Extended, HeaderMore
<1>7. /\ e.active = TRUE /\ e.selector = b.selector /\ e.selection = b.selection
      /\ e.have_data = TRUE /\ e.first = (IF b.have_data THEN b.first ELSE r.pos)
      /\ e.end = r.pos + w /\ e.header = HeaderMore(b.header, d.payload)
      /\ e.data_bytes = logical + m /\ e.unknown_extension = b.unknown_extension
      /\ v.stream.seen = r.stream.seen
  BY <1>1, <1>2, <1>4 DEF Extended, HeaderMore
<1> DEFINE g == a.header
<1>8. /\ Len(HeaderMore(g, p.payload)) = Smaller(HeaderBytes, logical + m)
      /\ HeaderMore(Rewritten(n, whole, g), d.payload)
           = Rewritten(n, whole, HeaderMore(g, p.payload))
  <2> DEFINE x == p.payload
             y == d.payload
  <2>1. /\ g \in Payload /\ Len(g) = Smaller(HeaderBytes, logical)
        /\ x \in Payload /\ y \in Payload /\ SameButHeader(n, whole, logical, x, y)
    BY <1>1, <1>2, <1>5
  <2> HIDE DEF g, x, y
  <2>2. /\ Len(HeaderMore(g, x)) = Smaller(HeaderBytes, logical + Len(x))
        /\ HeaderMore(Rewritten(n, whole, g), y) = Rewritten(n, whole, HeaderMore(g, x))
    BY <2>1, HeaderMoves
  <2> QED  BY <2>2 DEF x, y
<1>9. Len(c.header) = Smaller(HeaderBytes, logical + m)
      /\ e.header = Rewritten(n, whole, c.header)
  BY <1>1, <1>6, <1>7, <1>8
<1>10. /\ e.first = c.first /\ e.end = c.end /\ v.pos = u.pos
       /\ c.first = D /\ c.end = u.pos
  BY <1>1, <1>3, <1>4, <1>6, <1>7
<1> HIDE DEF a, b, c, e, w, m, D
<1>11. /\ e.active = c.active /\ e.have_data = c.have_data /\ e.selector = c.selector
       /\ e.selection = c.selection /\ e.unknown_extension = c.unknown_extension
       /\ v.stream.seen = u.stream.seen
  BY <1>1, <1>6, <1>7
<1> QED  BY <1>3, <1>4, <1>6, <1>7, <1>9, <1>10, <1>11 DEF Inside, a, b, c, e, m, D

(* A header of no bytes is rewritten to itself.                            *)
LEMMA NothingRewritten ==
  ASSUME NEW n \in Nat, NEW whole \in BOOLEAN
  PROVE  Rewritten(n, whole, <<>>) = <<>>
<1> DEFINE e == <<>>
           w == Rewritten(n, whole, e)
<1>1. e \in Payload /\ Len(e) = 0
  BY DEF Payload
<1> HIDE DEF e
<1>2. w \in Payload /\ Len(w) = 0
  BY <1>1, RewrittenIs
<1> HIDE DEF w
<1>3. \A j \in 1..0 : w[j] = e[j]
  OBVIOUS
<1>4. w = e
  BY <1>1, <1>2, <1>3, SameElements
<1> QED  BY <1>4 DEF w, e

(* The target's selector, on both sides.                                   *)
LEMMA InsideBegins ==
  ASSUME NEW edit, Placed(edit), NEW n \in Nat, NEW whole \in BOOLEAN,
         NEW q \in Parsers, q.status = "more", NEW p \in Packet, p.tag = "select",
         NEW u, u = ParseStep(q, p), u.status = "more", u.pos = edit.data.offset
  PROVE  Inside(edit, n, whole, 0, u, u)
<1> DEFINE s == q.stream
           t == StartRecord(s, p, q.pos)
           c == u.stream.record
<1>1. q.pos \in Nat /\ q.count \in Nat /\ s \in Stream /\ s.status = "ok"
      /\ FinishRecord(s) \in Stream
  <2>1. q.pos \in Nat /\ q.count \in Nat /\ s \in Stream /\ s.status = "ok" /\ StreamInv(s, q.pos)
    BY ParserFacts DEF Parsers
  <2>2. StreamInv(FinishRecord(s), q.pos)
    BY <2>1, FinishKeeps
  <2> QED  BY <2>1, <2>2 DEF StreamInv
<1>2. TopologyPacket(s, p, q.pos) = t
  BY DEF TopologyPacket
<1>3. Turn(q, p, u)
  <2>1. Going(u)
    BY DEF Going
  <2> QED  BY <2>1, TurnIs
<1> HIDE DEF t
<1>4. u.stream = t /\ t.status = "ok" /\ u.count = q.count + 1
  BY <1>2, <1>3 DEF Turn
<1>5. Begun(p, q.pos, t)
  BY <1>1, <1>4, StartedFields DEF t
<1>6. c.active = TRUE /\ c.header = <<>> /\ c.data_bytes = 0 /\ c.have_data = FALSE
  BY <1>4, <1>5 DEF Begun
<1>7. Smaller(HeaderBytes, 0) = 0
  BY TopologyConstants DEF Smaller
<1>8. c.header = Rewritten(n, whole, c.header) /\ Len(c.header) = 0
  BY <1>6, NothingRewritten
<1>9. u.count # 0 /\ u.stream.status = "ok"
  BY <1>1, <1>4
<1> HIDE DEF c
<1> QED  BY <1>6, <1>7, <1>8, <1>9, Zenon DEF Inside, c

-----------------------------------------------------------------------------
(* The growth packets lengthen the record and leave its header.            *)
Growing(r, bytes, wire, x) ==
  LET b == r.stream.record
      c == x.stream.record
  IN  /\ x.status = "more" /\ x.stream.status = "ok" /\ x.count # 0 /\ x.pos = r.pos + wire
      /\ x.stream.seen = r.stream.seen
      /\ c.active = TRUE /\ c.have_data = TRUE /\ c.selector = b.selector
      /\ c.selection = b.selection /\ c.unknown_extension = b.unknown_extension
      /\ c.first = b.first /\ c.end = b.end + wire /\ c.header = b.header
      /\ c.data_bytes = b.data_bytes + bytes

(* A header that is full stays as it is.                                   *)
LEMMA FullHeader ==
  ASSUME NEW h \in Payload, NEW a \in Payload, Len(h) = HeaderBytes
  PROVE  HeaderMore(h, a) = h
<1> DEFINE l == Smaller(HeaderBytes, Len(h) + Len(a))
           x == HeaderMore(h, a)
<1>1. /\ x \in Payload /\ Len(x) = l /\ Len(h) \in Nat /\ Len(a) \in Nat /\ l \in Nat
      /\ \A j \in 1..Len(h) : j <= l => x[j] = h[j]
  BY HeaderMoreIs
<1>2. l = Len(h)
  BY <1>1 DEF Smaller
<1> HIDE DEF l, x
<1>3. \A j \in 1..Len(h) : x[j] = h[j]
  BY <1>1, <1>2
<1>4. x = h
  BY <1>1, <1>2, <1>3, SameElements
<1> QED  BY <1>4 DEF x

(* One packet of growth, read by the new parser alone.                     *)
LEMMA GrowStep ==
  ASSUME NEW r \in Parsers, NEW x \in Parsers, NEW bytes \in Int, NEW wire \in Nat,
         Growing(r, bytes, wire, x), r.stream.record.end = r.pos,
         Len(r.stream.record.header) = HeaderBytes,
         NEW p \in Packet, p.tag = "data", NEW v, v = ParseStep(x, p)
  PROVE  Growing(r, bytes + Len(p.payload), wire + WireLen(p), v)
<1> DEFINE b == r.stream.record
           c == x.stream.record
           e == v.stream.record
           w == WireLen(p)
           m == Len(p.payload)
<1>1. /\ x.status = "more" /\ x.stream.status = "ok" /\ x.count # 0 /\ x.pos = r.pos + wire
      /\ x.stream.seen = r.stream.seen
      /\ c.active = TRUE /\ c.have_data = TRUE /\ c.selector = b.selector
      /\ c.selection = b.selection /\ c.unknown_extension = b.unknown_extension
      /\ c.first = b.first /\ c.end = b.end + wire /\ c.header = b.header
      /\ c.data_bytes = b.data_bytes + bytes
  BY DEF Growing
<1>2. w \in Nat /\ m \in Nat /\ p.payload \in Payload
  BY WireLenIs DEF Payload
<1>3. b \in Gathering /\ c \in Gathering /\ r.pos \in Nat
  BY ParserFacts, StreamFields
<1>4. b.header \in Payload /\ b.data_bytes \in Nat /\ b.end \in Nat
  <2> HIDE DEF b
  <2> QED  BY <1>3 DEF Gathering, Payload
<1>5. /\ v.status = "more" /\ v.stream.status = "ok" /\ v.pos = x.pos + w /\ v.count # 0
      /\ Extended(x.stream, p, x.pos, v.stream)
  <2>1. x.stream.record.active
    BY <1>1
  <2> QED  BY <1>1, <2>1, DataTurn
<1>6. HeaderMore(b.header, p.payload) = b.header
  <2> DEFINE h == b.header
             a == p.payload
  <2>1. h \in Payload /\ a \in Payload /\ Len(h) = HeaderBytes
    BY <1>2, <1>4
  <2> HIDE DEF h, a
  <2>2. HeaderMore(h, a) = h
    BY <2>1, FullHeader
  <2> QED  BY <2>2 DEF h, a
<1>7. /\ e.active = TRUE /\ e.selector = c.selector /\ e.selection = c.selection
      /\ e.have_data = TRUE /\ e.first = c.first
      /\ e.end = x.pos + w /\ e.header = HeaderMore(c.header, p.payload)
      /\ e.data_bytes = c.data_bytes + m /\ e.unknown_extension = c.unknown_extension
      /\ v.stream.seen = x.stream.seen
  BY <1>1, <1>5 DEF Extended, HeaderMore
<1>8. e.header = b.header
  BY <1>1, <1>6, <1>7
<1>9. b.end = r.pos
  OBVIOUS
<1> HIDE DEF b, c, e, w, m
<1>10. /\ v.pos = r.pos + (wire + w) /\ e.end = b.end + (wire + w)
       /\ e.data_bytes = b.data_bytes + (bytes + m)
  BY <1>1, <1>2, <1>3, <1>4, <1>5, <1>7, <1>9
<1>11. /\ e.selector = b.selector /\ e.selection = b.selection /\ e.first = b.first
       /\ e.unknown_extension = b.unknown_extension /\ v.stream.seen = r.stream.seen
  BY <1>1, <1>7
<1> QED  BY <1>5, <1>7, <1>8, <1>10, <1>11, Zenon DEF Growing, b, e, w, m

(* What the growth packets are: data, as many bytes as was planned.        *)
IsGrowth(edit, g) ==
  /\ g \in Seq(Packet) /\ \A k \in 1..Len(g) : g[k].tag = "data"
  /\ WireBytes(g) = GrowthBytes(edit) /\ WireBytes(g) - 5 * Len(g) = GrowthData(edit)

(* A run and one packet, and what follows.                                 *)
LEMMA Joined ==
  ASSUME NEW a \in Seq(Packet), NEW c \in Seq(Packet)
  PROVE  /\ a \o c \in Seq(Packet) /\ Len(a) \in Nat /\ Len(c) \in Nat
         /\ Len(a \o c) = Len(a) + Len(c)
         /\ \A k \in 1..Len(a) : (a \o c)[k] = a[k]
         /\ \A k \in 1..Len(c) : (a \o c)[Len(a) + k] = c[k]
  BY SMTT(30)

(* All the growth packets, read by the new parser alone.                   *)
LEMMA GrowthRun ==
  ASSUME NEW edit, NEW packets \in Seq(Packet), NEW g, IsGrowth(edit, g),
         NEW r, r = Parsed(packets), r \in Parsers, r.status = "more", r.count # 0,
         r.stream.status = "ok", r.stream.record.active = TRUE, r.stream.record.have_data = TRUE,
         r.stream.record.end = r.pos, Len(r.stream.record.header) = HeaderBytes
  PROVE  /\ packets \o g \in Seq(Packet) /\ Parsed(packets \o g) \in Parsers
         /\ Growing(r, GrowthData(edit), GrowthBytes(edit), Parsed(packets \o g))
<1> DEFINE z == packets \o g
           F == ParsedUpTo(z)
           W == WireBytesUpTo(g)
           n == Len(packets)
           m == Len(g)
           T == { k \in 0..m : Growing(r, W[k] - 5 * k, W[k], F[n + k]) }
<1>1. /\ g \in Seq(Packet) /\ \A k \in 1..m : g[k].tag = "data"
      /\ W[m] = GrowthBytes(edit) /\ W[m] - 5 * m = GrowthData(edit)
  BY DEF IsGrowth, WireBytes
<1>2. /\ z \in Seq(Packet) /\ n \in Nat /\ m \in Nat /\ Len(z) = n + m
      /\ \A k \in 1..n : z[k] = packets[k]
      /\ \A k \in 1..m : z[n + k] = g[k]
  BY <1>1, Joined
<1>3. /\ W \in [0..m -> Nat] /\ W[0] = 0
      /\ \A k \in 1..m : W[k] = W[k-1] + WireLen(g[k])
  BY <1>1, WireRun
<1> HIDE DEF W, z
<1>4. /\ F \in [0..(n + m) -> Parsers]
      /\ \A k \in 1..(n + m) : F[k] = ParseStep(F[k-1], z[k])
  BY <1>2, ParsedRun
<1>5. F[n] = r
  <2>1. ParsedUpTo(packets)[n] = r
    BY DEF Parsed
  <2>2. \A k \in 0..Len(packets) : ParsedUpTo(z)[k] = ParsedUpTo(packets)[k]
    <3>1. Len(packets) <= Len(z) /\ \A k \in 1..Len(packets) : z[k] = packets[k]
      BY <1>2
    <3> QED  BY <1>2, <3>1, ParsedPrefix
  <2>3. n \in 0..Len(packets)
    BY <1>2
  <2> QED  BY <2>1, <2>2, <2>3
<1> HIDE DEF F, n, m
<1>6. 0 \in T
  <2>1. 0 - 5 * 0 = 0 /\ n + 0 = n
    BY <1>2
  <2> DEFINE b == r.stream.record
  <2>2. b.end \in Int /\ b.data_bytes \in Int /\ r.pos \in Nat
    <3>1. b \in Gathering /\ r.pos \in Nat
      BY ParserFacts, StreamFields
    <3> HIDE DEF b
    <3> QED  BY <3>1 DEF Gathering
  <2>3. b.end + 0 = b.end /\ b.data_bytes + 0 = b.data_bytes /\ r.pos + 0 = r.pos
    <3> HIDE DEF b
    <3> QED  BY <2>2
  <2>4. Growing(r, 0, 0, r)
    BY <2>3 DEF Growing
  <2>5. Growing(r, W[0] - 5 * 0, W[0], F[n + 0])
    BY <1>3, <1>5, <2>1, <2>4
  <2>6. 0 \in 0..m
    BY <1>2
  <2> QED  BY <2>5, <2>6
<1>7. ASSUME NEW k \in 1..m, k - 1 \in T PROVE k \in T
  <2> DEFINE j == k - 1
             x == F[n + j]
             v == F[n + k]
             p == g[k]
             bytes == W[j] - 5 * j
             wire == W[j]
  <2>1. /\ j \in 0..m /\ j \in Nat /\ k \in 0..m /\ n + k \in 1..(n + m)
        /\ n + j \in 0..(n + m) /\ (n + k) - 1 = n + j
    BY <1>2
  <2>2. p \in Packet /\ p.tag = "data"
    BY <1>1 DEF m
  <2>3. wire \in Nat /\ bytes \in Int /\ W[k] = wire + WireLen(p)
    BY <1>3, <2>1
  <2>4. x \in Parsers /\ v = ParseStep(x, p)
    <3>1. v = ParseStep(F[(n + k) - 1], z[n + k])
      BY <1>4, <2>1
    <3>2. z[n + k] = p
      BY <1>2
    <3> QED  BY <1>4, <2>1, <3>1, <3>2
  <2>5. Growing(r, bytes, wire, x)
    BY <1>7
  <2>6. WireLen(p) = 5 + Len(p.payload) /\ Len(p.payload) \in Nat
    BY <2>2, WireLenIs
  <2> HIDE DEF x, v, p
  <2>7. bytes + Len(p.payload) = W[k] - 5 * k
    <3> DEFINE l == WireLen(p)
               e == Len(p.payload)
               z1 == W[k]
    <3>1. /\ bytes = wire - 5 * j /\ z1 = wire + l /\ wire \in Nat /\ l = 5 + e /\ e \in Nat
          /\ k = j + 1 /\ j \in Nat
      BY <1>2, <2>1, <2>3, <2>6
    <3> HIDE DEF l, e, z1, wire, bytes, j
    <3>2. bytes + e = z1 - 5 * k
      BY <3>1
    <3> QED  BY <3>2 DEF e, z1
  <2> HIDE DEF bytes, wire
  <2>8. Growing(r, bytes + Len(p.payload), wire + WireLen(p), v)
    BY <2>2, <2>3, <2>4, <2>5, GrowStep
  <2>9. Growing(r, W[k] - 5 * k, W[k], F[n + k])
    BY <2>3, <2>7, <2>8 DEF v
  <2> QED  BY <2>1, <2>9
<1>8. 0..m \subseteq T
  <2> HIDE DEF T
  <2> QED  BY <1>2, <1>6, <1>7, InductionUpTo
<1>9. Growing(r, W[m] - 5 * m, W[m], F[n + m])
  BY <1>2, <1>8
<1>10. Parsed(z) = F[n + m] /\ F[n + m] \in Parsers
  <2>1. n + m \in 0..(n + m)
    BY <1>2
  <2> QED  BY <1>2, <1>4, <2>1 DEF Parsed, F
<1>11. Growing(r, GrowthData(edit), GrowthBytes(edit), Parsed(z))
  BY <1>1, <1>9, <1>10 DEF W, m
<1> QED  BY <1>2, <1>10, <1>11 DEF z

(* Data do not add to the records read.                                    *)
LEMMA SeenStays ==
  ASSUME NEW edit, Placed(edit), NEW n, NEW whole, NEW seen \in Seq(Observation),
         Before(seen, edit.data.offset), InOrder(seen)
  PROVE  SeenMoves(edit, n, whole, seen, seen)
<1>1. ASSUME NEW j \in 1..Len(seen) PROVE ObsMoves(edit, n, whole, seen[j], seen[j])
  <2> DEFINE o == seen[j]
             D == edit.data.offset
  <2>1. j \in DOMAIN seen /\ o \in Observation
    OBVIOUS
  <2>2. o.data \in Span /\ o.data_bytes \in Nat
    BY <2>1 DEF Observation
  <2>3. SpanEnd(o.data) <= D /\ o.data.length >= o.data_bytes + OverheadBytes
    BY <2>1 DEF Before, InOrder
  <2>4. o.data.offset \in Nat /\ o.data.length \in Nat
        /\ SpanEnd(o.data) = o.data.offset + o.data.length
    BY <2>2, SpanOf
  <2>5. D \in Nat
    BY DEF Placed
  <2>6. o.data.offset < D
    <3> HIDE DEF o, D
    <3> QED  BY <2>2, <2>3, <2>4, <2>5, TopologyConstants
  <2>7. ~(o.data.offset = D) /\ ~(o.data.offset > D)
    <3> HIDE DEF o, D
    <3> QED  BY <2>4, <2>5, <2>6
  <2> HIDE DEF o
  <2>8. ObsMoves(edit, n, whole, o, o)
    BY <2>6, <2>7, Zenon DEF ObsMoves
  <2> QED  BY <2>8 DEF o
<1> QED  BY <1>1 DEF SeenMoves

(* Behind its growth the target is past on both sides.                     *)
LEMMA InsideGrows ==
  ASSUME NEW edit, Placed(edit), NEW n \in Nat, NEW whole \in BOOLEAN, NEW logical \in Nat,
         NEW q \in Parsers, NEW packets \in Seq(Packet),
         NEW r, r = Parsed(packets), r \in Parsers,
         Inside(edit, n, whole, logical, q, r), q.pos = SpanEnd(edit.data), logical > HeaderBytes,
         NEW g, IsGrowth(edit, g)
  PROVE  /\ packets \o g \in Seq(Packet)
         /\ Past(edit, n, whole, q, Parsed(packets \o g))
<1> DEFINE a == q.stream.record
           b == r.stream.record
           v == Parsed(packets \o g)
           c == v.stream.record
           D == edit.data.offset
           H == HeaderBytes
<1>1. /\ q.status = "more" /\ r.status = "more" /\ r.count # 0 /\ r.stream.status = "ok"
      /\ r.pos = q.pos /\ r.stream.seen = q.stream.seen
      /\ a.active /\ b.active = a.active /\ b.have_data = a.have_data
      /\ b.selector = a.selector /\ b.selection = a.selection
      /\ b.unknown_extension = a.unknown_extension
      /\ b.first = a.first /\ b.end = a.end
      /\ a.data_bytes = logical /\ b.data_bytes = logical
      /\ Len(a.header) = Smaller(H, logical)
      /\ b.header = Rewritten(n, whole, a.header)
      /\ a.have_data => a.first = D /\ a.end = q.pos
      /\ ~a.have_data => q.pos = D
  BY DEF Inside
<1>2. /\ D \in Nat /\ SpanEnd(edit.data) \in Nat /\ D < SpanEnd(edit.data)
      /\ q.pos \in Nat /\ q.stream \in Stream /\ StreamInv(q.stream, q.pos)
      /\ GrowthBytes(edit) \in Nat /\ GrowthData(edit) \in Nat
  BY ParserFacts DEF Placed
<1>3. a \in Gathering /\ a.have_data \in BOOLEAN /\ a.active \in BOOLEAN /\ a.header \in Payload
  <2>1. a \in Gathering
    BY ParserFacts, StreamFields
  <2> HIDE DEF a
  <2> QED  BY <2>1 DEF Gathering, Payload
<1>4. a.have_data = TRUE /\ a.active = TRUE /\ a.first = D /\ a.end = q.pos
  BY <1>1, <1>2, <1>3
<1>5. Len(a.header) = H /\ Len(b.header) = H
  <2>1. Smaller(H, logical) = H
    BY TopologyConstants DEF Smaller
  <2> DEFINE h == a.header
  <2>2. h \in Payload
    BY <1>3
  <2> HIDE DEF h
  <2>3. Len(Rewritten(n, whole, h)) = Len(h)
    BY <2>2, RewrittenIs
  <2> QED  BY <1>1, <2>1, <2>3 DEF h
<1>6. packets \o g \in Seq(Packet) /\ v \in Parsers
      /\ Growing(r, GrowthData(edit), GrowthBytes(edit), v)
  <2>1. b.active = TRUE /\ b.have_data = TRUE /\ b.end = r.pos
    BY <1>1, <1>4
  <2> QED  BY <1>1, <1>5, <2>1, GrowthRun
<1> HIDE DEF v
<1>7. /\ v.status = "more" /\ v.stream.status = "ok" /\ v.count # 0
      /\ v.pos = r.pos + GrowthBytes(edit) /\ v.stream.seen = r.stream.seen
      /\ c.active = TRUE /\ c.have_data = TRUE /\ c.selector = b.selector
      /\ c.selection = b.selection /\ c.unknown_extension = b.unknown_extension
      /\ c.first = b.first /\ c.end = b.end + GrowthBytes(edit) /\ c.header = b.header
      /\ c.data_bytes = b.data_bytes + GrowthData(edit)
  BY <1>6 DEF Growing
<1>8. SeenMoves(edit, n, whole, q.stream.seen, v.stream.seen)
  <2> DEFINE s == q.stream
  <2>1. s.seen \in Seq(Observation) /\ InOrder(s.seen) /\ Before(s.seen, a.selection.offset)
        /\ Gathered(a, q.pos)
    BY <1>2, <1>4, StreamFields DEF StreamInv
  <2>2. SpanEnd(a.selection) <= D /\ a.selection \in Span
    BY <1>3, <1>4, <2>1 DEF Gathered, Gathering
  <2>3. a.selection.offset \in Nat /\ a.selection.offset <= D
    <3> DEFINE e == a.selection
    <3>1. e \in Span /\ SpanEnd(e) <= D
      BY <2>2
    <3> HIDE DEF e, D
    <3>2. e.offset \in Nat /\ e.length \in Nat /\ SpanEnd(e) = e.offset + e.length
      BY <3>1, SpanOf
    <3>3. e.offset <= D
      BY <1>2, <3>1, <3>2
    <3> QED  BY <3>2, <3>3 DEF e
  <2>4. Before(s.seen, D)
    <3> DEFINE place == a.selection.offset
    <3>1. place \in Nat /\ place <= D /\ Before(s.seen, place)
      BY <2>1, <2>3
    <3> HIDE DEF place, D, s
    <3>2. ASSUME NEW i \in DOMAIN s.seen PROVE SpanEnd(s.seen[i].data) <= D
      <4>1. s.seen[i].data \in Span
        <5>1. s.seen[i] \in Observation
          BY <2>1
        <5> QED  BY <5>1 DEF Observation
      <4>2. SpanEnd(s.seen[i].data) \in Nat /\ SpanEnd(s.seen[i].data) <= place
        BY <3>1, <4>1, SpanOf DEF Before
      <4> QED  BY <1>2, <3>1, <4>2
    <3> QED  BY <3>2 DEF Before
  <2> HIDE DEF s
  <2>5. SeenMoves(edit, n, whole, s.seen, s.seen)
    BY <2>1, <2>4, SeenStays DEF D
  <2> QED  BY <1>1, <1>7, <2>5 DEF s
<1> DEFINE pos == q.pos
<1>9. RecMoves(edit, n, whole, pos, a, c)
  <2>1. AtTarget(edit, a)
    BY <1>4 DEF AtTarget
  <2>2. /\ c.active = a.active /\ c.have_data = a.have_data /\ c.selector = a.selector
        /\ c.unknown_extension = a.unknown_extension
        /\ c.header = Rewritten(n, whole, a.header)
        /\ c.data_bytes = a.data_bytes + GrowthData(edit) /\ a.data_bytes > HeaderBytes
        /\ c.selection = a.selection /\ c.first = a.first
        /\ c.end = a.end + GrowthBytes(edit)
    BY <1>1, <1>4, <1>7
  <2>3. pos = SpanEnd(edit.data) /\ Len(a.header) = HeaderBytes
    BY <1>5
  <2> HIDE DEF a, c, pos
  <2> QED  BY <2>1, <2>2, <2>3, Zenon DEF RecMoves
<1>10. q.pos >= SpanEnd(edit.data) /\ v.pos = q.pos + GrowthBytes(edit)
  BY <1>1, <1>2, <1>7
<1> HIDE DEF a, b, c, D, H
<1> QED  BY <1>1, <1>6, <1>7, <1>8, <1>9, <1>10 DEF Past, a, c, v, pos

(* The packets that are neither of the frame nor of a record.              *)
Runs == Seq(Packet)

(* A run of packets exists to start from.                                  *)
LEMMA PacketRunExists ==
  ASSUME NEW s \in Runs, NEW n \in Nat, NEW G \in [1..n -> [Runs -> Runs]]
  PROVE  \E f \in [0..n -> Runs] : f[0] = s /\ \A i \in 1..n : f[i] = G[i][f[i-1]]
  BY RunExists, SMT

OthersNext(run, p) == IF p.tag = "other" THEN Append(run, p) ELSE run

(* Others are gathered packet by packet.                                   *)
LEMMA OthersRun ==
  ASSUME NEW f \in Seq(Packet)
  PROVE  LET run == OthersUpTo(f)
         IN  /\ run[0] = <<>> /\ \A k \in 1..Len(f) : run[k] = OthersNext(run[k-1], f[k])
             /\ \A k \in 0..Len(f) : run[k] \in Runs
<1> DEFINE n == Len(f)
           Def(g) == g = [k \in 0..n |-> IF k = 0 THEN <<>>
                                         ELSE IF f[k].tag = "other" THEN Append(g[k-1], f[k])
                                         ELSE g[k-1]]
           F == OthersUpTo(f)
           G == [k \in 1..n |-> [q \in Runs |-> OthersNext(q, f[k])]]
           s == <<>>
<1>1. F = CHOOSE g : Def(g)
  BY DEF OthersUpTo
<1>2. n \in Nat /\ \A k \in 1..n : f[k] \in Packet
  OBVIOUS
<1>3. \A k \in 1..n : \A q \in Runs : OthersNext(q, f[k]) \in Runs
  BY <1>2 DEF OthersNext, Runs
<1>4. G \in [1..n -> [Runs -> Runs]]
  BY <1>3
<1>5. s \in Runs
  BY DEF Runs
<1>6. PICK g \in [0..n -> Runs] : g[0] = s /\ \A k \in 1..n : g[k] = G[k][g[k-1]]
  <2> HIDE DEF G, n, s
  <2> QED  BY <1>2, <1>4, <1>5, PacketRunExists
<1>7. \A k \in 1..n : g[k] = OthersNext(g[k-1], f[k])
  <2> TAKE k \in 1..n
  <2>1. k - 1 \in 0..n
    BY <1>2
  <2>2. g[k-1] \in Runs
    BY <2>1
  <2>3. G[k][g[k-1]] = OthersNext(g[k-1], f[k])
    BY <2>2
  <2> QED  BY <1>6, <2>3
<1>8. ASSUME NEW k \in 0..n
      PROVE  g[k] = IF k = 0 THEN <<>>
                    ELSE IF f[k].tag = "other" THEN Append(g[k-1], f[k]) ELSE g[k-1]
  <2>1. CASE k = 0
    BY <1>6, <2>1
  <2>2. CASE k \in 1..n
    <3>1. k # 0
      BY <2>2
    <3> QED  BY <1>7, <2>2, <3>1, Zenon DEF OthersNext
  <2> QED  BY <1>2, <2>1, <2>2
<1>9. Def(g)
  <2> DEFINE z == [k \in 0..n |-> IF k = 0 THEN <<>>
                                  ELSE IF f[k].tag = "other" THEN Append(g[k-1], f[k])
                                  ELSE g[k-1]]
  <2>1. \A k \in 0..n : g[k] = z[k]
    BY <1>8
  <2>2. DOMAIN z = 0..n /\ z = [k \in 0..n |-> z[k]]
    OBVIOUS
  <2>3. g = [k \in 0..n |-> g[k]]
    OBVIOUS
  <2> HIDE DEF z
  <2>4. g = z
    BY <2>1, <2>2, <2>3
  <2> QED  BY <2>4 DEF z
<1>10. Def(F)
  <2> HIDE DEF Def, F
  <2> QED  BY <1>1, <1>9
<1>11. F[0] = <<>> /\ \A k \in 1..n : F[k] = OthersNext(F[k-1], f[k])
  <2>1. 0 \in 0..n /\ \A k \in 1..n : k \in 0..n /\ k # 0
    BY <1>2
  <2> HIDE DEF F, n
  <2>2. \A k \in 0..n : F[k] = IF k = 0 THEN <<>>
                    ELSE IF f[k].tag = "other" THEN Append(F[k-1], f[k]) ELSE F[k-1]
    BY <1>10, Zenon
  <2> QED  BY <2>1, <2>2, Zenon DEF OthersNext
<1>12. \A k \in 0..n : F[k] \in Runs
  <2> DEFINE T == { k \in 0..n : F[k] \in Runs }
  <2> HIDE DEF F
  <2>1. 0 \in T
    BY <1>2, <1>5, <1>11
  <2>2. ASSUME NEW k \in 1..n, k - 1 \in T PROVE k \in T
    <3>1. F[k] = OthersNext(F[k-1], f[k]) /\ k \in 0..n /\ F[k-1] \in Runs
      BY <1>2, <1>11, <2>2
    <3> QED  BY <1>3, <3>1
  <2> HIDE DEF n
  <2>3. 0..n \subseteq T
    <3> HIDE DEF T
    <3> QED  BY <1>2, <2>1, <2>2, InductionUpTo
  <2> QED  BY <2>3
<1> QED  BY <1>11, <1>12

(* The others up to k are those of the first k packets.                    *)
LEMMA OthersPrefix ==
  ASSUME NEW a \in Seq(Packet), NEW c \in Seq(Packet), Len(a) <= Len(c),
         \A k \in 1..Len(a) : c[k] = a[k]
  PROVE  OthersUpTo(c)[Len(a)] = OthersOf(a)
<1> DEFINE n == Len(a)
           m == Len(c)
           old == OthersUpTo(a)
           new == OthersUpTo(c)
           T == { k \in 0..n : new[k] = old[k] }
<1>1. n \in Nat /\ m \in Nat /\ n <= m
  OBVIOUS
<1>2. old[0] = <<>> /\ \A k \in 1..n : old[k] = OthersNext(old[k-1], a[k])
  BY OthersRun
<1>3. new[0] = <<>> /\ \A k \in 1..m : new[k] = OthersNext(new[k-1], c[k])
  BY OthersRun
<1> HIDE DEF old, new, m
<1>4. 0 \in T
  BY <1>1, <1>2, <1>3
<1>5. ASSUME NEW k \in 1..n, k - 1 \in T PROVE k \in T
  <2>1. k \in 1..m /\ k \in 0..n /\ c[k] = a[k]
    BY <1>1
  <2>2. new[k] = OthersNext(new[k-1], c[k]) /\ old[k] = OthersNext(old[k-1], a[k])
    BY <1>2, <1>3, <2>1
  <2> QED  BY <1>5, <2>1, <2>2
<1> HIDE DEF n
<1>6. 0..n \subseteq T
  <2> HIDE DEF T
  <2> QED  BY <1>1, <1>4, <1>5, InductionUpTo
<1>7. new[n] = old[n]
  BY <1>1, <1>6
<1> QED  BY <1>7 DEF new, old, n, OthersOf

(* The others of a frame and one packet more.                              *)
LEMMA OthersAppend ==
  ASSUME NEW a \in Seq(Packet), NEW p \in Packet
  PROVE  OthersOf(Append(a, p)) = OthersNext(OthersOf(a), p)
<1> DEFINE c == Append(a, p)
           n == Len(a)
<1>1. n \in Nat /\ c \in Seq(Packet) /\ Len(c) = n + 1 /\ c[n + 1] = p
      /\ \A k \in 1..n : c[k] = a[k]
  OBVIOUS
<1> HIDE DEF c
<1>2. OthersUpTo(c)[n] = OthersOf(a)
  <2>1. Len(a) <= Len(c) /\ \A k \in 1..Len(a) : c[k] = a[k]
    BY <1>1
  <2> QED  BY <1>1, <2>1, OthersPrefix
<1> HIDE DEF n
<1>3. OthersUpTo(c)[n + 1] = OthersNext(OthersUpTo(c)[n], p)
  <2>1. n + 1 \in 1..Len(c) /\ (n + 1) - 1 = n
    BY <1>1
  <2>2. OthersUpTo(c)[n + 1] = OthersNext(OthersUpTo(c)[(n + 1) - 1], c[n + 1])
    BY <1>1, <2>1, OthersRun
  <2> QED  BY <1>1, <2>1, <2>2
<1> QED  BY <1>1, <1>2, <1>3 DEF OthersOf, c

(* Growth brings no others.                                                *)
LEMMA OthersQuiet ==
  ASSUME NEW a \in Seq(Packet), NEW g \in Seq(Packet), \A k \in 1..Len(g) : g[k].tag = "data"
  PROVE  OthersOf(a \o g) = OthersOf(a)
<1> DEFINE z == a \o g
           n == Len(a)
           m == Len(g)
           F == OthersUpTo(z)
           T == { k \in 0..m : F[n + k] = OthersOf(a) }
<1>1. /\ z \in Seq(Packet) /\ n \in Nat /\ m \in Nat /\ Len(z) = n + m
      /\ \A k \in 1..n : z[k] = a[k]
      /\ \A k \in 1..m : z[n + k] = g[k]
  BY Joined
<1> HIDE DEF z
<1>2. F[n] = OthersOf(a)
  <2>1. Len(a) <= Len(z) /\ \A k \in 1..Len(a) : z[k] = a[k]
    BY <1>1
  <2> QED  BY <1>1, <2>1, OthersPrefix
<1>3. \A k \in 1..Len(z) : F[k] = OthersNext(F[k-1], z[k])
  BY <1>1, OthersRun
<1> HIDE DEF F, n
<1>4. 0 \in T
  <2>1. n + 0 = n /\ 0 \in 0..m
    BY <1>1
  <2> QED  BY <1>2, <2>1
<1>5. ASSUME NEW k \in 1..m, k - 1 \in T PROVE k \in T
  <2>1. n + k \in 1..Len(z) /\ (n + k) - 1 = n + (k - 1) /\ k \in 0..m
    BY <1>1
  <2>2. F[n + k] = OthersNext(F[(n + k) - 1], z[n + k])
    BY <1>3, <2>1
  <2>3. z[n + k].tag = "data"
    BY <1>1
  <2>4. F[n + (k - 1)] = OthersOf(a)
    BY <1>5
  <2> QED  BY <2>1, <2>2, <2>3, <2>4 DEF OthersNext
<1> HIDE DEF m
<1>6. 0..m \subseteq T
  <2> HIDE DEF T
  <2> QED  BY <1>1, <1>4, <1>5, InductionUpTo
<1>7. F[n + m] = OthersOf(a)
  <2>1. m \in 0..m
    BY <1>1
  <2>2. m \in T
    BY <1>6, <2>1
  <2> QED  BY <2>2
<1> QED  BY <1>1, <1>7 DEF OthersOf, F, z

-----------------------------------------------------------------------------
(***************************************************************************)
(* What is built, when the old frame's first m packets have been handed    *)
(* over, reads like those packets.                                         *)
(***************************************************************************)
Logical(f, i, m) == Len(DataRunOf(f, i)[m])

Tracks(f, edit, n, whole, i, b, m, packets) ==
  /\ packets \in Seq(Packet) /\ OthersOf(packets) = OthersUpTo(f)[m]
  /\ LET q == ParsedUpTo(f)[m]
         r == Parsed(packets)
     IN  /\ m < i => r = q
         /\ m >= i /\ m < b => Inside(edit, n, whole, Logical(f, i, m), q, r)
         /\ m >= b => Past(edit, n, whole, q, r)

(* A frame in which a pool can be replaced, and where.                     *)
Replaceable(f, edit, i, b) ==
  /\ f \in Seq(Packet) /\ ExactStatus(f, Parsed(f)) = "ok"
  /\ TargetAt(f, edit, i, b) /\ Placed(edit)

(* A replaceable pool stands between BEGIN and END.                        *)
LEMMA ReplaceableIs ==
  ASSUME NEW f, NEW edit, NEW i, NEW b, Replaceable(f, edit, i, b)
  PROVE  /\ f \in Seq(Packet) /\ ExactStatus(f, Parsed(f)) = "ok" /\ WellFormed(f, Len(f))
         /\ f[Len(f)].tag = "end" /\ TargetAt(f, edit, i, b) /\ Placed(edit)
         /\ i \in Nat /\ b \in Nat /\ Len(f) \in Nat
         /\ i >= 1 /\ i < b /\ b < Len(f) /\ Len(f) >= 3
<1>1. f \in Seq(Packet) /\ ExactStatus(f, Parsed(f)) = "ok" /\ TargetAt(f, edit, i, b)
      /\ Placed(edit)
  BY DEF Replaceable
<1>2. WellFormed(f, Len(f)) /\ f[Len(f)].tag = "end"
  BY <1>1, ExactFrame
<1>3. Len(f) \in Nat /\ i \in 1..Len(f) /\ b \in (i + 1)..(Len(f) - 1)
  BY <1>1 DEF TargetAt
<1>4. i \in Nat /\ b \in Nat /\ i >= 1 /\ i < b /\ b < Len(f) /\ Len(f) >= 3
  BY <1>3
<1> QED  BY <1>1, <1>2, <1>3, <1>4

(* One turn of the old frame's parser, inside the frame.                   *)
LEMMA OldTurn ==
  ASSUME NEW f, NEW edit, NEW i, NEW b, Replaceable(f, edit, i, b),
         NEW m \in Nat, m + 1 < Len(f)
  PROVE  LET q == ParsedUpTo(f)[m]
             u == ParsedUpTo(f)[m + 1]
             p == f[m + 1]
         IN  /\ q \in Parsers /\ q.status = "more" /\ q.count = m /\ q.pos = OffsetOf(f, m + 1)
             /\ u \in Parsers /\ u.status = "more" /\ u.pos = OffsetOf(f, m + 2)
             /\ u = ParseStep(q, p) /\ p \in Packet
             /\ OthersUpTo(f)[m + 1] = OthersNext(OthersUpTo(f)[m], p)
<1>1. f \in Seq(Packet) /\ ExactStatus(f, Parsed(f)) = "ok" /\ Len(f) \in Nat
  BY ReplaceableIs
<1>2. /\ m \in 0..(Len(f) - 1) /\ m + 1 \in 0..(Len(f) - 1) /\ m + 1 \in 1..Len(f)
      /\ (m + 1) - 1 = m /\ (m + 1) + 1 = m + 2
  BY <1>1
<1>3. LET q == ParsedUpTo(f)[m]
      IN  /\ q \in Parsers /\ q.status = "more" /\ q.count = m /\ q.pos = OffsetOf(f, m + 1)
          /\ q.stream.status = "ok"
  BY <1>1, <1>2, GoesOnBefore
<1> DEFINE k == m + 1
<1>4. LET q == ParsedUpTo(f)[k]
      IN  /\ q \in Parsers /\ q.status = "more" /\ q.count = k /\ q.pos = OffsetOf(f, k + 1)
          /\ q.stream.status = "ok"
  <2>1. k \in 0..(Len(f) - 1)
    BY <1>2
  <2> HIDE DEF k
  <2> QED  BY <1>1, <2>1, GoesOnBefore
<1>5. ParsedUpTo(f)[k] = ParseStep(ParsedUpTo(f)[k-1], f[k])
      /\ OthersUpTo(f)[k] = OthersNext(OthersUpTo(f)[k-1], f[k])
  <2>1. k \in 1..Len(f)
    BY <1>2
  <2> HIDE DEF k
  <2> QED  BY <1>1, <2>1, ParsedRun, OthersRun
<1>6. f[k] \in Packet
  BY <1>1, <1>2
<1> QED  BY <1>2, <1>3, <1>4, <1>5, <1>6

(* The target's data so far: none up to its selector, all at its end.      *)
LEMMA LogicalIs ==
  ASSUME NEW f, NEW edit, NEW i, NEW b, Replaceable(f, edit, i, b)
  PROVE  /\ Logical(f, i, i) = 0
         /\ Logical(f, i, b) = HeaderBytes + edit.replacement.existing
         /\ Logical(f, i, b) > HeaderBytes
         /\ \A m \in 0..Len(f) : Logical(f, i, m) \in Nat
         /\ \A k \in (i + 1)..b : /\ f[k].tag = "data"
                                  /\ Logical(f, i, k)
                                       = Logical(f, i, k - 1) + Len(f[k].payload)
<1> DEFINE n == Len(f)
           h == DataRunOf(f, i)
           js == GroupData(f, i)
<1>1. /\ f \in Seq(Packet) /\ TargetAt(f, edit, i, b) /\ i \in Nat /\ b \in Nat /\ n \in Nat
      /\ i >= 1 /\ i < b /\ b < n
  BY ReplaceableIs
<1>2. IsDataRun(f, js, h) /\ \A k \in 0..n : h[k] \in Payload
  BY <1>1, DataRunOfIs
<1>3. js = (i + 1)..b /\ HeaderBytes + edit.replacement.existing = Len(h[n])
      /\ edit.replacement.existing > 0
  BY <1>1 DEF TargetAt
<1>4. /\ h[0] = <<>>
      /\ \A k \in 1..n : k \in js => h[k] = h[k-1] \o f[k].payload
  BY <1>2 DEF IsDataRun
<1> HIDE DEF h, js
<1>5. h[i] = h[0]
  <2>1. 0 \in 0..n /\ i \in 0..n /\ 0 <= i /\ \A j \in (0 + 1)..i : j \notin js
    BY <1>1, <1>3
  <2> QED  BY <1>1, <1>2, <2>1, DataStays
<1>6. h[n] = h[b]
  <2>1. n \in 0..n /\ b \in 0..n /\ b <= n /\ \A j \in (b + 1)..n : j \notin js
    BY <1>1, <1>3
  <2> QED  BY <1>1, <1>2, <2>1, DataStays
<1>7. \A m \in 0..n : Len(h[m]) \in Nat
  BY <1>2, PayloadConcat
<1>8. ASSUME NEW k \in (i + 1)..b
      PROVE  f[k].tag = "data" /\ Len(h[k]) = Len(h[k - 1]) + Len(f[k].payload)
  <2>1. k \in 1..n /\ k \in js /\ k - 1 \in 0..n
    BY <1>1, <1>3
  <2>2. f[k] \in Packet
    BY <1>1, <2>1
  <2>3. h[k-1] \in Payload /\ f[k].payload \in Payload
    BY <1>2, <2>1, <2>2, WireLenIs DEF Payload
  <2>4. h[k] = h[k-1] \o f[k].payload
    BY <1>4, <2>1
  <2>5. f[k].tag = "data"
    BY <2>1 DEF GroupData, js
  <2> QED  BY <2>3, <2>4, <2>5, PayloadConcat
<1>9. Len(h[i]) = 0 /\ Len(h[b]) = HeaderBytes + edit.replacement.existing
  BY <1>3, <1>4, <1>5, <1>6
<1>10. Len(h[b]) > HeaderBytes
  <2>1. Len(h[b]) \in Nat /\ HeaderBytes \in Nat
    BY <1>1, <1>7, TopologyConstants
  <2> DEFINE x == edit.replacement.existing
             y == Len(h[b])
  <2>2. y = HeaderBytes + x /\ x > 0 /\ x \in Nat
    <3>1. x \in Nat
      BY DEF Replaceable, Placed
    <3> QED  BY <1>3, <1>9, <3>1
  <2> HIDE DEF x, y
  <2> QED  BY <2>1, <2>2 DEF y
<1> QED  BY <1>7, <1>8, <1>9, <1>10 DEF Logical, h

(* Sample k of a run, silence behind it.                                   *)
SampleIn(run, k) == IF k <= Len(run) THEN run[k] ELSE 0

(* Payload c, behind logical bytes of a pool, carries the run's samples.   *)
Carries(run, logical, c) ==
  \A j \in 1..Len(c) :
    logical + j > HeaderBytes => c[j] = SampleIn(run, (logical + j) - HeaderBytes)

(* So do the packets of a growth, chunk by chunk.                          *)
GrowthCarries(edit, run, g) ==
  \A j \in 1..Len(g) :
    /\ Len(g[j].payload) = ChunkLen(j - 1)
    /\ Carries(run, HeaderBytes + edit.replacement.existing + ChunkStart(j - 1), g[j].payload)

(* What the rebuild adds for the old frame's packet k.                     *)
Adds(f, edit, run, whole, i, b, k, old, new) ==
  \/ k \notin (i + 1)..b /\ new = Append(old, f[k])
  \/ /\ k \in (i + 1)..b
     /\ \E d \in Packet : \E g :
          /\ d.tag = "data"
          /\ SameButHeader(Len(run), whole, Logical(f, i, k - 1), f[k].payload, d.payload)
          /\ Carries(run, Logical(f, i, k - 1), d.payload)
          /\ k # b => new = Append(old, d)
          /\ k = b => /\ IsGrowth(edit, g) /\ GrowthCarries(edit, run, g)
                      /\ new = Append(old, d) \o g

(* A packet of the old frame outside the target, on both sides.            *)
LEMMA TrackOutside ==
  ASSUME NEW f, NEW edit, NEW i, NEW b, Replaceable(f, edit, i, b), NEW n \in Nat,
         NEW whole \in BOOLEAN, NEW m \in Nat, m >= 1, m + 1 < Len(f),
         m + 1 \notin (i + 1)..b,
         NEW packets, Tracks(f, edit, n, whole, i, b, m, packets)
  PROVE  Tracks(f, edit, n, whole, i, b, m + 1, Append(packets, f[m + 1]))
<1> DEFINE q == ParsedUpTo(f)[m]
           u == ParsedUpTo(f)[m + 1]
           p == f[m + 1]
           r == Parsed(packets)
           new == Append(packets, p)
           v == Parsed(new)
           D == edit.data.offset
<1>1. /\ f \in Seq(Packet) /\ WellFormed(f, Len(f)) /\ TargetAt(f, edit, i, b) /\ Placed(edit)
      /\ i \in Nat /\ b \in Nat /\ Len(f) \in Nat /\ i >= 1 /\ i < b /\ b < Len(f)
  BY ReplaceableIs
<1>2. /\ q \in Parsers /\ q.status = "more" /\ q.count = m /\ q.pos = OffsetOf(f, m + 1)
      /\ u \in Parsers /\ u.status = "more" /\ u.pos = OffsetOf(f, m + 2)
      /\ u = ParseStep(q, p) /\ p \in Packet
      /\ OthersUpTo(f)[m + 1] = OthersNext(OthersUpTo(f)[m], p)
  BY OldTurn
<1>3. /\ packets \in Seq(Packet) /\ OthersOf(packets) = OthersUpTo(f)[m]
      /\ m < i => r = q
      /\ m >= b => Past(edit, n, whole, q, r)
  BY DEF Tracks
<1>4. new \in Seq(Packet) /\ OthersOf(new) = OthersUpTo(f)[m + 1]
  <2> HIDE DEF p
  <2> QED  BY <1>2, <1>3, OthersAppend
<1>5. v = ParseStep(r, p) /\ r \in Parsers
  <2> HIDE DEF p
  <2> QED  BY <1>2, <1>3, ParsedAppend
<1>6. CASE m + 1 < i
  <2>1. r = q /\ ~(m + 1 >= i) /\ ~(m + 1 >= b)
    BY <1>1, <1>3, <1>6
  <2>2. v = u
    BY <1>2, <1>5, <2>1
  <2>3. Tracks(f, edit, n, whole, i, b, m + 1, new)
    <3> HIDE DEF new
    <3> QED  BY <1>4, <2>1, <2>2 DEF Tracks, v, u
  <2> QED  BY <2>3
<1>7. CASE m + 1 = i
  <2>1. r = q /\ p.tag = "select" /\ u.pos = D /\ m + 1 >= i /\ m + 1 < b /\ ~(m + 1 < i)
        /\ ~(m + 1 >= b)
    <3>1. f[i].tag = "select" /\ D = OffsetOf(f, i + 1) /\ m + 2 = i + 1
      BY <1>1, <1>7 DEF TargetAt
    <3> QED  BY <1>1, <1>2, <1>3, <1>7, <3>1
  <2>2. v = u
    BY <1>2, <1>5, <2>1
  <2>3. Inside(edit, n, whole, 0, u, u)
    <3> HIDE DEF q, u, p
    <3> QED  BY <1>1, <1>2, <2>1, InsideBegins DEF D
  <2>4. Logical(f, i, m + 1) = 0
    BY <1>7, LogicalIs
  <2>5. Inside(edit, n, whole, Logical(f, i, m + 1), u, v)
    BY <2>2, <2>3, <2>4
  <2>6. Tracks(f, edit, n, whole, i, b, m + 1, new)
    <3> HIDE DEF new
    <3> QED  BY <1>4, <2>1, <2>5 DEF Tracks, v, u
  <2> QED  BY <2>6
<1>8. CASE ~(m + 1 < i) /\ m + 1 # i
  <2>1. m >= b /\ m + 1 >= b /\ ~(m + 1 < i) /\ ~(m + 1 < b)
    BY <1>1, <1>8
  <2>2. Past(edit, n, whole, q, r)
    BY <1>3, <2>1
  <2>3. p.tag \notin {"begin", "end"}
    <3>1. m + 1 \in 1..Len(f) /\ m + 1 # 1 /\ m + 1 # Len(f)
      BY <1>1
    <3> QED  BY <1>1, <3>1 DEF WellFormed
  <2>4. ASSUME AtTarget(edit, q.stream.record) PROVE p.tag = "select"
    <3>1. q.pos = SpanEnd(edit.data)
      BY <2>2, <2>4 DEF Past, RecMoves
    <3>2. SpanEnd(edit.data) = OffsetOf(f, b + 1) /\ f[b + 1].tag \in Closing
      BY <1>1 DEF TargetAt
    <3>3. m + 1 = b + 1
      <4>1. m + 1 \in 1..(Len(f) + 1) /\ b + 1 \in 1..(Len(f) + 1)
        BY <1>1
      <4>2. b + 1 < m + 1 => OffsetOf(f, b + 1) < OffsetOf(f, m + 1)
        BY <1>1, <4>1, OffsetsGrow
      <4>3. OffsetOf(f, m + 1) \in Nat
        BY <1>1, <4>1, OffsetsGrow
      <4> QED  BY <1>1, <1>2, <2>1, <3>1, <3>2, <4>2, <4>3
    <3> QED  BY <2>3, <3>2, <3>3 DEF Closing
  <2>5. Past(edit, n, whole, u, v)
    <3> HIDE DEF q, u, p, r, v
    <3> QED  BY <1>1, <1>2, <1>5, <2>2, <2>3, <2>4, PastStep
  <2>6. Tracks(f, edit, n, whole, i, b, m + 1, new)
    <3> HIDE DEF new
    <3> QED  BY <1>4, <2>1, <2>5 DEF Tracks, v, u
  <2> QED  BY <2>6
<1> QED  BY <1>6, <1>7, <1>8

(* A packet of the target, on both sides.                                  *)
LEMMA TrackInside ==
  ASSUME NEW f, NEW edit, NEW i, NEW b, Replaceable(f, edit, i, b), NEW n \in Nat,
         NEW whole \in BOOLEAN, NEW m \in Nat, m + 1 \in (i + 1)..b,
         NEW packets, Tracks(f, edit, n, whole, i, b, m, packets),
         NEW d \in Packet, d.tag = "data",
         SameButHeader(n, whole, Logical(f, i, m), f[m + 1].payload, d.payload)
  PROVE  /\ m + 1 # b => Tracks(f, edit, n, whole, i, b, m + 1, Append(packets, d))
         /\ \A g : m + 1 = b /\ IsGrowth(edit, g) =>
              Tracks(f, edit, n, whole, i, b, m + 1, Append(packets, d) \o g)
<1> DEFINE q == ParsedUpTo(f)[m]
           u == ParsedUpTo(f)[m + 1]
           p == f[m + 1]
           r == Parsed(packets)
           new == Append(packets, d)
           v == Parsed(new)
           l == Logical(f, i, m)
           k == m + 1
<1>1. /\ f \in Seq(Packet) /\ TargetAt(f, edit, i, b) /\ Placed(edit)
      /\ i \in Nat /\ b \in Nat /\ Len(f) \in Nat /\ i >= 1 /\ i < b /\ b < Len(f)
      /\ m + 1 < Len(f) /\ m >= i /\ m < b /\ m \in 0..Len(f) /\ m # 0 /\ k - 1 = m
  <2>1. /\ f \in Seq(Packet) /\ TargetAt(f, edit, i, b) /\ Placed(edit)
        /\ i \in Nat /\ b \in Nat /\ Len(f) \in Nat /\ i >= 1 /\ i < b /\ b < Len(f)
    BY ReplaceableIs
  <2> QED  BY <2>1
<1>2. /\ q \in Parsers /\ q.count = m
      /\ u \in Parsers /\ u.pos = OffsetOf(f, m + 2)
      /\ u = ParseStep(q, p) /\ p \in Packet
      /\ OthersUpTo(f)[m + 1] = OthersNext(OthersUpTo(f)[m], p)
  BY <1>1, OldTurn
<1>3. /\ packets \in Seq(Packet) /\ OthersOf(packets) = OthersUpTo(f)[m]
      /\ Inside(edit, n, whole, l, q, r)
  BY <1>1 DEF Tracks
<1>4. p.tag = "data" /\ l \in Nat /\ Logical(f, i, k) = l + Len(p.payload)
  <2>1. \A j \in (i + 1)..b : f[j].tag = "data"
          /\ Logical(f, i, j) = Logical(f, i, j - 1) + Len(f[j].payload)
    BY LogicalIs
  <2>2. Logical(f, i, m) \in Nat
    BY <1>1, LogicalIs
  <2>3. k \in (i + 1)..b
    OBVIOUS
  <2>4. f[k].tag = "data" /\ Logical(f, i, k) = Logical(f, i, k - 1) + Len(f[k].payload)
    BY <2>1, <2>3
  <2> QED  BY <1>1, <2>2, <2>4
<1>5. new \in Seq(Packet) /\ OthersOf(new) = OthersUpTo(f)[k]
  <2>1. OthersOf(new) = OthersNext(OthersOf(packets), d)
    BY <1>3, OthersAppend
  <2> QED  BY <1>2, <1>3, <1>4, <2>1 DEF OthersNext
<1>6. v = ParseStep(r, d) /\ r \in Parsers /\ v \in Parsers
  <2>1. v = ParseStep(r, d) /\ r \in Parsers
    BY <1>3, ParsedAppend
  <2> QED  BY <2>1, ParseStepKeeps
<1>7. Inside(edit, n, whole, Logical(f, i, k), u, v)
  <2>1. SameButHeader(n, whole, l, p.payload, d.payload) /\ q.count # 0 /\ d.tag = "data"
    BY <1>1, <1>2
  <2>3. /\ q \in Parsers /\ r \in Parsers /\ p \in Packet /\ p.tag = "data" /\ l \in Nat
        /\ Inside(edit, n, whole, l, q, r) /\ u = ParseStep(q, p) /\ v = ParseStep(r, d)
        /\ Placed(edit)
    BY <1>1, <1>2, <1>3, <1>4, <1>6
  <2> HIDE DEF q, u, p, r, v, l, new, k
  <2>2. Inside(edit, n, whole, l + Len(p.payload), u, v)
    BY <2>1, <2>3, InsideStep, ZenonT(120)
  <2> QED  BY <1>4, <2>2
<1>8. ASSUME k # b PROVE Tracks(f, edit, n, whole, i, b, k, new)
  <2>1. k >= i /\ k < b /\ ~(k < i) /\ ~(k >= b)
    BY <1>1, <1>8
  <2>2. Inside(edit, n, whole, Logical(f, i, k), ParsedUpTo(f)[k], Parsed(new))
    BY <1>7
  <2> HIDE DEF new, k
  <2> QED  BY <1>5, <2>2, <2>1 DEF Tracks
<1>9. ASSUME NEW g, k = b, IsGrowth(edit, g)
      PROVE  Tracks(f, edit, n, whole, i, b, k, new \o g)
  <2>1. u.pos = SpanEnd(edit.data)
    <3>1. SpanEnd(edit.data) = OffsetOf(f, b + 1) /\ m + 2 = b + 1
      BY <1>1, <1>9 DEF TargetAt
    <3> QED  BY <1>2, <3>1
  <2> DEFINE x == Logical(f, i, k)
  <2>2. x \in Nat /\ x > HeaderBytes
    <3>1. Logical(f, i, b) > HeaderBytes
      BY LogicalIs
    <3>2. \A j \in 0..Len(f) : Logical(f, i, j) \in Nat
      BY LogicalIs
    <3>3. b \in 0..Len(f)
      BY <1>1
    <3> QED  BY <1>9, <3>1, <3>2, <3>3
  <2>3. new \o g \in Seq(Packet) /\ Past(edit, n, whole, u, Parsed(new \o g))
    <3>1. Inside(edit, n, whole, x, u, v)
      BY <1>7
    <3> HIDE DEF u, new, x
    <3> QED  BY <1>1, <1>2, <1>5, <1>6, <1>9, <2>1, <2>2, <3>1, InsideGrows
  <2>4. OthersOf(new \o g) = OthersUpTo(f)[k]
    <3>1. g \in Seq(Packet) /\ \A j \in 1..Len(g) : g[j].tag = "data"
      BY <1>9 DEF IsGrowth
    <3> HIDE DEF new
    <3> QED  BY <1>5, <3>1, OthersQuiet
  <2>5. k >= b /\ ~(k < b) /\ ~(k < i)
    BY <1>1, <1>9
  <2>6. Past(edit, n, whole, ParsedUpTo(f)[k], Parsed(new \o g))
    BY <2>3
  <2> HIDE DEF new, k
  <2> QED  BY <2>3, <2>4, <2>5, <2>6 DEF Tracks
<1> QED  BY <1>8, <1>9

(* What comes out, once END is written.                                    *)
Outcome(f, edit, n, whole, new) ==
  /\ new \in Seq(Packet) /\ ExactStatus(new, Parsed(new)) = "ok"
  /\ SeenMoves(edit, n, whole, Parsed(f).stream.seen, Parsed(new).stream.seen)
  /\ OthersOf(new) = OthersOf(f)

EndPacket == [tag |-> "end", payload |-> <<>>]

(* END, on both sides.                                                     *)
LEMMA TrackEnd ==
  ASSUME NEW f, NEW edit, NEW i, NEW b, Replaceable(f, edit, i, b), NEW n \in Nat,
         NEW whole \in BOOLEAN, NEW packets,
         Tracks(f, edit, n, whole, i, b, Len(f) - 1, packets)
  PROVE  Outcome(f, edit, n, whole, Append(packets, EndPacket))
<1> DEFINE c == Len(f)
           m == Len(f) - 1
           q == ParsedUpTo(f)[m]
           u == ParsedUpTo(f)[c]
           p == EndPacket
           r == Parsed(packets)
           new == Append(packets, p)
           v == Parsed(new)
<1>1. /\ f \in Seq(Packet) /\ ExactStatus(f, Parsed(f)) = "ok" /\ WellFormed(f, c)
      /\ f[c].tag = "end" /\ Placed(edit)
      /\ c \in Nat /\ c >= 3 /\ b < c /\ b \in Nat /\ c \in 1..c /\ m \in 0..(c - 1) /\ m >= b
      /\ m # 0 /\ m \in Nat /\ m + 1 = c /\ c - 1 = m
  <2>1. /\ f \in Seq(Packet) /\ ExactStatus(f, Parsed(f)) = "ok" /\ WellFormed(f, c)
        /\ f[c].tag = "end" /\ Placed(edit)
        /\ c \in Nat /\ c >= 3 /\ b < c /\ b \in Nat
    BY ReplaceableIs
  <2> QED  BY <2>1
<1>2. q \in Parsers /\ q.status = "more" /\ q.count = m
  <2> HIDE DEF m
  <2> QED  BY <1>1, GoesOnBefore
<1>3. u = ParseStep(q, f[c]) /\ u = Parsed(f) /\ u.status = "done"
      /\ OthersUpTo(f)[c] = OthersNext(OthersUpTo(f)[m], f[c])
  <2>1. u = ParseStep(ParsedUpTo(f)[c - 1], f[c])
        /\ OthersUpTo(f)[c] = OthersNext(OthersUpTo(f)[c - 1], f[c])
    BY <1>1, ParsedRun, OthersRun
  <2>2. Parsed(f).status = "done"
    BY <1>1, ExactFrame
  <2> QED  BY <1>1, <2>1, <2>2 DEF Parsed
<1>4. f[c] = p /\ p \in Packet /\ p.tag = "end"
  <2>1. f[c] \in Packet
    BY <1>1
  <2>2. f[c].payload = <<>>
    <3>1. c \in 1..c /\ f[c].tag # "data"
      BY <1>1
    <3> QED  BY <1>1, <3>1 DEF WellFormed
  <2> QED  BY <1>1, <2>1, <2>2 DEF Packet, EndPacket
<1>5. /\ packets \in Seq(Packet) /\ OthersOf(packets) = OthersUpTo(f)[m]
      /\ Past(edit, n, whole, q, r)
  BY <1>1 DEF Tracks
<1> HIDE DEF p
<1>6. new \in Seq(Packet) /\ v = ParseStep(r, p) /\ r \in Parsers /\ Len(new) = Len(packets) + 1
      /\ Len(packets) \in Nat
  BY <1>4, <1>5, ParsedAppend
<1>7. OthersOf(new) = OthersOf(f)
  <2>1. OthersOf(new) = OthersNext(OthersOf(packets), p)
    BY <1>4, <1>5, OthersAppend
  <2> QED  BY <1>3, <1>4, <1>5, <2>1 DEF OthersNext, OthersOf
<1>8. /\ v.status = "done" /\ v.stream.status = "ok" /\ v.count = r.count + 1
      /\ SeenMoves(edit, n, whole, u.stream.seen, v.stream.seen)
  <2>1. u = ParseStep(q, p) /\ q.count # 0
    BY <1>1, <1>2, <1>3, <1>4
  <2> HIDE DEF q, u, r, v
  <2> QED  BY <1>1, <1>2, <1>3, <1>4, <1>5, <1>6, <2>1, PastEnd
<1>9. r.count = Len(packets)
  <2>1. r.status = "more"
    BY <1>5 DEF Past
  <2>2. r = ParsedUpTo(packets)[Len(packets)] /\ Len(packets) \in 0..Len(packets)
    BY <1>6 DEF Parsed
  <2>3. ParsedAt(packets, Len(packets), r)
    BY <1>5, <2>1, <2>2, ParsedTurns DEF Going
  <2> QED  BY <2>1, <2>3 DEF ParsedAt
<1> HIDE DEF v, new
<1>10. v.count = Len(new)
  BY <1>6, <1>8, <1>9
<1>11. ExactStatus(new, v) = "ok"
  BY <1>8, <1>10 DEF ExactStatus, RecordsStatus
<1> QED  BY <1>3, <1>6, <1>7, <1>8, <1>11 DEF Outcome, v, new, p

(* There is but one place an edit is about.                                *)
LEMMA OnePlace ==
  ASSUME NEW f \in Seq(Packet), NEW edit, NEW i, NEW b, TargetAt(f, edit, i, b),
         NEW j, NEW c, TargetAt(f, edit, j, c)
  PROVE  i = j /\ b = c
<1> DEFINE n == Len(f)
           O(k) == OffsetOf(f, k)
<1>1. /\ n \in Nat /\ i \in 1..n /\ b \in (i + 1)..(n - 1) /\ j \in 1..n /\ c \in (j + 1)..(n - 1)
      /\ edit.data.offset = O(i + 1) /\ SpanEnd(edit.data) = O(b + 1)
      /\ edit.data.offset = O(j + 1) /\ SpanEnd(edit.data) = O(c + 1)
  BY DEF TargetAt
<1>2. /\ i + 1 \in 1..(n + 1) /\ b + 1 \in 1..(n + 1) /\ j + 1 \in 1..(n + 1)
      /\ c + 1 \in 1..(n + 1) /\ i \in Nat /\ b \in Nat /\ j \in Nat /\ c \in Nat
  BY <1>1
<1>3. /\ O(i + 1) \in Nat /\ O(b + 1) \in Nat
      /\ i + 1 < j + 1 => O(i + 1) < O(j + 1)
      /\ j + 1 < i + 1 => O(j + 1) < O(i + 1)
      /\ b + 1 < c + 1 => O(b + 1) < O(c + 1)
      /\ c + 1 < b + 1 => O(c + 1) < O(b + 1)
  BY <1>2, OffsetsGrow
<1> HIDE DEF O, n
<1>4. i = j
  BY <1>1, <1>2, <1>3
<1>5. b = c
  BY <1>1, <1>2, <1>3
<1> QED  BY <1>4, <1>5

(* What Appended does when it goes well.                                   *)
LEMMA AppendedPackets ==
  ASSUME NEW r, IsRebuild(r), NEW packets, NEW a, a = Appended(r, packets), a.status = "ok"
  PROVE  IsRebuild(a) /\ a.packets = r.packets \o packets
<1> DEFINE l == r.length + WireBytes(packets)
           s == r.packets \o packets
           full0 == l > room
<1>0. r = [packets |-> r.packets, length |-> r.length, logical |-> r.logical,
           finished |-> r.finished, status |-> r.status]
  BY DEF IsRebuild
<1>1. a = IF full0 THEN [r EXCEPT !.status = "buffer_too_small"]
          ELSE [r EXCEPT !.packets = s, !.length = l]
  BY Zenon DEF Appended
<1> HIDE DEF s, l, full0
<1>2. CASE full0
  <2>1. a = [r EXCEPT !.status = "buffer_too_small"]
    BY <1>1, <1>2
  <2>2. a.status = "buffer_too_small"
    BY <1>0, <2>1
  <2> QED  BY <2>2
<1>3. CASE ~full0
  <2>1. a = [packets |-> s, length |-> l, logical |-> r.logical,
             finished |-> r.finished, status |-> r.status]
    BY <1>0, <1>1, <1>3
  <2>2. IsRebuild(a) /\ a.packets = s
    BY <2>1, RebuildFields
  <2> QED  BY <2>2 DEF s
<1> QED  BY <1>2, <1>3

(* A byte of the target's data after the rebuild.                          *)
LEMMA DataByteIs ==
  ASSUME samples \in Seq(0..255), full \in BOOLEAN, NEW i \in Nat \ {0}, NEW b \in 0..255
  PROVE  /\ DataByte(i, b) \in 0..255
         /\ i <= HeaderBytes => DataByte(i, b) = HeaderByte(Len(samples), full, i, b)
<1>0. /\ HeaderBytes \in Nat /\ RangeBytes \in Nat /\ 2 * RangeBytes <= HeaderBytes
      /\ Len(samples) \in Nat /\ samples \in Seq(0..255) /\ full \in BOOLEAN
  BY TopologyConstants
<1>1. CASE full /\ i <= RangeBytes
  BY <1>0, <1>1 DEF DataByte, HeaderByte
<1>2. CASE full /\ ~(i <= RangeBytes) /\ i <= 2 * RangeBytes
  <2>1. DataByte(i, b) = LengthByte(i - RangeBytes - 1)
    BY <1>2 DEF DataByte
  <2>2. HeaderByte(Len(samples), full, i, b) = (Len(samples) \div 256^(i - RangeBytes - 1)) % 256
    BY <1>2 DEF HeaderByte
  <2>3. DataByte(i, b) = HeaderByte(Len(samples), full, i, b)
    BY <2>1, <2>2, Zenon DEF LengthByte
  <2>4. HeaderByte(Len(samples), full, i, b) \in 0..255
    BY <1>0, HeaderByteIs
  <2> QED  BY <2>3, <2>4
<1>3. CASE ~(full /\ i <= RangeBytes) /\ ~(full /\ i <= 2 * RangeBytes)
  <2>1. CASE i <= HeaderBytes
    BY <1>3, <2>1 DEF DataByte, HeaderByte
  <2>2. CASE ~(i <= HeaderBytes)
    <3> DEFINE j == i - HeaderBytes
    <3>1. DataByte(i, b) = SampleAt(j)
      BY <1>3, <2>2 DEF DataByte
    <3>2. j \in Nat /\ j >= 1
      BY <1>0, <2>2
    <3> HIDE DEF j
    <3>3. SampleAt(j) \in 0..255
      <4>1. CASE j <= Len(samples)
        <5>1. j \in 1..Len(samples)
          BY <1>0, <3>2, <4>1
        <5>2. samples[j] \in 0..255
          BY <1>0, <5>1, SampleRange
        <5> QED  BY <4>1, <5>2 DEF SampleAt
      <4>2. CASE ~(j <= Len(samples))
        BY <4>2 DEF SampleAt
      <4> QED  BY <4>1, <4>2
    <3> QED  BY <2>2, <3>1, <3>3
  <2> QED  BY <2>1, <2>2
<1> QED  BY <1>0, <1>1, <1>2, <1>3

(* What a packet of the target becomes.                                    *)
LEMMA ReplacedIs ==
  ASSUME samples \in Seq(0..255), full \in BOOLEAN, NEW payload \in Seq(0..255),
         NEW logical \in Nat
  PROVE  /\ Replaced(logical, payload) \in Seq(0..255)
         /\ SameButHeader(Len(samples), full, logical, payload, Replaced(logical, payload))
<1> DEFINE m == Len(payload)
           B(j) == DataByte(logical + j, payload[j])
           c == [j \in 1..m |-> B(j)]
<1>1. m \in Nat /\ DOMAIN payload = 1..m
  OBVIOUS
<1>2. Replaced(logical, payload) = c
  BY <1>1, Zenon DEF Replaced
<1>3. ASSUME NEW j \in 1..m
      PROVE  /\ B(j) \in 0..255
             /\ logical + j <= HeaderBytes
                  => B(j) = HeaderByte(Len(samples), full, logical + j, payload[j])
  <2> DEFINE x == logical + j
  <2>1. payload[j] \in 0..255 /\ x \in Nat \ {0}
    BY <1>1, SampleRange
  <2> HIDE DEF x
  <2> QED  BY <2>1, DataByteIs DEF x
<1> HIDE DEF B, m
<1>4. c \in Seq(0..255) /\ Len(c) = m /\ \A j \in 1..m : c[j] = B(j)
  <2>1. c \in [1..m -> 0..255]
    BY <1>3
  <2> QED  BY <1>1, <2>1
<1> HIDE DEF c
<1>5. SameButHeader(Len(samples), full, logical, payload, c)
  BY <1>3, <1>4 DEF SameButHeader, m
<1> QED  BY <1>2, <1>4, <1>5

(* The growth of a rebuild is what its plan says.                          *)
LEMMA GrowthStands ==
  ASSUME samples \in Seq(0..255), plan.replacement.growth \in Nat,
         plan.replacement.existing \in Nat
  PROVE  IsGrowth(plan, GrowthPackets(plan.replacement.existing, plan.replacement.growth))
<1> DEFINE e == plan.replacement.existing
           x == plan.replacement.growth
           g == GrowthPackets(e, x)
           c == x \div BlockBytes
<1>1. e \in Nat /\ x \in Nat /\ samples \in Seq(0..255)
  OBVIOUS
<1>2. c \in Nat /\ BlockBytes \in Nat \ {0} /\ PacketsPerBlock \in Nat
      /\ ChunksPerBlock = PacketsPerBlock /\ OverheadBytes = 5
  BY <1>1, ChunksAre, TopologyConstants
<1>3. g \in Seq(Packet) /\ (\A k \in 1..Len(g) : g[k].tag = "data")
      /\ WireBytes(g) = GrowthBytes(plan) /\ Len(g) = c * ChunksPerBlock
  <2> HIDE DEF e, x
  <2>1. /\ g \in Seq(Packet) /\ (\A k \in 1..Len(g) : g[k].tag = "data")
        /\ WireBytes(g) = (x \div BlockBytes) * BlockWire
        /\ Len(g) = (x \div BlockBytes) * ChunksPerBlock
    BY <1>1, GrowthIs
  <2> HIDE DEF g
  <2> QED  BY <2>1, Zenon DEF GrowthBytes, x
<1>4. WireBytes(g) - 5 * Len(g) = GrowthData(plan)
  <2>1. WireBytes(g) = c * (BlockBytes + PacketsPerBlock * 5) /\ Len(g) = c * PacketsPerBlock
    BY <1>2, <1>3 DEF GrowthBytes, BlockWire
  <2>2. GrowthData(plan) = c * BlockBytes
    BY DEF GrowthData
  <2> DEFINE P == PacketsPerBlock
             B == BlockBytes
             y == c * P
             z == c * B
  <2> HIDE DEF c, P, B, g
  <2>3. c * (B + P * 5) = z + 5 * y /\ y \in Nat /\ z \in Nat
    BY <1>2 DEF P, B
  <2> DEFINE v == c * (B + P * 5)
             w == WireBytes(g)
             l == Len(g)
  <2>4. w = v /\ l = y /\ v = z + 5 * y /\ y \in Nat /\ z \in Nat
    BY <2>1, <2>3 DEF P, B
  <2> HIDE DEF v, w, l, y, z
  <2>5. w - 5 * l = z
    BY <2>4
  <2> QED  BY <2>2, <2>5 DEF w, l, z, B
<1> HIDE DEF g
<1> QED  BY <1>3, <1>4, Zenon DEF IsGrowth, g, e, x

(* A chunk begins where the one before ended.                              *)
LEMMA NextChunk ==
  ASSUME NEW k \in Nat
  PROVE  /\ ChunkStart(k) \in Nat /\ ChunkLen(k) \in Nat
         /\ ChunkStart(k + 1) = ChunkStart(k) + ChunkLen(k) /\ ChunkStart(0) = 0
<1> DEFINE C == ChunksPerBlock
           d == MaxPayload
           B == BlockBytes
           m == k \div C
           j == k % C
<1>1. C \in Nat \ {0} /\ d \in Nat \ {0} /\ B \in Nat \ {0}
  BY ChunksAre
<1> HIDE DEF C, d, B
<1>2. m \in Nat /\ j \in 0..(C - 1) /\ k = m * C + j
  BY <1>1
<1>3. ChunkStart(k) = m * B + j * d
  BY DEF ChunkStart, C, d, B
<1>4. 0 \div C = 0 /\ 0 % C = 0
  BY <1>1
<1>5. ChunkStart(0) = 0
  <2>1. ChunkStart(0) = 0 * B + 0 * d
    BY <1>4 DEF ChunkStart, C, d, B
  <2> QED  BY <1>1, <2>1
<1> HIDE DEF m, j
<1>6. ChunkStart(k) \in Nat /\ ChunkLen(k) \in Nat
      /\ ChunkLen(k) = IF j # C - 1 THEN d ELSE B - j * d
  BY <1>2, ChunkIs DEF C, d, B
<1> DEFINE x == m * B
           z == j * d
           y == m * C
<1>7. x \in Nat /\ z \in Nat /\ y \in Nat /\ (j + 1) * d = z + d /\ (m + 1) * B = x + B
      /\ (m + 1) * C = y + C /\ 0 * d = 0 /\ j \in Nat
  BY <1>1, <1>2
<1>8. CASE j # C - 1
  <2>1. j + 1 \in 0..(C - 1) /\ k + 1 = m * C + (j + 1)
    <3>1. j + 1 \in 0..(C - 1) /\ k = y + j
      BY <1>1, <1>2, <1>8
    <3> HIDE DEF y
    <3>2. k + 1 = y + (j + 1)
      BY <1>7, <3>1
    <3> QED  BY <3>1, <3>2 DEF y
  <2>2. (k + 1) \div C = m /\ (k + 1) % C = j + 1
    BY <1>2, <2>1, ChunkIs DEF C
  <2>3. ChunkStart(k + 1) = m * B + (j + 1) * d
    BY <2>2 DEF ChunkStart, C, d, B
  <2>4. ChunkLen(k) = d
    BY <1>6, <1>8
  <2>5. ChunkStart(k + 1) = x + (z + d) /\ ChunkStart(k) = x + z
    BY <1>3, <1>7, <2>3
  <2> HIDE DEF x, z
  <2>6. ChunkStart(k + 1) = ChunkStart(k) + ChunkLen(k)
    BY <1>1, <1>7, <2>4, <2>5
  <2> QED  BY <1>5, <1>6, <2>6
<1>9. CASE j = C - 1
  <2>1. 0 \in 0..(C - 1) /\ m + 1 \in Nat /\ k + 1 = (m + 1) * C + 0
    <3>1. k = y + j /\ (m + 1) * C = y + C /\ 0 \in 0..(C - 1) /\ m + 1 \in Nat
      BY <1>1, <1>2, <1>7
    <3> HIDE DEF y
    <3>2. k + 1 = (y + C) + 0
      BY <1>1, <1>7, <1>9, <3>1
    <3> QED  BY <3>1, <3>2
  <2>2. (k + 1) \div C = m + 1 /\ (k + 1) % C = 0
    BY <2>1, ChunkIs DEF C
  <2>3. ChunkStart(k + 1) = (m + 1) * B + 0 * d
    BY <2>2 DEF ChunkStart, C, d, B
  <2>4. ChunkLen(k) = B - z
    BY <1>6, <1>9
  <2>5. ChunkStart(k + 1) = (x + B) + 0 /\ ChunkStart(k) = x + z
    BY <1>3, <1>7, <2>3
  <2> HIDE DEF x, z
  <2>6. ChunkStart(k + 1) = ChunkStart(k) + ChunkLen(k)
    BY <1>1, <1>7, <2>4, <2>5
  <2> QED  BY <1>5, <1>6, <2>6
<1> QED  BY <1>8, <1>9

(* The growth of a rebuild carries the samples behind the old ones.        *)
LEMMA GrowthFilled ==
  ASSUME samples \in Seq(0..255), plan.replacement.growth \in Nat,
         plan.replacement.existing \in Nat
  PROVE  GrowthCarries(plan, samples,
                       GrowthPackets(plan.replacement.existing, plan.replacement.growth))
<1> DEFINE e == plan.replacement.existing
           x == plan.replacement.growth
           g == GrowthPackets(e, x)
           n == (x \div BlockBytes) * ChunksPerBlock
           D(k) == [j \in 1..ChunkLen(k - 1) |-> SampleAt(e + ChunkStart(k - 1) + j)]
<1>1. e \in Nat /\ HeaderBytes \in Nat
  BY TopologyConstants
<1>2. Len(g) = n /\ n \in Nat
  <2>1. g \in Seq(Packet) /\ Len(g) = n
    BY GrowthIs
  <2> HIDE DEF g, n
  <2> QED  BY <2>1
<1>3. g = [k \in 1..n |-> [tag |-> "data", payload |-> D(k)]]
  BY DEF GrowthPackets
<1> HIDE DEF e, x, g, n, D
<1>4. ASSUME NEW k \in 1..Len(g)
      PROVE  /\ Len(g[k].payload) = ChunkLen(k - 1)
             /\ Carries(samples, HeaderBytes + e + ChunkStart(k - 1), g[k].payload)
  <2> DEFINE l == ChunkLen(k - 1)
             o == ChunkStart(k - 1)
             v == [j \in 1..l |-> SampleAt(e + o + j)]
  <2>1. l \in Nat /\ o \in Nat
    <3>1. k - 1 \in Nat
      BY <1>2
    <3> QED  BY <3>1, NextChunk
  <2>2. g[k].payload = v
    <3>1. g[k].payload = D(k)
      BY <1>2, <1>3
    <3> QED  BY <3>1 DEF D
  <2> HIDE DEF l, o
  <2>3. DOMAIN v = 1..l /\ Len(v) = l
    <3> DEFINE S == { SampleAt(e + o + j) : j \in 1..l }
    <3>1. v \in [1..l -> S]
      OBVIOUS
    <3> HIDE DEF v, S
    <3> QED  BY <2>1, <3>1
  <2>4. ASSUME NEW j \in 1..l
        PROVE  v[j] = SampleIn(samples, ((HeaderBytes + e + o) + j) - HeaderBytes)
    <3>1. ((HeaderBytes + e + o) + j) - HeaderBytes = e + o + j
      BY <1>1, <2>1
    <3>2. v[j] = SampleAt(e + o + j)
      OBVIOUS
    <3> HIDE DEF v
    <3>3. SampleAt(e + o + j) = SampleIn(samples, e + o + j)
      BY DEF SampleAt, SampleIn
    <3> QED  BY <3>1, <3>2, <3>3
  <2> HIDE DEF v
  <2>5. Carries(samples, HeaderBytes + e + o, v)
    BY <2>3, <2>4 DEF Carries
  <2> QED  BY <2>2, <2>3, <2>5 DEF l, o
<1>5. GrowthCarries(plan, samples, g)
  BY <1>4 DEF GrowthCarries, e
<1> QED  BY <1>5 DEF g, e, x

(* So does what a packet of the target becomes.                            *)
LEMMA ReplacedFilled ==
  ASSUME NEW payload \in Seq(0..255), NEW logical \in Nat
  PROVE  Carries(samples, logical, Replaced(logical, payload))
<1> DEFINE c == Replaced(logical, payload)
           m == Len(payload)
<1>1. m \in Nat /\ DOMAIN payload = 1..m /\ Len(c) = m
  BY ReplacedLength
<1>2. c = [j \in 1..m |-> DataByte(logical + j, payload[j])]
  BY <1>1, Zenon DEF Replaced
<1> HIDE DEF c, m
<1>3. ASSUME NEW j \in 1..m, logical + j > HeaderBytes
      PROVE  c[j] = SampleIn(samples, (logical + j) - HeaderBytes)
  <2> DEFINE i == logical + j
  <2>1. HeaderBytes \in Nat /\ RangeBytes \in Nat /\ 2 * RangeBytes <= HeaderBytes
        /\ i \in Nat /\ i > HeaderBytes
    BY <1>1, <1>3, TopologyConstants
  <2>2. c[j] = DataByte(i, payload[j])
    BY <1>2
  <2> HIDE DEF i
  <2>3. ~(i <= RangeBytes) /\ ~(i <= 2 * RangeBytes) /\ ~(i <= HeaderBytes)
    BY <2>1
  <2>4. DataByte(i, payload[j]) = SampleAt(i - HeaderBytes)
    BY <2>3 DEF DataByte
  <2> QED  BY <2>2, <2>4 DEF SampleAt, SampleIn, i
<1>4. Carries(samples, logical, c)
  BY <1>1, <1>3 DEF Carries
<1> QED  BY <1>4 DEF c

(* What a step of the rebuild that goes well adds.                         *)
LEMMA RebuildAdds ==
  ASSUME NEW f, Building(f), full \in BOOLEAN, NEW k \in 1..Len(f), NEW i, NEW b,
         TargetAt(f, plan, i, b), NEW r, IsRebuild(r), r.status = "ok",
         r.packets \in Seq(Packet), r.logical = Logical(f, i, k - 1),
         NEW t, t = RebuildStep(r, OffsetOf(f, k), f[k]), t.status = "ok"
  PROVE  /\ k \in {1, Len(f)} => t.packets = r.packets
         /\ k \notin {1, Len(f)} =>
              Adds(f, plan, samples, full, i, b, k, r.packets, t.packets)
<1> DEFINE n == Len(f)
           p == f[k]
           o == OffsetOf(f, k)
           w == WireLen(p)
           T == TargetDataBytes
           E == SpanEnd(plan.data)
<1>1. /\ f \in Seq(Packet) /\ f # <<>> /\ f[n].tag = "end" /\ WellFormed(f, n)
      /\ samples \in Seq(0..255) /\ plan.replacement.growth \in Nat
      /\ plan.replacement.existing \in Nat /\ full \in BOOLEAN
  BY DEF Building
<1>0. expected = plan
  BY DEF Building
<1>2. /\ InTarget(o) <=> k \in (i + 1)..b
      /\ k \in (i + 1)..b => p.tag = "data" /\ ((o + w = E) <=> k = b)
      /\ p.tag \in {"begin", "end"} <=> k \in {1, n}
      /\ i \in Nat /\ b \in Nat /\ b < n /\ i >= 1
  <2>1. InTarget(o) <=> plan.data.offset <= o /\ o < SpanEnd(plan.data)
    BY <1>0, Zenon DEF InTarget
  <2> QED  BY <1>1, <2>1, WhereItIs
<1>3. p \in Packet /\ p.payload \in Seq(0..255)
  <2>1. p \in Packet
    BY <1>1
  <2> QED  BY <2>1, WireLenIs DEF Payload
<1> HIDE DEF n, p, o, w, T, E
<1>4. CASE k \in {1, n}
  <2>1. t = r
    BY <1>2, <1>4 DEF RebuildStep, p, o
  <2> QED  BY <1>4, <2>1 DEF n
<1>5. CASE k \notin {1, n} /\ k \notin (i + 1)..b
  <2>1. p.tag \notin {"begin", "end"} /\ ~InTarget(o)
    BY <1>2, <1>5
  <2>2. t = Appended(r, <<p>>)
    BY <2>1, Zenon DEF RebuildStep, p, o
  <2>3. t.packets = r.packets \o <<p>>
    BY <2>2, AppendedPackets
  <2>4. t.packets = Append(r.packets, p)
    BY <1>3, <2>3
  <2> QED  BY <1>5, <2>4 DEF Adds, p, n
<1>6. CASE k \in (i + 1)..b
  <2> DEFINE m == Len(p.payload)
             L == r.logical + m
             c == Replaced(r.logical, p.payload)
             q == [p EXCEPT !.payload = c]
             u == [r EXCEPT !.logical = L]
             a == Appended(u, <<q>>)
  <2>1. r.logical \in Nat
    <3>1. k - 1 \in 0..Len(f) /\ Len(f) \in Nat
      BY <1>1
    <3>2. DataRunOf(f, i)[k - 1] \in Payload
      BY <1>1, <3>1, DataRunOfIs
    <3> QED  BY <3>2, PayloadConcat DEF Logical
  <2>2. /\ c \in Seq(0..255)
        /\ SameButHeader(Len(samples), full, r.logical, p.payload, c)
        /\ Carries(samples, r.logical, c)
    BY <1>1, <1>3, <2>1, ReplacedIs, ReplacedFilled
  <2>3. q \in Packet /\ q.tag = "data" /\ q.payload = c
    <3> HIDE DEF c
    <3>1. p.tag = "data"
      BY <1>2, <1>6
    <3> QED  BY <1>3, <2>2, <3>1 DEF Packet
  <2>4. IsRebuild(u) /\ u.packets = r.packets
    <3> HIDE DEF L
    <3>1. u = [packets |-> r.packets, length |-> r.length, logical |-> L,
               finished |-> r.finished, status |-> r.status]
      <4>1. r = [packets |-> r.packets, length |-> r.length, logical |-> r.logical,
                 finished |-> r.finished, status |-> r.status]
        BY DEF IsRebuild
      <4> QED  BY <4>1
    <3> HIDE DEF u
    <3> QED  BY <3>1, RebuildFields
  <2>5. t = Grown(a, o, p)
    <3>1. p.tag \notin {"begin", "end"} /\ InTarget(o)
      BY <1>2, <1>6
    <3> DEFINE bad == p.tag # "data" \/ o + w > E \/ L > T
               s == [r EXCEPT !.status = "frame"]
    <3>2. t = IF bad THEN s ELSE Grown(a, o, p)
      BY <1>0, <3>1, Zenon DEF RebuildStep, a, u, q, c, m, L, T, E, w, o, p
    <3>3. s.status = "frame"
      BY DEF IsRebuild
    <3> HIDE DEF s, bad, a
    <3> QED  BY <3>2, <3>3
  <2> HIDE DEF q, u, c, m, L
  <2> DEFINE g == GrowthPackets(plan.replacement.existing, plan.replacement.growth)
             x == Appended(a, g)
             y == [x EXCEPT !.finished = (x.status = "ok")]
  <2>6. t = IF a.status = "ok" /\ o + w = E THEN y ELSE a
    BY <1>0, <2>5, Zenon DEF Grown, w, E
  <2> HIDE DEF a, g
  <2>7. ASSUME a.status = "ok" PROVE IsRebuild(a) /\ a.packets = Append(r.packets, q)
    <3>1. a = Appended(u, <<q>>)
      BY DEF a
    <3>2. IsRebuild(a) /\ a.packets = r.packets \o <<q>>
      BY <2>4, <2>7, <3>1, AppendedPackets
    <3>3. r.packets \o <<q>> = Append(r.packets, q)
      BY <2>3
    <3> QED  BY <3>2, <3>3
  <2>8. a.status = "ok"
    <3> HIDE DEF y
    <3> QED  BY <2>6
  <2>9. ASSUME k # b PROVE t.packets = Append(r.packets, q)
    <3>1. ~(o + w = E)
      BY <1>2, <1>6, <2>9
    <3> HIDE DEF y
    <3> QED  BY <2>6, <2>7, <2>8, <3>1
  <2>10. ASSUME k = b PROVE t.packets = Append(r.packets, q) \o g
    <3>1. t = y
      <4>1. o + w = E
        BY <1>2, <1>6, <2>10
      <4> HIDE DEF y
      <4> QED  BY <2>6, <2>8, <4>1
    <3>2. IsRebuild(a)
      BY <2>7, <2>8
    <3>3. x = x /\ x.packets = a.packets \o g /\ t.packets = x.packets
      <4> DEFINE l == a.length + WireBytes(g)
                 s == a.packets \o g
                 over == l > room
      <4>1. x = IF over THEN [a EXCEPT !.status = "buffer_too_small"]
                ELSE [a EXCEPT !.packets = s, !.length = l]
        BY Zenon DEF Appended
      <4>2. a = [packets |-> a.packets, length |-> a.length, logical |-> a.logical,
                 finished |-> a.finished, status |-> a.status]
        BY <3>2 DEF IsRebuild
      <4> HIDE DEF s, l, over, x
      <4>3. CASE over
        <5>1. x = [packets |-> a.packets, length |-> a.length, logical |-> a.logical,
                   finished |-> a.finished, status |-> "buffer_too_small"]
          BY <4>1, <4>2, <4>3
        <5>2. t.status = "buffer_too_small"
          BY <3>1, <5>1
        <5> QED  BY <5>2
      <4>4. CASE ~over
        <5>1. x = [packets |-> s, length |-> l, logical |-> a.logical,
                   finished |-> a.finished, status |-> a.status]
          BY <4>1, <4>2, <4>4
        <5>2. x.packets = s /\ t.packets = s
          BY <3>1, <5>1
        <5> QED  BY <5>2 DEF s
      <4> QED  BY <4>3, <4>4
    <3> QED  BY <2>7, <2>8, <3>3
  <2>11. IsGrowth(plan, g) /\ GrowthCarries(plan, samples, g)
    BY <1>1, GrowthStands, GrowthFilled DEF g
  <2> DEFINE added == Adds(f, plan, samples, full, i, b, k, r.packets, t.packets)
  <2>12. added
    <3>1. /\ SameButHeader(Len(samples), full, Logical(f, i, k - 1), f[k].payload, q.payload)
          /\ Carries(samples, Logical(f, i, k - 1), q.payload)
      BY <2>2, <2>3 DEF p
    <3> QED  BY <1>6, <2>3, <2>9, <2>10, <2>11, <3>1, Zenon DEF Adds
  <2>13. k \notin {1, n}
    BY <1>1, <1>2, <1>6
  <2> QED  BY <2>12, <2>13 DEF n
<1> QED  BY <1>4, <1>5, <1>6

(* One more packet of the old frame handed over.                           *)
LEMMA TrackGoesOn ==
  ASSUME NEW f, NEW edit, NEW i, NEW b, Replaceable(f, edit, i, b), NEW run,
         NEW n \in Nat, n = Len(run),
         NEW whole \in BOOLEAN, NEW m \in Nat, m >= 1, m + 1 < Len(f),
         NEW packets, Tracks(f, edit, n, whole, i, b, m, packets),
         NEW new, Adds(f, edit, run, whole, i, b, m + 1, packets, new)
  PROVE  Tracks(f, edit, n, whole, i, b, m + 1, new)
<1>0. (m + 1) - 1 = m
  OBVIOUS
<1>1. CASE m + 1 \notin (i + 1)..b
  <2>1. new = Append(packets, f[m + 1])
    BY <1>1 DEF Adds
  <2> QED  BY <1>1, <2>1, TrackOutside
<1>2. CASE m + 1 \in (i + 1)..b
  <2>1. \E d \in Packet : \E g :
          /\ d.tag = "data"
          /\ SameButHeader(n, whole, Logical(f, i, m), f[m + 1].payload, d.payload)
          /\ m + 1 # b => new = Append(packets, d)
          /\ m + 1 = b => IsGrowth(edit, g) /\ new = Append(packets, d) \o g
    BY <1>0, <1>2, Zenon DEF Adds
  <2>2. PICK d \in Packet : \E g :
          /\ d.tag = "data"
          /\ SameButHeader(n, whole, Logical(f, i, m), f[m + 1].payload, d.payload)
          /\ m + 1 # b => new = Append(packets, d)
          /\ m + 1 = b => IsGrowth(edit, g) /\ new = Append(packets, d) \o g
    BY <2>1
  <2>3. PICK g :
          /\ d.tag = "data"
          /\ SameButHeader(n, whole, Logical(f, i, m), f[m + 1].payload, d.payload)
          /\ m + 1 # b => new = Append(packets, d)
          /\ m + 1 = b => IsGrowth(edit, g) /\ new = Append(packets, d) \o g
    BY <2>2
  <2>4. /\ m + 1 # b => Tracks(f, edit, n, whole, i, b, m + 1, Append(packets, d))
        /\ \A h : m + 1 = b /\ IsGrowth(edit, h) =>
             Tracks(f, edit, n, whole, i, b, m + 1, Append(packets, d) \o h)
    BY <1>2, <2>3, TrackInside
  <2> QED  BY <2>3, <2>4
<1> QED  BY <1>1, <1>2

(* BEGIN stands, nothing has been handed over.                             *)
LEMMA TrackBegins ==
  ASSUME NEW f, NEW edit, NEW i, NEW b, Replaceable(f, edit, i, b), NEW n \in Nat,
         NEW whole \in BOOLEAN
  PROVE  Tracks(f, edit, n, whole, i, b, 1, <<[tag |-> "begin", payload |-> <<>>]>>)
<1> DEFINE p == [tag |-> "begin", payload |-> <<>>]
           s == <<p>>
<1>1. /\ f \in Seq(Packet) /\ TargetAt(f, edit, i, b) /\ WellFormed(f, Len(f))
      /\ i \in Nat /\ b \in Nat /\ i >= 1 /\ i < b /\ b < Len(f) /\ Len(f) \in Nat
  BY ReplaceableIs
<1>2. f[1] = p /\ p \in Packet /\ p.tag = "begin"
  <2>1. 1 \in 1..Len(f) /\ f[1] \in Packet
    BY <1>1
  <2>2. f[1].tag = "begin" /\ f[1].payload = <<>>
    BY <1>1, <2>1 DEF WellFormed
  <2> QED  BY <2>1, <2>2 DEF Packet
<1>3. 1 < i
  <2>1. f[i].tag = "select"
    BY <1>1 DEF TargetAt
  <2> QED  BY <1>1, <1>2, <2>1
<1> HIDE DEF p
<1>4. s \in Seq(Packet) /\ Len(s) = 1 /\ s[1] = p
  BY <1>2
<1> HIDE DEF s
<1>5. ParsedUpTo(f)[1] = ParsedUpTo(s)[1]
  <2>1. Len(s) <= Len(f) /\ \A k \in 1..Len(s) : f[k] = s[k]
    BY <1>1, <1>2, <1>4
  <2>2. 1 \in 0..Len(s)
    BY <1>4
  <2> QED  BY <1>1, <1>4, <2>1, <2>2, ParsedPrefix
<1>6. Parsed(s) = ParsedUpTo(f)[1]
  BY <1>4, <1>5 DEF Parsed
<1>7. OthersOf(s) = OthersUpTo(f)[1]
  <2>1. OthersUpTo(f)[0] = <<>> /\ \A k \in 1..Len(f) : OthersUpTo(f)[k] = OthersNext(OthersUpTo(f)[k-1], f[k])
    BY <1>1, OthersRun
  <2>2. OthersUpTo(s)[0] = <<>> /\ \A k \in 1..Len(s) : OthersUpTo(s)[k] = OthersNext(OthersUpTo(s)[k-1], s[k])
    BY <1>4, OthersRun
  <2>3. 1 \in 1..Len(f) /\ 1 \in 1..Len(s) /\ 1 - 1 = 0
    BY <1>1, <1>4
  <2>4. OthersUpTo(f)[1] = OthersNext(<<>>, p)
    BY <1>2, <2>1, <2>3
  <2>5. OthersUpTo(s)[1] = OthersNext(<<>>, p)
    BY <1>4, <2>2, <2>3
  <2> QED  BY <1>4, <2>4, <2>5 DEF OthersOf
<1>8. ~(1 >= i) /\ ~(1 >= b)
  BY <1>1, <1>3
<1>9. Tracks(f, edit, n, whole, i, b, 1, s)
  BY <1>4, <1>6, <1>7, <1>8 DEF Tracks
<1> QED  BY <1>9 DEF s, p

(* Behind the target, whose last packet is b: the growth, then the old     *)
(* frame's next packet.                                                    *)
Behind(f, edit, run, b, m, packets, g) ==
  /\ g \in Seq(Packet) /\ GrowthCarries(edit, run, g) /\ Len(packets) = m + Len(g)
  /\ \A j \in 1..Len(g) : packets[b + j] = g[j]
  /\ m > b => packets[b + Len(g) + 1] = f[b + 1]

(* What is no data among the packets is one of f's first m, in their order. *)
MarksStay(f, m, packets) ==
  /\ \A x \in 1..Len(packets) :
       packets[x].tag # "data" => \E k \in 1..m : f[k] = packets[x]
  /\ \A x, y \in 1..Len(packets) :
       x < y /\ packets[x].tag # "data" /\ packets[y].tag # "data" =>
         \E j, k \in 1..m : j < k /\ f[j] = packets[x] /\ f[k] = packets[y]

(* What is built of the old frame's first m packets, place by place: those *)
(* before the target as they were, the target's with the run's samples in  *)
(* them, then the growth.                                                  *)
Fills(f, edit, run, i, b, m, packets) ==
  /\ packets \in Seq(Packet) /\ Len(packets) >= m /\ MarksStay(f, m, packets)
  /\ m < b => Len(packets) = m
  /\ \A k \in 1..i : k <= m => packets[k] = f[k]
  /\ \A k \in (i + 1)..b : k <= m =>
       /\ Len(packets[k].payload) = Len(f[k].payload)
       /\ Carries(run, Logical(f, i, k - 1), packets[k].payload)
  /\ m >= b => \E g : Behind(f, edit, run, b, m, packets, g)

(* A run and one packet more.                                              *)
LEMMA AppendedRun ==
  ASSUME NEW s \in Seq(Packet), NEW p \in Packet
  PROVE  /\ Append(s, p) \in Seq(Packet) /\ Len(Append(s, p)) = Len(s) + 1 /\ Len(s) \in Nat
         /\ \A k \in 1..Len(s) : Append(s, p)[k] = s[k]
         /\ Append(s, p)[Len(s) + 1] = p
  OBVIOUS

(* One of f's packets more.                                                *)
LEMMA MarkAdded ==
  ASSUME NEW f, NEW m \in Nat, NEW packets \in Seq(Packet), MarksStay(f, m, packets),
         f[m + 1] \in Packet
  PROVE  MarksStay(f, m + 1, Append(packets, f[m + 1]))
<1> DEFINE p == f[m + 1]
           z == Append(packets, p)
           c == Len(packets)
<1>1. /\ c \in Nat /\ Len(z) = c + 1 /\ z[c + 1] = p
      /\ \A k \in 1..c : z[k] = packets[k]
  <2> HIDE DEF p
  <2> QED  BY AppendedRun DEF p
<1>2. m + 1 \in 1..(m + 1) /\ \A k \in 1..m : k \in 1..(m + 1) /\ k < m + 1
  OBVIOUS
<1> HIDE DEF z
<1>3. ASSUME NEW x \in 1..Len(z), z[x].tag # "data"
      PROVE  \E k \in 1..(m + 1) : f[k] = z[x]
  <2>1. CASE x \in 1..c
    <3>1. z[x] = packets[x]
      BY <1>1, <2>1
    <3>2. \E k \in 1..m : f[k] = packets[x]
      BY <1>3, <2>1, <3>1 DEF MarksStay, c
    <3> QED  BY <1>2, <3>1, <3>2
  <2>2. CASE x = c + 1
    BY <1>1, <1>2, <2>2
  <2> QED  BY <1>1, <2>1, <2>2
<1>4. ASSUME NEW x \in 1..Len(z), NEW y \in 1..Len(z), x < y, z[x].tag # "data",
             z[y].tag # "data"
      PROVE  \E j, k \in 1..(m + 1) : j < k /\ f[j] = z[x] /\ f[k] = z[y]
  <2>1. x \in 1..c /\ z[x] = packets[x]
    BY <1>1, <1>4
  <2>2. CASE y \in 1..c
    <3>1. z[y] = packets[y]
      BY <1>1, <2>2
    <3>2. \E j, k \in 1..m : j < k /\ f[j] = packets[x] /\ f[k] = packets[y]
      BY <1>4, <2>1, <2>2, <3>1 DEF MarksStay, c
    <3> QED  BY <1>2, <2>1, <3>1, <3>2
  <2>3. CASE y = c + 1
    <3>1. PICK j \in 1..m : f[j] = packets[x]
      BY <1>4, <2>1 DEF MarksStay, c
    <3>2. j \in 1..(m + 1) /\ j < m + 1 /\ f[m + 1] = z[y]
      BY <1>1, <1>2, <2>3
    <3> QED  BY <1>2, <2>1, <3>1, <3>2
  <2> QED  BY <1>1, <2>2, <2>3
<1>5. MarksStay(f, m + 1, z)
  BY <1>3, <1>4 DEF MarksStay
<1> QED  BY <1>5 DEF z, p

(* Data more.                                                              *)
LEMMA DataAdded ==
  ASSUME NEW f, NEW m \in Nat, NEW packets \in Seq(Packet), MarksStay(f, m, packets),
         NEW z \in Seq(Packet), \A k \in 1..Len(packets) : z[k] = packets[k],
         \A k \in 1..Len(z) : k > Len(packets) => z[k].tag = "data"
  PROVE  MarksStay(f, m + 1, z)
<1> DEFINE c == Len(packets)
<1>1. c \in Nat /\ Len(z) \in Nat /\ \A k \in 1..m : k \in 1..(m + 1)
  OBVIOUS
<1>2. ASSUME NEW x \in 1..Len(z), z[x].tag # "data"
      PROVE  x \in 1..c /\ z[x] = packets[x] /\ packets[x].tag # "data"
  <2>1. x \in 1..c
    BY <1>1, <1>2
  <2> QED  BY <1>2, <2>1
<1>3. ASSUME NEW x \in 1..Len(z), z[x].tag # "data"
      PROVE  \E k \in 1..(m + 1) : f[k] = z[x]
  <2>1. x \in 1..c /\ z[x] = packets[x] /\ packets[x].tag # "data"
    BY <1>2, <1>3
  <2>2. \E k \in 1..m : f[k] = packets[x]
    BY <2>1 DEF MarksStay
  <2> QED  BY <1>1, <2>1, <2>2
<1>4. ASSUME NEW x \in 1..Len(z), NEW y \in 1..Len(z), x < y, z[x].tag # "data",
             z[y].tag # "data"
      PROVE  \E j, k \in 1..(m + 1) : j < k /\ f[j] = z[x] /\ f[k] = z[y]
  <2>1. /\ x \in 1..c /\ z[x] = packets[x] /\ packets[x].tag # "data"
        /\ y \in 1..c /\ z[y] = packets[y] /\ packets[y].tag # "data"
    BY <1>2, <1>4
  <2>2. \E j, k \in 1..m : j < k /\ f[j] = packets[x] /\ f[k] = packets[y]
    BY <1>4, <2>1 DEF MarksStay
  <2> QED  BY <1>1, <2>1, <2>2
<1> QED  BY <1>3, <1>4 DEF MarksStay

(* A packet outside the target.                                            *)
LEMMA FillOutside ==
  ASSUME NEW f, NEW edit, NEW i, NEW b, Replaceable(f, edit, i, b), NEW run,
         NEW m \in Nat, m >= 1, m + 1 <= Len(f), m + 1 \notin (i + 1)..b,
         NEW packets, Fills(f, edit, run, i, b, m, packets)
  PROVE  Fills(f, edit, run, i, b, m + 1, Append(packets, f[m + 1]))
<1> DEFINE p == f[m + 1]
           new == Append(packets, p)
           c == Len(packets)
<1>1. f \in Seq(Packet) /\ i \in Nat /\ b \in Nat /\ Len(f) \in Nat /\ i >= 1 /\ i < b
      /\ b < Len(f)
  BY ReplaceableIs
<1>2. /\ packets \in Seq(Packet) /\ c >= m /\ c \in Nat
      /\ m < b => c = m
      /\ \A k \in 1..i : k <= m => packets[k] = f[k]
      /\ \A k \in (i + 1)..b : k <= m =>
           /\ Len(packets[k].payload) = Len(f[k].payload)
           /\ Carries(run, Logical(f, i, k - 1), packets[k].payload)
      /\ m >= b => \E g : Behind(f, edit, run, b, m, packets, g)
  BY DEF Fills
<1>3. p \in Packet
  <2>1. m + 1 \in 1..Len(f)
    BY <1>1
  <2> QED  BY <1>1, <2>1
<1>4. /\ new \in Seq(Packet) /\ Len(new) = c + 1
      /\ \A k \in 1..c : new[k] = packets[k]
      /\ new[c + 1] = p
  <2> HIDE DEF p
  <2> QED  BY <1>2, <1>3, AppendedRun
<1> HIDE DEF new, c
<1>5. ASSUME NEW k \in 1..i, k <= m + 1 PROVE new[k] = f[k]
  <2>1. CASE k <= m
    <3>1. k \in 1..c
      BY <1>1, <1>2, <2>1
    <3> QED  BY <1>2, <1>4, <2>1, <3>1
  <2>2. CASE ~(k <= m)
    <3>1. k = m + 1 /\ c = m
      BY <1>1, <1>2, <1>5, <2>2
    <3> QED  BY <1>4, <3>1
  <2> QED  BY <2>1, <2>2
<1>6. ASSUME NEW k \in (i + 1)..b, k <= m + 1
      PROVE  /\ Len(new[k].payload) = Len(f[k].payload)
             /\ Carries(run, Logical(f, i, k - 1), new[k].payload)
  <2>1. k <= m /\ k \in 1..c
    BY <1>1, <1>2, <1>6
  <2> QED  BY <1>2, <1>4, <2>1
<1>7. ASSUME m + 1 >= b PROVE \E g : Behind(f, edit, run, b, m + 1, new, g)
  <2>1. m >= b
    <3>1. b # m + 1
      BY <1>1
    <3> QED  BY <1>1, <1>7, <3>1
  <2>2. PICK g : Behind(f, edit, run, b, m, packets, g)
    BY <1>2, <2>1
  <2>3. /\ g \in Seq(Packet) /\ GrowthCarries(edit, run, g) /\ c = m + Len(g)
        /\ \A j \in 1..Len(g) : packets[b + j] = g[j]
        /\ m > b => packets[b + Len(g) + 1] = f[b + 1]
    BY <2>2 DEF Behind, c
  <2>4. Len(new) = (m + 1) + Len(g)
    BY <1>2, <1>4, <2>3
  <2>5. ASSUME NEW j \in 1..Len(g) PROVE new[b + j] = g[j]
    <3>1. b + j \in 1..c
      BY <1>1, <2>1, <2>3
    <3> QED  BY <1>4, <2>3, <3>1
  <2>6. new[b + Len(g) + 1] = f[b + 1]
    <3>1. CASE m > b
      <4>1. b + Len(g) + 1 \in 1..c
        BY <1>1, <2>3, <3>1
      <4> QED  BY <1>4, <2>3, <3>1, <4>1
    <3>2. CASE m = b
      <4>1. b + Len(g) + 1 = c + 1 /\ m + 1 = b + 1
        BY <2>3, <3>2
      <4> QED  BY <1>4, <4>1
    <3> QED  BY <1>1, <2>1, <3>1, <3>2
  <2> QED  BY <2>3, <2>4, <2>5, <2>6 DEF Behind
<1>8. Len(new) >= m + 1 /\ (m + 1 < b => Len(new) = m + 1)
  BY <1>1, <1>2, <1>4
<1>9. MarksStay(f, m + 1, new)
  <2>1. MarksStay(f, m, packets)
    BY DEF Fills
  <2> QED  BY <1>2, <1>3, <2>1, MarkAdded DEF new, p
<1>10. Fills(f, edit, run, i, b, m + 1, new)
  BY <1>4, <1>5, <1>6, <1>7, <1>8, <1>9 DEF Fills
<1> QED  BY <1>10 DEF new

(* A packet of the target, and behind its last the growth.                 *)
LEMMA FillInside ==
  ASSUME NEW f, NEW edit, NEW i, NEW b, Replaceable(f, edit, i, b), NEW run,
         NEW m \in Nat, m + 1 \in (i + 1)..b,
         NEW packets, Fills(f, edit, run, i, b, m, packets),
         NEW d \in Packet, d.tag = "data", Len(d.payload) = Len(f[m + 1].payload),
         Carries(run, Logical(f, i, m), d.payload)
  PROVE  /\ m + 1 # b => Fills(f, edit, run, i, b, m + 1, Append(packets, d))
         /\ \A g : m + 1 = b /\ IsGrowth(edit, g) /\ GrowthCarries(edit, run, g) =>
              Fills(f, edit, run, i, b, m + 1, Append(packets, d) \o g)
<1> DEFINE new == Append(packets, d)
<1>1. f \in Seq(Packet) /\ i \in Nat /\ b \in Nat /\ i >= 1 /\ i < b /\ m < b /\ m >= i
      /\ (m + 1) - 1 = m
  <2>1. f \in Seq(Packet) /\ i \in Nat /\ b \in Nat /\ i >= 1 /\ i < b
    BY ReplaceableIs
  <2> QED  BY <2>1
<1>2. /\ packets \in Seq(Packet) /\ Len(packets) = m /\ MarksStay(f, m, packets)
      /\ \A k \in 1..i : k <= m => packets[k] = f[k]
      /\ \A k \in (i + 1)..b : k <= m =>
           /\ Len(packets[k].payload) = Len(f[k].payload)
           /\ Carries(run, Logical(f, i, k - 1), packets[k].payload)
  BY <1>1 DEF Fills
<1>3. /\ new \in Seq(Packet) /\ Len(new) = m + 1
      /\ \A k \in 1..m : new[k] = packets[k]
      /\ new[m + 1] = d
  BY <1>2, AppendedRun
<1> HIDE DEF new
<1>4. ASSUME NEW z \in Seq(Packet), \A k \in 1..(m + 1) : z[k] = new[k]
      PROVE  /\ \A k \in 1..i : k <= m + 1 => z[k] = f[k]
             /\ \A k \in (i + 1)..b : k <= m + 1 =>
                  /\ Len(z[k].payload) = Len(f[k].payload)
                  /\ Carries(run, Logical(f, i, k - 1), z[k].payload)
  <2>1. ASSUME NEW k \in 1..i PROVE z[k] = f[k]
    <3>1. k \in 1..m /\ k \in 1..(m + 1) /\ k <= m
      BY <1>1
    <3> QED  BY <1>2, <1>3, <1>4, <3>1
  <2>2. ASSUME NEW k \in (i + 1)..b, k <= m + 1
        PROVE  /\ Len(z[k].payload) = Len(f[k].payload)
               /\ Carries(run, Logical(f, i, k - 1), z[k].payload)
    <3>1. CASE k = m + 1
      <4>1. z[k] = d /\ k - 1 = m
        <5>1. m + 1 \in 1..(m + 1)
          OBVIOUS
        <5> QED  BY <1>1, <1>3, <1>4, <3>1, <5>1
      <4> QED  BY <3>1, <4>1
    <3>2. CASE k # m + 1
      <4>1. k <= m /\ k \in 1..m /\ k \in 1..(m + 1)
        BY <1>1, <2>2, <3>2
      <4>2. z[k] = packets[k]
        BY <1>3, <1>4, <4>1
      <4> QED  BY <1>2, <4>1, <4>2
    <3> QED  BY <3>1, <3>2
  <2> QED  BY <2>1, <2>2
<1>5. ASSUME m + 1 # b PROVE Fills(f, edit, run, i, b, m + 1, new)
  <2>1. m + 1 < b /\ ~(m + 1 >= b) /\ Len(new) >= m + 1
    BY <1>1, <1>3, <1>5
  <2>2. MarksStay(f, m + 1, new)
    <3>1. \A k \in 1..Len(new) : k > Len(packets) => new[k].tag = "data"
      <4> TAKE k \in 1..Len(new)
      <4>1. k > Len(packets) => k = m + 1
        BY <1>2, <1>3
      <4> QED  BY <1>3, <4>1
    <3> QED  BY <1>2, <1>3, <3>1, DataAdded
  <2> QED  BY <1>3, <1>4, <2>1, <2>2 DEF Fills
<1>6. ASSUME NEW g, m + 1 = b, IsGrowth(edit, g), GrowthCarries(edit, run, g)
      PROVE  Fills(f, edit, run, i, b, m + 1, new \o g)
  <2> DEFINE z == new \o g
  <2>a. g \in Seq(Packet) /\ \A k \in 1..Len(g) : g[k].tag = "data"
    BY <1>6 DEF IsGrowth
  <2>0. /\ z \in Seq(Packet) /\ Len(g) \in Nat /\ Len(z) = Len(new) + Len(g)
        /\ \A k \in 1..Len(new) : z[k] = new[k]
        /\ \A k \in 1..Len(g) : z[Len(new) + k] = g[k]
    BY <1>3, <2>a, Joined
  <2> HIDE DEF z
  <2>1. /\ z \in Seq(Packet) /\ Len(g) \in Nat /\ Len(z) = (m + 1) + Len(g)
        /\ \A k \in 1..(m + 1) : z[k] = new[k]
        /\ \A k \in 1..Len(g) : z[(m + 1) + k] = g[k]
    BY <1>3, <2>0
  <2>2. \A k \in 1..Len(g) : z[b + k] = g[k]
    BY <1>6, <2>1
  <2>3. ~(m + 1 < b) /\ ~(m + 1 > b) /\ Len(z) >= m + 1
    BY <1>1, <1>6, <2>1
  <2>4. Behind(f, edit, run, b, m + 1, z, g)
    BY <1>6, <2>a, <2>1, <2>2, <2>3 DEF Behind
  <2>5. /\ \A k \in 1..i : k <= m + 1 => z[k] = f[k]
        /\ \A k \in (i + 1)..b : k <= m + 1 =>
             /\ Len(z[k].payload) = Len(f[k].payload)
             /\ Carries(run, Logical(f, i, k - 1), z[k].payload)
    BY <1>4, <2>1
  <2>6. MarksStay(f, m + 1, z)
    <3>1. \A k \in 1..Len(packets) : z[k] = packets[k]
      <4> TAKE k \in 1..Len(packets)
      <4>1. k \in 1..m /\ k \in 1..(m + 1)
        BY <1>1, <1>2
      <4> QED  BY <1>3, <2>1, <4>1
    <3>2. ASSUME NEW k \in 1..Len(z), k > Len(packets) PROVE z[k].tag = "data"
      <4>1. CASE k = m + 1
        <5>1. m + 1 \in 1..(m + 1)
          BY <1>1
        <5> QED  BY <1>3, <2>1, <4>1, <5>1
      <4>2. CASE k # m + 1
        <5> DEFINE j == k - (m + 1)
        <5>1. j \in 1..Len(g) /\ (m + 1) + j = k
          BY <1>2, <2>1, <3>2, <4>2
        <5> HIDE DEF j
        <5> QED  BY <2>a, <2>1, <5>1
      <4> QED  BY <4>1, <4>2
    <3> QED  BY <1>2, <2>1, <3>1, <3>2, DataAdded
  <2>7. Fills(f, edit, run, i, b, m + 1, z)
    BY <2>1, <2>3, <2>4, <2>5, <2>6 DEF Fills
  <2> QED  BY <2>7 DEF z
<1> QED  BY <1>5, <1>6 DEF new

(* One more packet of the old frame handed over.                           *)
LEMMA FillGoesOn ==
  ASSUME NEW f, NEW edit, NEW i, NEW b, Replaceable(f, edit, i, b), NEW run,
         NEW whole, NEW m \in Nat, m >= 1, m + 1 < Len(f),
         NEW packets, Fills(f, edit, run, i, b, m, packets),
         NEW new, Adds(f, edit, run, whole, i, b, m + 1, packets, new)
  PROVE  Fills(f, edit, run, i, b, m + 1, new)
<1>0. (m + 1) - 1 = m /\ m + 1 <= Len(f)
  <2>1. Len(f) \in Nat
    BY ReplaceableIs
  <2> QED  BY <2>1
<1>1. CASE m + 1 \notin (i + 1)..b
  <2>1. new = Append(packets, f[m + 1])
    BY <1>1 DEF Adds
  <2> QED  BY <1>0, <1>1, <2>1, FillOutside
<1>2. CASE m + 1 \in (i + 1)..b
  <2>1. \E d \in Packet : \E g :
          /\ d.tag = "data"
          /\ SameButHeader(Len(run), whole, Logical(f, i, m), f[m + 1].payload, d.payload)
          /\ Carries(run, Logical(f, i, m), d.payload)
          /\ m + 1 # b => new = Append(packets, d)
          /\ m + 1 = b => IsGrowth(edit, g) /\ GrowthCarries(edit, run, g)
                          /\ new = Append(packets, d) \o g
    BY <1>0, <1>2, Zenon DEF Adds
  <2>2. PICK d \in Packet : \E g :
          /\ d.tag = "data"
          /\ SameButHeader(Len(run), whole, Logical(f, i, m), f[m + 1].payload, d.payload)
          /\ Carries(run, Logical(f, i, m), d.payload)
          /\ m + 1 # b => new = Append(packets, d)
          /\ m + 1 = b => IsGrowth(edit, g) /\ GrowthCarries(edit, run, g)
                          /\ new = Append(packets, d) \o g
    BY <2>1
  <2>3. PICK g :
          /\ d.tag = "data"
          /\ SameButHeader(Len(run), whole, Logical(f, i, m), f[m + 1].payload, d.payload)
          /\ Carries(run, Logical(f, i, m), d.payload)
          /\ m + 1 # b => new = Append(packets, d)
          /\ m + 1 = b => IsGrowth(edit, g) /\ GrowthCarries(edit, run, g)
                          /\ new = Append(packets, d) \o g
    BY <2>2
  <2>4. Len(d.payload) = Len(f[m + 1].payload)
    BY <2>3 DEF SameButHeader
  <2>5. /\ m + 1 # b => Fills(f, edit, run, i, b, m + 1, Append(packets, d))
        /\ \A h : m + 1 = b /\ IsGrowth(edit, h) /\ GrowthCarries(edit, run, h) =>
             Fills(f, edit, run, i, b, m + 1, Append(packets, d) \o h)
    BY <1>2, <2>3, <2>4, FillInside
  <2> QED  BY <2>3, <2>4, <2>5
<1> QED  BY <1>1, <1>2

(* BEGIN stands, nothing has been handed over.                             *)
LEMMA FillBegins ==
  ASSUME NEW f, NEW edit, NEW i, NEW b, Replaceable(f, edit, i, b), NEW run
  PROVE  Fills(f, edit, run, i, b, 1, <<[tag |-> "begin", payload |-> <<>>]>>)
<1> DEFINE p == [tag |-> "begin", payload |-> <<>>]
           s == <<p>>
<1>1. /\ f \in Seq(Packet) /\ TargetAt(f, edit, i, b) /\ WellFormed(f, Len(f))
      /\ i \in Nat /\ b \in Nat /\ i >= 1 /\ i < b /\ b < Len(f) /\ Len(f) \in Nat
  BY ReplaceableIs
<1>2. f[1] = p /\ p \in Packet
  <2>1. 1 \in 1..Len(f) /\ f[1] \in Packet
    BY <1>1
  <2>2. f[1].tag = "begin" /\ f[1].payload = <<>>
    BY <1>1, <2>1 DEF WellFormed
  <2> QED  BY <2>1, <2>2 DEF Packet
<1> HIDE DEF p
<1>3. s \in Seq(Packet) /\ Len(s) = 1 /\ s[1] = p
  BY <1>2
<1> HIDE DEF s
<1>4. /\ Len(s) >= 1 /\ ~(1 >= b)
      /\ \A k \in 1..i : k <= 1 => s[k] = f[k]
      /\ \A k \in (i + 1)..b : ~(k <= 1)
  BY <1>1, <1>2, <1>3
<1>5. MarksStay(f, 1, s)
  <2>1. 1 \in 1..1 /\ \A x \in 1..Len(s) : x = 1
    BY <1>3
  <2>2. \A x, y \in 1..Len(s) : ~(x < y)
    BY <1>3
  <2> QED  BY <1>2, <1>3, <2>1, <2>2 DEF MarksStay
<1>6. Fills(f, edit, run, i, b, 1, s)
  BY <1>3, <1>4, <1>5 DEF Fills
<1> QED  BY <1>6 DEF s, p

(* END closes what is built.                                               *)
LEMMA FillEnds ==
  ASSUME NEW f, NEW edit, NEW i, NEW b, Replaceable(f, edit, i, b), NEW run,
         NEW packets, Fills(f, edit, run, i, b, Len(f) - 1, packets)
  PROVE  Fills(f, edit, run, i, b, Len(f), Append(packets, EndPacket))
<1> DEFINE c == Len(f)
           m == c - 1
<1>1. /\ f \in Seq(Packet) /\ WellFormed(f, c) /\ f[c].tag = "end" /\ c \in Nat /\ b \in Nat
      /\ b < c /\ c >= 3 /\ i \in Nat
  BY ReplaceableIs
<1>2. f[c] = EndPacket
  <2>1. c \in 1..c /\ f[c].tag # "data"
    BY <1>1
  <2>2. f[c] \in Packet
    BY <1>1, <2>1
  <2>3. f[c].payload = <<>>
    BY <1>1, <2>1 DEF WellFormed
  <2> QED  BY <1>1, <2>2, <2>3 DEF Packet, EndPacket
<1>3. m \in Nat /\ m >= 1 /\ m + 1 = c /\ m + 1 <= Len(f) /\ m + 1 \notin (i + 1)..b
  BY <1>1
<1>4. Fills(f, edit, run, i, b, m, packets)
  OBVIOUS
<1> HIDE DEF m, c
<1>5. Fills(f, edit, run, i, b, m + 1, Append(packets, f[m + 1]))
  BY <1>3, <1>4, FillOutside
<1> QED  BY <1>2, <1>3, <1>5 DEF c

(* Which pool a source leads to depends on selectors, sources and owners.  *)
SameShape(old, new) ==
  /\ Len(new) = Len(old)
  /\ \A j \in 1..Len(old) : /\ new[j].selector = old[j].selector
                            /\ new[j].source = old[j].source /\ new[j].flags = old[j].flags
                            /\ OwnsPool(new[j]) <=> OwnsPool(old[j])

(* Records of one shape have the same owners and pools.                    *)
LEMMA SameOwners ==
  ASSUME NEW old \in Seq(Observation), NEW new \in Seq(Observation), SameShape(old, new)
  PROVE  /\ DOMAIN new = DOMAIN old
         /\ \A s : Named(new, s) = Named(old, s) /\ OwnersOf(new, s) = OwnersOf(old, s)
         /\ \A j \in DOMAIN old : /\ PoolOf(new, j) = PoolOf(old, j)
                                  /\ FlagsOf(new, j) = FlagsOf(old, j)
         /\ \A s : PoolNamed(new, s) = PoolNamed(old, s)
<1>1. /\ DOMAIN new = DOMAIN old /\ DOMAIN old = 1..Len(old)
      /\ \A j \in DOMAIN old : /\ new[j].selector = old[j].selector
                               /\ new[j].source = old[j].source /\ new[j].flags = old[j].flags
                               /\ OwnsPool(new[j]) <=> OwnsPool(old[j])
  BY DEF SameShape
<1>2. \A s : Named(new, s) = Named(old, s)
  BY <1>1 DEF Named
<1>3. \A s : OwnersOf(new, s) = OwnersOf(old, s)
  <2> TAKE s
  <2>1. Named(new, s) = Named(old, s) /\ Named(old, s) \subseteq DOMAIN old
    BY <1>2 DEF Named
  <2> QED  BY <1>1, <2>1 DEF OwnersOf
<1>4. \A j \in DOMAIN old : PoolOf(new, j) = PoolOf(old, j)
  <2> TAKE j \in DOMAIN old
  <2>1. \A k \in 1..j : k \in DOMAIN old
    BY <1>1
  <2>2. { k \in 1..j : OwnsPool(new[k]) } = { k \in 1..j : OwnsPool(old[k]) }
    BY <1>1, <2>1
  <2>3. OwnsPool(new[j]) <=> OwnsPool(old[j])
    BY <1>1
  <2> QED  BY <2>2, <2>3, Zenon DEF PoolOf
<1>5. \A s : PoolNamed(new, s) = PoolNamed(old, s)
  <2> TAKE s
  <2> DEFINE W == OwnersOf(old, s)
  <2>1. OwnersOf(new, s) = W
    BY <1>3
  <2>2. CASE Cardinality(W) # 1
    BY <2>1, <2>2, Zenon DEF PoolNamed
  <2>3. CASE Cardinality(W) = 1
    <3> DEFINE c == CHOOSE i \in W : TRUE
    <3>1. PoolNamed(new, s) = PoolOf(new, c) /\ PoolNamed(old, s) = PoolOf(old, c)
      BY <2>1, <2>3, Zenon DEF PoolNamed
    <3>2. c \in DOMAIN old
      <4>1. W # {}
        <5> SUFFICES ASSUME W = {} PROVE FALSE
          OBVIOUS
        <5> HIDE DEF W
        <5>1. Cardinality(W) = 0
          BY FS_EmptySet
        <5> QED  BY <2>3, <5>1
      <4>2. W \subseteq DOMAIN old
        BY DEF OwnersOf, Named
      <4> HIDE DEF W
      <4>3. c \in W
        BY <4>1
      <4> QED  BY <4>2, <4>3
    <3> HIDE DEF c
    <3> QED  BY <1>4, <3>1, <3>2
  <2> QED  BY <2>2, <2>3
<1>6. \A j \in DOMAIN old : FlagsOf(new, j) = FlagsOf(old, j)
  <2> TAKE j \in DOMAIN old
  <2>1. /\ new[j].selector = old[j].selector /\ new[j].source = old[j].source
        /\ new[j].flags = old[j].flags
    BY <1>1
  <2>2. /\ Named(new, new[j].selector) = Named(old, old[j].selector)
        /\ OwnersOf(new, new[j].source) = OwnersOf(old, old[j].source)
    BY <1>2, <1>3, <2>1
  <2>3. LooseEnds(new, j) = LooseEnds(old, j)
    BY <2>2, Zenon DEF LooseEnds
  <2> QED  BY <2>1, <2>3, Zenon DEF FlagsOf
<1> QED  BY <1>1, <1>2, <1>3, <1>4, <1>5, <1>6

(* Records that correspond have one shape.                                 *)
LEMMA MovedShape ==
  ASSUME NEW edit, Placed(edit), NEW n, NEW whole,
         NEW old \in Seq(Observation), NEW new \in Seq(Observation),
         SeenMoves(edit, n, whole, old, new)
  PROVE  SameShape(old, new)
<1>1. ASSUME NEW j \in 1..Len(old)
      PROVE  /\ new[j].selector = old[j].selector
             /\ new[j].source = old[j].source /\ new[j].flags = old[j].flags
             /\ OwnsPool(new[j]) <=> OwnsPool(old[j])
  <2> DEFINE o == old[j]
             u == new[j]
             D == edit.data.offset
             x == o.data.offset
             c == GrowthData(edit)
  <2>1. o \in Observation
    OBVIOUS
  <2>2. ObsMoves(edit, n, whole, o, u)
    BY DEF SeenMoves
  <2>3. x \in Nat /\ D \in Nat /\ c \in Nat /\ HeaderBytes \in Nat /\ o.data_bytes \in Nat
    BY <2>1, TopologyConstants DEF Placed, Observation, Span
  <2>4. u.selector = o.selector /\ u.source = o.source /\ u.flags = o.flags
    BY <2>2 DEF ObsMoves
  <2>5. /\ x < D => u.data_bytes = o.data_bytes
        /\ x > D => u.data_bytes = o.data_bytes
        /\ x = D => u.data_bytes = o.data_bytes + c /\ o.data_bytes > HeaderBytes
    BY <2>2, Zenon DEF ObsMoves
  <2> HIDE DEF D, x, c, o, u
  <2>6. OwnsPool(u) <=> OwnsPool(o)
    BY <2>3, <2>5 DEF OwnsPool
  <2> QED  BY <2>4, <2>6 DEF o, u
<1> QED  BY <1>1 DEF SameShape, SeenMoves

(* Records' data stand in the frame in the order of the records.           *)
LEMMA DataInOrder ==
  ASSUME NEW seen \in Seq(Observation), InOrder(seen), NEW i \in DOMAIN seen,
         NEW j \in DOMAIN seen, i < j
  PROVE  seen[i].data.offset < seen[j].data.offset
<1> DEFINE n == Len(seen)
           x == [k \in 1..n |-> seen[k].data.offset]
           T == { k \in 0..n : k > i => x[i] < x[k] }
<1>1. n \in Nat /\ DOMAIN seen = 1..n
  OBVIOUS
<1>2. ASSUME NEW k \in 1..n, k - 1 \in 1..n PROVE x[k - 1] < x[k]
  <2> DEFINE a == seen[k - 1]
             b == seen[k]
  <2>1. a \in Observation /\ b \in Observation /\ k - 1 \in DOMAIN seen /\ k \in DOMAIN seen
        /\ (k - 1) + 1 = k
    BY <1>1, <1>2
  <2>2. /\ SpanEnd(a.data) <= b.selection.offset
        /\ SpanEnd(b.selection) <= b.data.offset /\ b.selection.length # 0
    <3>1. (k - 1) + 1 \in DOMAIN seen =>
            SpanEnd(seen[k - 1].data) <= seen[(k - 1) + 1].selection.offset
      BY <2>1 DEF InOrder
    <3>2. SpanEnd(seen[k].selection) <= seen[k].data.offset /\ seen[k].selection.length # 0
      BY <2>1 DEF InOrder
    <3> QED  BY <2>1, <3>1, <3>2
  <2>3. a.data \in Span /\ b.data \in Span /\ b.selection \in Span
    <3> HIDE DEF a, b
    <3> QED  BY <2>1 DEF Observation
  <2> HIDE DEF a, b
  <2>4. /\ SpanEnd(a.data) = a.data.offset + a.data.length
        /\ SpanEnd(b.selection) = b.selection.offset + b.selection.length
        /\ a.data.offset \in Nat /\ a.data.length \in Nat /\ b.data.offset \in Nat
        /\ b.selection.offset \in Nat /\ b.selection.length \in Nat
    BY <2>3, SpanOf
  <2>5. a.data.offset < b.data.offset
    <3> DEFINE p == a.data.offset
               q == a.data.length
               y == b.selection.offset
               z == b.selection.length
               w == b.data.offset
    <3>1. p + q <= y /\ y + z <= w /\ z # 0
      BY <2>2, <2>4
    <3>2. p \in Nat /\ q \in Nat /\ y \in Nat /\ z \in Nat /\ w \in Nat
      BY <2>4
    <3> HIDE DEF p, q, y, z, w
    <3>3. p < w
      BY <3>1, <3>2
    <3> QED  BY <3>3 DEF p, w
  <2> QED  BY <1>2, <2>5 DEF a, b
<1>3. \A k \in 1..n : x[k] \in Nat
  <2> TAKE k \in 1..n
  <2>1. seen[k] \in Observation
    BY <1>1
  <2> QED  BY <2>1 DEF Observation, Span
<1> HIDE DEF x, n
<1>4. 0 \in T
  BY <1>1
<1>5. ASSUME NEW k \in 1..n, k - 1 \in T PROVE k \in T
  <2>1. k \in 0..n /\ i \in 1..n
    BY <1>1
  <2>2. ASSUME k > i PROVE x[i] < x[k]
    <3>1. k - 1 \in 1..n
      BY <1>1, <2>1, <2>2
    <3>2. x[k - 1] < x[k] /\ x[k - 1] \in Nat /\ x[k] \in Nat /\ x[i] \in Nat
      BY <1>2, <1>3, <2>1, <3>1
    <3>3. k - 1 > i => x[i] < x[k - 1]
      BY <1>5
    <3>4. k - 1 = i \/ k - 1 > i
      BY <1>1, <2>1, <2>2
    <3> QED  BY <3>2, <3>3, <3>4
  <2> QED  BY <2>1, <2>2
<1>6. 0..n \subseteq T
  <2> HIDE DEF T
  <2> QED  BY <1>1, <1>4, <1>5, InductionUpTo
<1>7. j \in T
  BY <1>1, <1>6
<1>8. x[i] < x[j]
  BY <1>7
<1> QED  BY <1>1, <1>8 DEF x

(* A record of the topology, from the record read.                         *)
LEMMA EntryIs ==
  ASSUME NEW seen \in Seq(Observation), NEW i \in DOMAIN seen
  PROVE  Topology(seen).records[i] =
           [selector |-> seen[i].selector, range |-> seen[i].range, source |-> seen[i].source,
            flags |-> FlagsOf(seen, i), selection |-> seen[i].selection, data |-> seen[i].data,
            owned |-> PoolOf(seen, i), referenced |-> PoolNamed(seen, seen[i].source)]
BY DEF Topology, TopologyRecords, FlagsOf

(* Moving a span behind the target shifts it.                              *)
LEMMA MovedIs ==
  ASSUME NEW span \in Span, NEW g \in Nat
  PROVE  Moved(span, g) = Shifted(span, g)
BY DEF Moved, Shifted, Span

(* Records written with EXCEPT.                                            *)
WithSpans(r, data, selection) == [r EXCEPT !.data = data, !.selection = selection]

WithRange(r, range, data) == [r EXCEPT !.range = range, !.data = data]

(* Records written with EXCEPT, field by field.                            *)
LEMMA EntryMoved ==
  ASSUME NEW a, NEW range, NEW c, NEW d, NEW e, NEW data, NEW g, NEW h, NEW x, NEW y,
         NEW r, r = [selector |-> a, range |-> range, source |-> c, flags |-> d,
                     selection |-> e, data |-> data, owned |-> g, referenced |-> h]
  PROVE  /\ WithSpans(r, x, y)
              = [selector |-> a, range |-> range, source |-> c, flags |-> d,
                 selection |-> y, data |-> x, owned |-> g, referenced |-> h]
         /\ WithRange(r, x, y)
              = [selector |-> a, range |-> x, source |-> c, flags |-> d,
                 selection |-> e, data |-> y, owned |-> g, referenced |-> h]
<1> DEFINE u == [r EXCEPT !.data = x]
           v == [r EXCEPT !.range = x]
           w == [u EXCEPT !.selection = y]
           z == [v EXCEPT !.data = y]
<1>1. u = [selector |-> a, range |-> range, source |-> c, flags |-> d,
           selection |-> e, data |-> x, owned |-> g, referenced |-> h]
  OBVIOUS
<1>2. v = [selector |-> a, range |-> x, source |-> c, flags |-> d,
           selection |-> e, data |-> data, owned |-> g, referenced |-> h]
  OBVIOUS
<1>3. WithSpans(r, x, y) = w /\ WithRange(r, x, y) = z
  BY Zenon DEF WithSpans, WithRange
<1> HIDE DEF u, v
<1>4. w = [selector |-> a, range |-> range, source |-> c, flags |-> d,
           selection |-> y, data |-> x, owned |-> g, referenced |-> h]
  BY <1>1
<1>5. z = [selector |-> a, range |-> x, source |-> c, flags |-> d,
           selection |-> e, data |-> y, owned |-> g, referenced |-> h]
  BY <1>2
<1> HIDE DEF w, z
<1> QED  BY <1>3, <1>4, <1>5, Zenon

(* The header the edit writes, byte by byte.                               *)
LEMMA RangeIs ==
  ASSUME NEW n \in Nat, NEW whole \in BOOLEAN, NEW h \in Seq(0..255), Len(h) = 2 * RangeBytes
  PROVE  Rewritten(n, whole, h) =
           IF ~whole THEN h
           ELSE [i \in 1..(2 * RangeBytes) |->
                   IF i <= RangeBytes THEN 0 ELSE (n \div 256^(i - RangeBytes - 1)) % 256]
<1> DEFINE m == 2 * RangeBytes
<1>0. h \in Payload /\ m \in Nat
  BY TopologyConstants DEF Payload
<1>1. CASE ~whole
  <2>1. /\ Rewritten(n, whole, h) \in Payload /\ Len(Rewritten(n, whole, h)) = Len(h)
        /\ \A j \in 1..Len(h) : Rewritten(n, whole, h)[j] = HeaderByte(n, whole, j, h[j])
    BY <1>0, RewrittenIs
  <2>2. \A j \in 1..Len(h) : Rewritten(n, whole, h)[j] = h[j]
    BY <1>1, <2>1 DEF HeaderByte
  <2> DEFINE w == Rewritten(n, whole, h)
  <2> HIDE DEF w
  <2>3. w = h
    BY <1>0, <2>1, <2>2, SameElements DEF w
  <2> QED  BY <1>1, <2>3 DEF w
<1>2. CASE whole
  <2> DEFINE B(j) == HeaderByte(n, whole, j, h[j])
             C(j) == IF j <= RangeBytes THEN 0 ELSE (n \div 256^(j - RangeBytes - 1)) % 256
  <2>1. \A j \in 1..m : B(j) = C(j)
    BY <1>2 DEF HeaderByte
  <2>2. Rewritten(n, whole, h) = [j \in 1..m |-> B(j)]
    BY DEF Rewritten
  <2>3. [j \in 1..m |-> B(j)] = [j \in 1..m |-> C(j)]
    <3> HIDE DEF B, C, m
    <3> QED  BY <2>1
  <2> QED  BY <1>2, <2>2, <2>3
<1> QED  BY <1>1, <1>2

(* The records of the new frame, given that what the stream saw moved.     *)
\* What the records of a topology become when the edit moves the records read: the
\* target's grows by g and its header is rewritten, those behind it are shifted.
RecordsMoved(edit, n, whole, t, g, R, V) ==
  /\ \A j \in DOMAIN R :
       j # t => V[j] = IF R[j].data.offset > edit.data.offset
                       THEN [R[j] EXCEPT !.data = Moved(@, g), !.selection = Moved(@, g)]
                       ELSE R[j]
  /\ \A j \in DOMAIN R :
       j = t => /\ V[j] = [R[j] EXCEPT !.range = Rewritten(n, whole, R[j].range),
                                       !.data.length = @ + g]
                /\ R[j].range \in Seq(0..255) /\ Len(R[j].range) = 2 * RangeBytes

(* The topology read of records that correspond.                           *)
LEMMA RecordsMove ==
  ASSUME NEW edit, Placed(edit), NEW n \in Nat, NEW whole \in BOOLEAN,
         NEW old \in Seq(Observation), NEW new \in Seq(Observation),
         SeenMoves(edit, n, whole, old, new), InOrder(old),
         NEW t \in DOMAIN old, edit.data = old[t].data, NEW g, g = GrowthBytes(edit)
  PROVE  /\ DOMAIN Topology(new).records = DOMAIN Topology(old).records
         /\ DOMAIN Topology(old).records = DOMAIN old
         /\ RecordsMoved(edit, n, whole, t, g, Topology(old).records, Topology(new).records)
<1> DEFINE D == edit.data.offset
<1>1. /\ DOMAIN new = DOMAIN old
      /\ \A j \in DOMAIN old : /\ PoolOf(new, j) = PoolOf(old, j)
                               /\ FlagsOf(new, j) = FlagsOf(old, j)
      /\ \A s : PoolNamed(new, s) = PoolNamed(old, s)
  BY MovedShape, SameOwners
<1>2. DOMAIN Topology(new).records = DOMAIN new /\ DOMAIN Topology(old).records = DOMAIN old
  BY TopologyShape
<1>3. g \in Nat /\ D \in Nat
  BY DEF Placed
<1>4. ASSUME NEW j \in DOMAIN old
      PROVE  LET r == Topology(old).records[j]
                 v == Topology(new).records[j]
             IN  /\ j # t => v = IF r.data.offset > edit.data.offset
                                 THEN [r EXCEPT !.data = Moved(@, g), !.selection = Moved(@, g)]
                                 ELSE r
                 /\ j = t => v = [r EXCEPT !.range = Rewritten(n, whole, r.range),
                                           !.data.length = @ + g]
                             /\ r.range \in Seq(0..255) /\ Len(r.range) = 2 * RangeBytes
  <2> DEFINE r == Topology(old).records[j]
             v == Topology(new).records[j]
             o == old[j]
             u == new[j]
             owned == PoolOf(old, j)
             referenced == PoolNamed(old, o.source)
             flags == FlagsOf(old, j)
  <2>1. o \in Observation /\ j \in 1..Len(old) /\ j \in DOMAIN new
    BY <1>1
  <2>2. ObsMoves(edit, n, whole, o, u)
    BY <2>1 DEF SeenMoves
  <2>3. u.selector = o.selector /\ u.source = o.source
    BY <2>2 DEF ObsMoves
  <2>4. r = [selector |-> o.selector, range |-> o.range, source |-> o.source, flags |-> flags,
             selection |-> o.selection, data |-> o.data, owned |-> owned,
             referenced |-> referenced]
    BY EntryIs
  <2>5. v = [selector |-> o.selector, range |-> u.range, source |-> o.source, flags |-> flags,
             selection |-> u.selection, data |-> u.data, owned |-> owned,
             referenced |-> referenced]
    <3>1. v = [selector |-> u.selector, range |-> u.range, source |-> u.source,
               flags |-> FlagsOf(new, j), selection |-> u.selection, data |-> u.data,
               owned |-> PoolOf(new, j), referenced |-> PoolNamed(new, u.source)]
      BY <2>1, EntryIs
    <3>2. FlagsOf(new, j) = flags /\ PoolOf(new, j) = owned
          /\ PoolNamed(new, u.source) = referenced
      BY <1>1, <2>3
    <3> HIDE DEF flags, owned, referenced, u, o, v
    <3> QED  BY <2>3, <3>1, <3>2
  <2>6. o.data \in Span /\ o.selection \in Span /\ o.range \in Seq(0..255) /\ o.data.offset \in Nat
    <3> HIDE DEF o
    <3> QED  BY <2>1 DEF Observation, Span
  <2>7. r.data = o.data /\ r.selection = o.selection /\ r.range = o.range
    <3> HIDE DEF o, r, flags, owned, referenced
    <3> QED  BY <2>4
  <2>8. ASSUME j # t
        PROVE v = IF r.data.offset > D
                  THEN [r EXCEPT !.data = Moved(@, g), !.selection = Moved(@, g)] ELSE r
    <3>1. o.data.offset # D
      <4>1. CASE j < t
        <5>1. old[j].data.offset < old[t].data.offset
          BY <4>1, DataInOrder
        <5> HIDE DEF o
        <5> QED  BY <1>3, <2>6, <5>1 DEF o
      <4>2. CASE t < j
        <5>1. old[t].data.offset < old[j].data.offset
          BY <4>2, DataInOrder
        <5> HIDE DEF o
        <5> QED  BY <1>3, <2>6, <5>1 DEF o
      <4> QED  BY <2>1, <2>8, <4>1, <4>2
    <3>2. CASE o.data.offset > D
      <4>1. u.range = o.range /\ u.selection = Shifted(o.selection, g)
            /\ u.data = Shifted(o.data, g)
        BY <2>2, <3>2, Zenon DEF ObsMoves
      <4>2. Moved(o.data, g) = Shifted(o.data, g)
            /\ Moved(o.selection, g) = Shifted(o.selection, g)
        BY <1>3, <2>6, MovedIs
      <4> DEFINE x == Moved(o.data, g)
                 y == Moved(o.selection, g)
                 z == [r EXCEPT !.data = x, !.selection = y]
      <4>3. [r EXCEPT !.data = Moved(@, g), !.selection = Moved(@, g)] = z
        <5> HIDE DEF r, o
        <5> QED  BY <2>7
      <4>4. z = [selector |-> o.selector, range |-> o.range, source |-> o.source, flags |-> flags,
                 selection |-> y, data |-> x, owned |-> owned, referenced |-> referenced]
        <5> DEFINE sel == o.selector
                   ran == o.range
                   src == o.source
                   e == o.selection
                   dat == o.data
        <5>1. r = [selector |-> sel, range |-> ran, source |-> src, flags |-> flags,
                   selection |-> e, data |-> dat, owned |-> owned, referenced |-> referenced]
          BY <2>4
        <5> HIDE DEF r, o, flags, owned, referenced, x, y, sel, ran, src, e, dat
        <5>2. WithSpans(r, x, y)
                = [selector |-> sel, range |-> ran, source |-> src, flags |-> flags,
                   selection |-> y, data |-> x, owned |-> owned, referenced |-> referenced]
          BY <5>1, EntryMoved
        <5> QED  BY <5>2, Zenon DEF sel, ran, src, WithSpans
      <4>5. v = z
        <5> HIDE DEF r, o, u, flags, owned, referenced, v, z
        <5> QED  BY <2>5, <4>1, <4>2, <4>4 DEF x, y
      <4>6. r.data.offset > D
        BY <2>7, <3>2
      <4> HIDE DEF r, z, v
      <4> QED  BY <4>3, <4>5, <4>6
    <3>3. CASE ~(o.data.offset > D)
      <4>1. o.data.offset < D
        BY <1>3, <2>6, <3>1, <3>3
      <4>2. u.range = o.range /\ u.selection = o.selection /\ u.data = o.data
        BY <2>2, <4>1, Zenon DEF ObsMoves
      <4>3. v = r
        <5> HIDE DEF r, o, u, flags, owned, referenced, v
        <5> QED  BY <2>4, <2>5, <4>2
      <4>4. ~(r.data.offset > D)
        BY <2>7, <3>3
      <4> HIDE DEF r, v
      <4> QED  BY <4>3, <4>4
    <3> QED  BY <3>2, <3>3
  <2>9. ASSUME j = t
        PROVE  v = [r EXCEPT !.range = Rewritten(n, whole, r.range), !.data.length = @ + g]
               /\ r.range \in Seq(0..255) /\ Len(r.range) = 2 * RangeBytes
    <3>1. o.data.offset = D
      BY <2>9
    <3>2. /\ u.range = Rewritten(n, whole, o.range) /\ u.selection = o.selection
          /\ u.data = [offset |-> o.data.offset, length |-> o.data.length + g]
          /\ Len(o.range) = 2 * RangeBytes
      BY <2>2, <3>1, Zenon DEF ObsMoves
    <3> DEFINE x == Rewritten(n, whole, o.range)
               y == [o.data EXCEPT !.length = @ + g]
               z == [r EXCEPT !.range = x, !.data = y]
    <3>3. y = u.data
      <4> HIDE DEF o, u
      <4> QED  BY <2>6, <3>2 DEF Span
    <3>4. z = [selector |-> o.selector, range |-> x, source |-> o.source, flags |-> flags,
               selection |-> o.selection, data |-> y, owned |-> owned, referenced |-> referenced]
      <4> DEFINE sel == o.selector
                 ran == o.range
                 src == o.source
                 e == o.selection
                 dat == o.data
      <4>1. r = [selector |-> sel, range |-> ran, source |-> src, flags |-> flags,
                 selection |-> e, data |-> dat, owned |-> owned, referenced |-> referenced]
        BY <2>4
      <4> HIDE DEF r, o, flags, owned, referenced, x, y, sel, ran, src, e, dat
      <4>2. WithRange(r, x, y)
              = [selector |-> sel, range |-> x, source |-> src, flags |-> flags,
                 selection |-> e, data |-> y, owned |-> owned, referenced |-> referenced]
        BY <4>1, EntryMoved
      <4> QED  BY <4>2, Zenon DEF sel, src, e, WithRange
    <3>5. v = z
      <4> HIDE DEF r, o, u, flags, owned, referenced, v, z, y
      <4> QED  BY <2>5, <3>2, <3>3, <3>4
    <3>6. [r EXCEPT !.range = Rewritten(n, whole, r.range), !.data.length = @ + g] = z
      <4> DEFINE w == Rewritten(n, whole, r.range)
      <4>1. w = x
        BY <2>7
      <4> HIDE DEF w, x
      <4>2. [r EXCEPT !.range = w, !.data.length = @ + g] = z
        <5> HIDE DEF o, r
        <5> QED  BY <2>7, <4>1
      <4> QED  BY <4>2 DEF w
    <3> HIDE DEF r, o, v, z
    <3> QED  BY <2>6, <2>7, <3>2, <3>5, <3>6
  <2> HIDE DEF r, v
  <2> QED  BY <2>8, <2>9 DEF r, v
<1>5. ASSUME NEW R, NEW V, R = Topology(old).records, V = Topology(new).records
      PROVE  RecordsMoved(edit, n, whole, t, g, R, V)
  <2>1. DOMAIN R = DOMAIN old
    BY <1>2, <1>5
  <2>2. \A j \in DOMAIN old :
          /\ j # t => V[j] = IF R[j].data.offset > edit.data.offset
                          THEN [R[j] EXCEPT !.data = Moved(@, g), !.selection = Moved(@, g)]
                          ELSE R[j]
          /\ j = t => V[j] = [R[j] EXCEPT !.range = Rewritten(n, whole, R[j].range),
                                          !.data.length = @ + g]
                    /\ R[j].range \in Seq(0..255) /\ Len(R[j].range) = 2 * RangeBytes
    BY <1>4, <1>5, Zenon
  <2> QED  BY <2>1, <2>2, Zenon DEF RecordsMoved
<1>6. RecordsMoved(edit, n, whole, t, g, Topology(old).records, Topology(new).records)
  BY <1>5, Zenon
<1> QED  BY <1>1, <1>2, <1>6

(* The record a granted plan is about.                                     *)
PlanOf(f, t, n, whole, edit) ==
  EditPlan(f, t, n, whole).status = "ok" /\ EditPlan(f, t, n, whole).edit = edit

\* What a plan says of the record it is for, seen being the records read of frame f.
RecordPlanned(f, t, edit, seen) ==
  /\ ExactStatus(f, Parsed(f)) = "ok" /\ seen \in Seq(Observation) /\ InOrder(seen)
  /\ t \in DOMAIN seen /\ edit.data = seen[t].data
  /\ edit.frame_bytes = FrameLen(f) + GrowthBytes(edit)

(* A granted plan is about a record read of its frame.                     *)
LEMMA PlannedRecord ==
  ASSUME NEW f \in Seq(Packet), NEW t, NEW n \in Nat, NEW whole \in BOOLEAN,
         NEW edit, PlanOf(f, t, n, whole, edit)
  PROVE  RecordPlanned(f, t, edit, Parsed(f).stream.seen)
<1> DEFINE q == Parsed(f)
           seen    == q.stream.seen
           verdict == PlanVerdict(seen, t, n, whole)
<1>1. /\ ExactStatus(f, Parsed(f)) = "ok" /\ verdict.status = "ok"
      /\ edit = EditFor(f, seen, t, verdict)
  <2> DEFINE e == EditFor(f, seen, t, verdict)
             s == verdict.status
  <2>1. EditPlan(f, t, n, whole) =
          IF whole /\ n = 0 THEN [status |-> "range", edit |-> NoEdit]
          ELSE IF ExactStatus(f, Parsed(f)) # "ok"
          THEN [status |-> "frame", edit |-> NoEdit]
          ELSE [status |-> s, edit |-> e]
    BY EditPlanIs
  <2> HIDE DEF e, s
  <2>2. ExactStatus(f, Parsed(f)) = "ok" /\ s = "ok" /\ edit = e
    BY <2>1 DEF PlanOf
  <2> QED  BY <2>2 DEF e, s
<1>2. seen \in Seq(Observation)
  BY <1>1, ExactFrame
<1>3. InOrder(seen)
  <2>1. ParsedUpTo(f) \in [0..Len(f) -> Parsers] /\ Len(f) \in 0..Len(f)
    BY ParsedRun
  <2>2. q \in Parsers
    BY <2>1 DEF Parsed
  <2> HIDE DEF q
  <2> QED  BY <2>2, ParserFacts DEF StreamInv
<1>4. t \in DOMAIN seen
  <2> HIDE DEF seen
  <2> QED  BY <1>1, <1>2, PlanVerdictFigures
<1>5. edit.frame_bytes = NewFrameBytes(f, edit.replacement) /\ edit.data = seen[t].data
  <2> HIDE DEF verdict, seen
  <2> QED  BY <1>1 DEF EditFor
<1>6. NewFrameBytes(f, edit.replacement) = FrameLen(f) + GrowthBytes(edit)
  BY Zenon DEF NewFrameBytes, GrowthBytes, BlockWire
<1> QED  BY <1>1, <1>2, <1>3, <1>4, <1>5, <1>6 DEF RecordPlanned

(* A granted plan is about a pool that can be replaced.                    *)
LEMMA PlannedPlace ==
  ASSUME NEW f \in Seq(Packet), NEW t, NEW n \in Nat, NEW whole \in BOOLEAN,
         NEW edit, PlanOf(f, t, n, whole, edit)
  PROVE  Placed(edit) /\ \E i : \E b : Replaceable(f, edit, i, b)
<1>1. /\ edit.replacement.growth \in Nat /\ edit.replacement.existing \in Nat
      /\ \E i : \E b : TargetAt(f, edit, i, b)
  BY PlannedTarget DEF PlanOf
<1>2. PICK i : \E b : TargetAt(f, edit, i, b)
  BY <1>1
<1>3. PICK b : TargetAt(f, edit, i, b)
  BY <1>2
<1>4. ExactStatus(f, Parsed(f)) = "ok"
  BY PlannedRecord DEF RecordPlanned
<1>5. /\ edit.data.offset \in Nat /\ SpanEnd(edit.data) \in Nat
      /\ edit.data.offset < SpanEnd(edit.data)
  <2> DEFINE m == Len(f)
             O(k) == OffsetOf(f, k)
  <2>1. /\ m \in Nat /\ i \in 1..m /\ b \in (i + 1)..(m - 1)
        /\ edit.data.offset = O(i + 1) /\ SpanEnd(edit.data) = O(b + 1)
    BY <1>3 DEF TargetAt
  <2>2. i + 1 \in 1..(m + 1) /\ b + 1 \in 1..(m + 1) /\ i + 1 < b + 1
    BY <2>1
  <2>3. O(i + 1) \in Nat /\ O(b + 1) \in Nat /\ O(i + 1) < O(b + 1)
    BY <2>2, OffsetsGrow
  <2> HIDE DEF O
  <2> QED  BY <2>1, <2>3
<1>6. GrowthBytes(edit) \in Nat /\ GrowthData(edit) \in Nat
  <2> DEFINE c == edit.replacement.growth \div BlockBytes
  <2>1. c \in Nat /\ BlockBytes \in Nat /\ BlockWire \in Nat
    <3>1. BlockBytes \in Nat \ {0} /\ PacketsPerBlock \in Nat /\ OverheadBytes = 5
      BY ChunksAre, TopologyConstants
    <3>2. BlockWire \in Nat
      <4>1. PacketsPerBlock * 5 \in Nat
        BY <3>1
      <4> QED  BY <3>1, <4>1 DEF BlockWire
    <3>3. c \in Nat
      BY <1>1, <3>1
    <3> QED  BY <3>1, <3>2, <3>3
  <2> HIDE DEF c
  <2>2. c * BlockWire \in Nat /\ c * BlockBytes \in Nat
    BY <2>1
  <2> QED  BY <2>2 DEF GrowthBytes, GrowthData, c
<1>7. Placed(edit)
  BY <1>1, <1>5, <1>6 DEF Placed
<1> QED  BY <1>3, <1>4, <1>7 DEF Replaceable

(* How many packets of the old frame have been told again when packet k is *)
(* the next: BEGIN is written before it is handed over, END after.         *)
Told(f, k) == IF k = 1 THEN 1 ELSE IF k > Len(f) THEN Len(f) - 1 ELSE k - 1

(* What is written tells the packets of f before k.                        *)
Retelling(f, edit, run, whole, k, packets) ==
  \E i : \E b : /\ Replaceable(f, edit, i, b)
                /\ Tracks(f, edit, Len(run), whole, i, b, Told(f, k), packets)
                /\ Fills(f, edit, run, i, b, Told(f, k), packets)

(* What has come out has the samples in it.                                *)
Refilled(f, edit, run, new) ==
  \E i : \E b : Replaceable(f, edit, i, b) /\ Fills(f, edit, run, i, b, Len(f), new)

(* Nothing is rebuilt, or what is rebuilt retells the old frame up to the  *)
(* packet handed over last.                                                *)
RetellInv ==
  /\ EditInv
  /\ stage \in {"rebuilding", "rebuilt"} => PlanOf(frame, target, Len(samples), full, plan)
  /\ stage = "rebuilding" => Retelling(frame, plan, samples, full, at, rebuild.packets)
  /\ stage = "rebuilt" => /\ Outcome(frame, plan, Len(samples), full, out)
                          /\ Refilled(frame, plan, samples, out)

(* A rebuild that begins tells nothing yet.                                *)
LEMMA RetellBegins ==
  ASSUME EditInv, EditInv', NEW bytes \in Rooms, RebuildBegin(bytes)
  PROVE  RetellInv'
<1> DEFINE n == Len(samples)
           verdict == EditPlan(frame, target, n, full)
           packets == <<[tag |-> "begin", payload |-> <<>>]>>
           r == [NoRebuild EXCEPT !.packets = packets, !.length = PreambleBytes + OverheadBytes]
<1>1. /\ frame \in Seq(Packet) /\ n \in Nat /\ full \in BOOLEAN /\ at = 1
  BY DEF EditInv, Arguments, RebuildBegin
<1>2. /\ UNCHANGED <<arguments, plan, at>>
      /\ \/ stage' = "ended"
         \/ PlanMatches(verdict) /\ stage' = "rebuilding" /\ rebuild' = r
  <2> HIDE DEF r, verdict
  <2> QED  BY Zenon DEF RebuildBegin, r, verdict, packets
<1>3. CASE stage' = "ended"
  BY <1>3 DEF RetellInv
<1>4. CASE PlanMatches(verdict) /\ stage' = "rebuilding" /\ rebuild' = r
  <2>1. PlanOf(frame, target, n, full, plan)
    BY <1>4 DEF PlanMatches, PlanOf
  <2>2. PICK i : \E b : Replaceable(frame, plan, i, b)
    BY <1>1, <2>1, PlannedPlace
  <2>3. PICK b : Replaceable(frame, plan, i, b)
    BY <2>2
  <2>4. Tracks(frame, plan, n, full, i, b, 1, packets)
    <3> HIDE DEF n
    <3> QED  BY <1>1, <2>3, TrackBegins
  <2>9. Fills(frame, plan, samples, i, b, 1, packets)
    BY <2>3, FillBegins
  <2>5. r.packets = packets
    <3> DEFINE x == NoRebuild
               l == PreambleBytes + OverheadBytes
    <3> HIDE DEF packets, l
    <3>1. x = [packets |-> x.packets, length |-> x.length, logical |-> x.logical,
               finished |-> x.finished, status |-> x.status]
      BY NothingRebuilt DEF IsRebuild
    <3>2. r = [x EXCEPT !.packets = packets, !.length = l]
      BY Zenon DEF l
    <3> HIDE DEF x, r
    <3> QED  BY <3>1, <3>2
  <2> HIDE DEF n, packets, r
  <2>6. Retelling(frame, plan, samples, full, at, packets)
    BY <1>1, <2>3, <2>4, <2>9, Zenon DEF Retelling, Told, n
  <2>7. UNCHANGED <<frame, target, samples, full, plan, at>> /\ rebuild'.packets = packets
        /\ stage' = "rebuilding"
    BY <1>2, <1>4, <2>5 DEF arguments
  <2>8. PlanOf(frame, target, Len(samples), full, plan)'
        /\ Retelling(frame, plan, samples, full, at, rebuild.packets)'
    BY <2>1, <2>6, <2>7 DEF n
  <2> QED  BY <2>7, <2>8 DEF RetellInv
<1> QED  BY <1>2, <1>3, <1>4

(* A rebuild that takes a packet tells one packet more.                    *)
LEMMA RetellGoesOn ==
  ASSUME RetellInv, EditInv', RebuildPacket
  PROVE  RetellInv'
<1> DEFINE n == Len(samples)
           c == Len(frame)
           r == rebuild
           o == OffsetOf(frame, at)
           t == RebuildStep(rebuild, o, frame[at])
<1>1. /\ Building(frame) /\ Progress(frame, plan, at, r) /\ stage = "rebuilding"
      /\ frame \in Seq(Packet) /\ at \in 1..c /\ n \in Nat /\ c \in Nat /\ full \in BOOLEAN
      /\ PlanOf(frame, target, n, full, plan)
      /\ Retelling(frame, plan, samples, full, at, r.packets)
  BY DEF RetellInv, EditInv, RebuildPacket, Arguments
<1>2. /\ rebuild' = t /\ status' = rebuild'.status
      /\ stage' = IF status' = "ok" THEN "rebuilding" ELSE "ended"
      /\ at' = at + 1 /\ UNCHANGED <<frame, target, samples, full, plan, room>>
  BY DEF RebuildPacket, arguments
<1>3. PICK i : \E b : /\ Replaceable(frame, plan, i, b)
                      /\ Tracks(frame, plan, n, full, i, b, Told(frame, at), r.packets)
                      /\ Fills(frame, plan, samples, i, b, Told(frame, at), r.packets)
  BY <1>1, Zenon DEF Retelling
<1>4. PICK b : /\ Replaceable(frame, plan, i, b)
               /\ Tracks(frame, plan, n, full, i, b, Told(frame, at), r.packets)
               /\ Fills(frame, plan, samples, i, b, Told(frame, at), r.packets)
  BY <1>3
<1>5. PICK j : \E k : Built(frame, plan, at, r, j, k)
  BY <1>1 DEF Progress
<1>6. PICK k : Built(frame, plan, at, r, j, k)
  BY <1>5
<1>7. TargetAt(frame, plan, i, b) /\ c >= 3 /\ i >= 1 /\ i \in Nat
  BY <1>4, ReplaceableIs
<1>8. r.logical = Logical(frame, i, at - 1)
  <2>1. TargetAt(frame, plan, j, k) /\ r.logical = Len(DataRunOf(frame, j)[at - 1])
    BY <1>6 DEF Built
  <2>2. i = j
    BY <1>1, <1>7, <2>1, OnePlace
  <2> QED  BY <2>1, <2>2 DEF Logical
<1>9. /\ IsRebuild(r) /\ r.status = "ok" /\ r.packets \in Seq(Packet)
  BY <1>1, <1>4 DEF Progress, Tracks
<1>10. t.status = "ok"
  <2>1. Progress(frame, plan, at + 1, t)
    <3> HIDE DEF r
    <3> QED  BY <1>1, RebuildGoesOn DEF r
  <2> HIDE DEF t
  <2> QED  BY <2>1 DEF Progress
<1>11. /\ at \in {1, c} => t.packets = r.packets
       /\ at \notin {1, c} => Adds(frame, plan, samples, full, i, b, at, r.packets, t.packets)
  <2> HIDE DEF r
  <2>1. t = RebuildStep(r, OffsetOf(frame, at), frame[at])
    BY DEF r
  <2> HIDE DEF t
  <2> QED  BY <1>1, <1>7, <1>8, <1>9, <1>10, <2>1, RebuildAdds
<1> HIDE DEF t, r, c, n
<1>12. /\ Tracks(frame, plan, n, full, i, b, Told(frame, at + 1), t.packets)
       /\ Fills(frame, plan, samples, i, b, Told(frame, at + 1), t.packets)
  <2>1. CASE at \in {1, c}
    <3>1. Told(frame, at + 1) = Told(frame, at)
      BY <1>1, <1>7, <2>1 DEF Told, c
    <3> QED  BY <1>4, <1>11, <2>1, <3>1
  <2>2. CASE at \notin {1, c}
    <3> DEFINE m == at - 1
    <3>1. /\ Told(frame, at) = m /\ Told(frame, at + 1) = at
          /\ m \in Nat /\ m >= 1 /\ m + 1 < c /\ m + 1 = at
      BY <1>1, <1>7, <2>2 DEF Told, c
    <3> HIDE DEF m
    <3>2. /\ Tracks(frame, plan, n, full, i, b, m, r.packets)
          /\ Fills(frame, plan, samples, i, b, m, r.packets)
          /\ Adds(frame, plan, samples, full, i, b, m + 1, r.packets, t.packets)
      BY <1>4, <1>11, <2>2, <3>1
    <3>3. Tracks(frame, plan, n, full, i, b, m + 1, t.packets)
      <4>1. n = Len(samples)
        BY DEF n
      <4> QED  BY <1>1, <1>4, <3>1, <3>2, <4>1, TrackGoesOn DEF c
    <3>4. Fills(frame, plan, samples, i, b, m + 1, t.packets)
      BY <1>4, <3>1, <3>2, FillGoesOn DEF c
    <3> QED  BY <3>1, <3>3, <3>4
  <2> QED  BY <2>1, <2>2
<1>13. Retelling(frame, plan, samples, full, at + 1, t.packets)
  BY <1>4, <1>12, Zenon DEF Retelling, n
<1>14. /\ stage' = "rebuilding" /\ PlanOf(frame, target, Len(samples), full, plan)'
       /\ Retelling(frame, plan, samples, full, at, rebuild.packets)'
  BY <1>1, <1>2, <1>10, <1>13 DEF n
<1> QED  BY <1>14 DEF RetellInv

(* A rebuild that ends has told the whole frame.                           *)
LEMMA RetellEnds ==
  ASSUME RetellInv, EditInv', RebuildEnd
  PROVE  RetellInv'
<1> DEFINE n == Len(samples)
           c == Len(frame)
           r == rebuild
           end == [tag |-> "end", payload |-> <<>>]
           closed == Appended(rebuild, <<end>>)
<1>1. /\ Progress(frame, plan, at, r) /\ stage = "rebuilding"
      /\ frame \in Seq(Packet) /\ at > c /\ at \in 1..(c + 1) /\ n \in Nat /\ c \in Nat
      /\ full \in BOOLEAN /\ PlanOf(frame, target, n, full, plan)
      /\ Retelling(frame, plan, samples, full, at, r.packets)
  BY DEF RetellInv, EditInv, RebuildEnd, Arguments
<1>2. PICK i : \E b : /\ Replaceable(frame, plan, i, b)
                      /\ Tracks(frame, plan, n, full, i, b, Told(frame, at), r.packets)
                      /\ Fills(frame, plan, samples, i, b, Told(frame, at), r.packets)
  BY <1>1, Zenon DEF Retelling
<1>3. PICK b : /\ Replaceable(frame, plan, i, b)
               /\ Tracks(frame, plan, n, full, i, b, Told(frame, at), r.packets)
               /\ Fills(frame, plan, samples, i, b, Told(frame, at), r.packets)
  BY <1>2
<1>4. IsRebuild(r) /\ r.packets \in Seq(Packet) /\ c >= 3
  BY <1>1, <1>3, ReplaceableIs DEF Progress, Tracks
<1>5. /\ status' = (IF ~r.finished \/ r.logical # TargetDataBytes THEN "frame"
                    ELSE IF closed.status = "ok" /\ closed.length # expected.frame_bytes
                    THEN "frame" ELSE closed.status)
      /\ out' = IF status' = "ok" THEN closed.packets ELSE out
      /\ stage' = IF status' = "ok" THEN "rebuilt" ELSE "ended"
      /\ UNCHANGED <<arguments, plan, room, at, rebuild>>
  <2> HIDE DEF closed
  <2> QED  BY Zenon DEF RebuildEnd, closed, end
<1>6. Told(frame, at) = c - 1
  BY <1>1, <1>4 DEF Told
<1>7. Outcome(frame, plan, n, full, Append(r.packets, EndPacket))
  <2>1. Tracks(frame, plan, n, full, i, b, Len(frame) - 1, r.packets)
    BY <1>3, <1>6
  <2> HIDE DEF n, r
  <2> QED  BY <1>1, <1>3, <2>1, TrackEnd
<1>10. Refilled(frame, plan, samples, Append(r.packets, EndPacket))
  <2>1. Fills(frame, plan, samples, i, b, Len(frame) - 1, r.packets)
    BY <1>3, <1>6
  <2> HIDE DEF r
  <2> QED  BY <1>3, <2>1, FillEnds DEF Refilled
<1>8. CASE status' # "ok"
  <2>1. stage' = "ended"
    BY <1>5, <1>8
  <2> QED  BY <2>1 DEF RetellInv
<1>9. CASE status' = "ok"
  <2> HIDE DEF closed
  <2>1. closed.status = "ok" /\ out' = closed.packets /\ stage' = "rebuilt"
    BY <1>5, <1>9
  <2>2. closed.packets = r.packets \o <<end>>
    <3> HIDE DEF r, end
    <3>1. closed = Appended(r, <<end>>)
      BY DEF closed, r
    <3> QED  BY <1>4, <2>1, <3>1, AppendedPackets
  <2>3. r.packets \o <<end>> = Append(r.packets, end) /\ end = EndPacket
    <3>1. end = EndPacket
      BY DEF EndPacket
    <3>2. end \in Packet
      BY <3>1 DEF Packet, EndPacket, Tags
    <3> HIDE DEF end
    <3> QED  BY <1>4, <3>1, <3>2
  <2>4. UNCHANGED <<frame, target, samples, full, plan>>
    BY <1>5 DEF arguments
  <2> HIDE DEF end, r
  <2>5. Outcome(frame, plan, Len(samples), full, out)' /\ Refilled(frame, plan, samples, out)'
    BY <1>7, <1>10, <2>1, <2>2, <2>3, <2>4 DEF n
  <2>6. PlanOf(frame, target, Len(samples), full, plan)'
    BY <1>1, <2>4 DEF n
  <2> QED  BY <2>1, <2>5, <2>6 DEF RetellInv
<1> QED  BY <1>8, <1>9

(* Every step of an edit keeps RetellInv.                                  *)
LEMMA RetellKeeps ==
  RetellInv /\ [EditNext]_editVars => RetellInv'
<1> SUFFICES ASSUME RetellInv, [EditNext]_editVars PROVE RetellInv'
  OBVIOUS
<1>0. EditInv /\ EditInv'
  BY EditKeeps DEF RetellInv
<1>1. CASE Plan
  <2>1. stage' \in {"planned", "ended"}
    BY <1>1 DEF Plan
  <2> QED  BY <1>0, <2>1 DEF RetellInv
<1>2. CASE \/ \E run \in SampleRuns : ChangeSamples(run)
           \/ \E other \in Substitutes : ChangeFrame(other)
  <2>1. stage' = "planned"
    BY <1>2 DEF ChangeSamples, ChangeFrame
  <2> QED  BY <1>0, <2>1 DEF RetellInv
<1>3. CASE \E bytes \in Rooms : RebuildBegin(bytes)
  BY <1>0, <1>3, RetellBegins
<1>4. CASE RebuildPacket
  BY <1>0, <1>4, RetellGoesOn
<1>5. CASE RebuildEnd
  BY <1>0, <1>5, RetellEnds
<1>6. CASE UNCHANGED editVars
  BY <1>0, <1>6 DEF editVars, arguments, RetellInv
<1> QED  BY <1>1, <1>2, <1>3, <1>4, <1>5, <1>6 DEF EditNext

(* RetellInv holds in every state of an edit.                              *)
LEMMA RetellSound ==
  EditSpec => []RetellInv
<1>1. EditInit => RetellInv
  BY EditBegins DEF EditInit, RetellInv
<1> QED  BY <1>1, RetellKeeps, PTL DEF EditSpec

(* What a parser has read is a run of records.                             *)
LEMMA ParsedSeen ==
  ASSUME NEW f \in Seq(Packet)
  PROVE  Parsed(f).stream.seen \in Seq(Observation)
<1>1. ParsedUpTo(f) \in [0..Len(f) -> Parsers] /\ Len(f) \in 0..Len(f)
  BY ParsedRun
<1>2. Parsed(f) \in Parsers
  BY <1>1 DEF Parsed
<1> QED  BY <1>2, ParserFacts, StreamFields

(* A frame told so differs from the old one in its target alone.           *)
LEMMA OutcomeChanges ==
  ASSUME RetellInv
  PROVE  OnlyTheTargetChanges
<1> SUFFICES ASSUME stage = "rebuilt" PROVE OnlyTheTargetChanges
  BY DEF OnlyTheTargetChanges
<1> DEFINE n == Len(samples)
           old == Parsed(frame).stream.seen
           new == Parsed(out).stream.seen
           D == plan.data.offset
           g == GrowthBytes(plan)
           R == RecordsIn(frame)
           V == RecordsIn(out)
<1>1. /\ frame \in Seq(Packet) /\ n \in Nat /\ full \in BOOLEAN
      /\ PlanOf(frame, target, n, full, plan) /\ Outcome(frame, plan, n, full, out)
  BY DEF RetellInv, EditInv, Arguments
<1>2. /\ old \in Seq(Observation) /\ InOrder(old) /\ target \in DOMAIN old
      /\ plan.data = old[target].data /\ plan.frame_bytes = FrameLen(frame) + g
  <2>1. RecordPlanned(frame, target, plan, old)
    <3> HIDE DEF n
    <3> QED  BY <1>1, PlannedRecord
  <2> HIDE DEF old, g
  <2>2. plan.frame_bytes = FrameLen(frame) + GrowthBytes(plan)
    BY <2>1 DEF RecordPlanned
  <2> QED  BY <2>1, <2>2 DEF RecordPlanned, g
<1>3. Placed(plan)
  <2> HIDE DEF n
  <2> QED  BY <1>1, PlannedPlace
<1>4. /\ out \in Seq(Packet) /\ ExactStatus(out, Parsed(out)) = "ok"
      /\ SeenMoves(plan, n, full, old, new) /\ OthersOf(out) = OthersOf(frame)
  BY <1>1 DEF Outcome
<1>5. new \in Seq(Observation)
  BY <1>4, ParsedSeen
<1>6. WireGrowth = g
  <2>1. FrameLen(frame) \in Nat /\ g \in Nat
    <3>1. frame # <<>> /\ frame[Len(frame)].tag = "end" /\ WellFormed(frame, Len(frame))
          /\ Len(frame) >= 3
      <4>1. \E i : \E b : Replaceable(frame, plan, i, b)
        <5> HIDE DEF n
        <5> QED  BY <1>1, PlannedPlace
      <4>2. PICK i : \E b : Replaceable(frame, plan, i, b)
        BY <4>1
      <4>3. PICK b : Replaceable(frame, plan, i, b)
        BY <4>2
      <4>4. WellFormed(frame, Len(frame)) /\ frame[Len(frame)].tag = "end" /\ Len(frame) >= 3
        BY <4>3, ReplaceableIs
      <4>5. frame # <<>>
        BY <4>4
      <4> QED  BY <4>4, <4>5
    <3>2. FrameLen(frame) \in Nat
      BY <1>1, <3>1, FrameEnds
    <3> QED  BY <1>3, <3>2 DEF Placed
  <2> DEFINE x == FrameLen(frame)
  <2>2. WireGrowth = (x + g) - x
    BY <1>2 DEF WireGrowth
  <2> HIDE DEF x, g
  <2> QED  BY <2>1, <2>2 DEF x
<1> HIDE DEF old, new, g, n
<1>7. DOMAIN R = DOMAIN old /\ DOMAIN V = DOMAIN old /\ RecordsMoved(plan, n, full, target, g, R, V)
  <2>1. /\ DOMAIN Topology(new).records = DOMAIN Topology(old).records
        /\ DOMAIN Topology(old).records = DOMAIN old
        /\ RecordsMoved(plan, n, full, target, g, Topology(old).records, Topology(new).records)
    <3>1. g = GrowthBytes(plan)
      BY DEF g
    <3> QED  BY <1>1, <1>2, <1>3, <1>4, <1>5, <3>1, RecordsMove
  <2>2. R = Topology(old).records /\ V = Topology(new).records
    BY DEF RecordsIn, old, new
  <2> HIDE DEF R, V
  <2> QED  BY <2>1, <2>2
<1> HIDE DEF R, V
<1>8. ASSUME NEW j \in DOMAIN R
      PROVE  IF j # target THEN Untouched(R[j], V[j])
             ELSE V[j] = [R[j] EXCEPT !.range = TargetRange(R[j]), !.data.length = @ + WireGrowth]
  <2>1. CASE j # target
    <3>1. V[j] = IF R[j].data.offset > plan.data.offset
                 THEN [R[j] EXCEPT !.data = Moved(@, g), !.selection = Moved(@, g)] ELSE R[j]
      BY <1>7, <2>1, Zenon DEF RecordsMoved
    <3>2. Untouched(R[j], V[j])
      BY <1>6, <3>1, Zenon DEF Untouched
    <3> QED  BY <2>1, <3>2, Zenon
  <2>2. CASE j = target
    <3>1. V[j] = [R[j] EXCEPT !.range = Rewritten(n, full, R[j].range), !.data.length = @ + g]
          /\ R[j].range \in Seq(0..255) /\ Len(R[j].range) = 2 * RangeBytes
      BY <1>7, <2>2, Zenon DEF RecordsMoved
    <3>2. Rewritten(n, full, R[j].range) = TargetRange(R[j])
      <4> DEFINE h == R[j].range
      <4>1. h \in Seq(0..255) /\ Len(h) = 2 * RangeBytes
        BY <3>1, Zenon
      <4> HIDE DEF h
      <4>2. Rewritten(n, full, h) =
              IF ~full THEN h
              ELSE [i \in 1..(2 * RangeBytes) |->
                      IF i <= RangeBytes THEN 0 ELSE (n \div 256^(i - RangeBytes - 1)) % 256]
        BY <1>1, <4>1, RangeIs DEF n
      <4> QED  BY <4>2, Zenon DEF TargetRange, h, n
    <3> QED  BY <1>6, <2>2, <3>1, <3>2, Zenon
  <2> QED  BY <2>1, <2>2
<1> QED  BY <1>4, <1>7, <1>8, Zenon DEF OnlyTheTargetChanges, R, V

(* A frame rebuilt is exact and reads as the old one but for the target's  *)
(* pool: every other record keeps its selector, source, flags and bytes,   *)
(* behind the target they only move by the growth; the target's record     *)
(* grows by it and its range is what the edit says; no other packet is     *)
(* lost, added or moved (pool_edit_rebuild_packet of                       *)
(* src/core/src/po33.c, for every frame, record, run of samples and room). *)
THEOREM OnlyTargetHolds == EditSpec => []OnlyTheTargetChanges
<1>1. RetellInv => OnlyTheTargetChanges
  BY OutcomeChanges
<1> QED  BY <1>1, RetellSound, PTL

-----------------------------------------------------------------------------
(***************************************************************************)
(* An edit settles: what a plan is granted for, and that the frame that    *)
(* comes out is granted one.                                               *)
(***************************************************************************)
(* Frames with records of one shape are judged alike.                      *)
LEMMA SameJudgement ==
  ASSUME NEW old \in Seq(Observation), NEW new \in Seq(Observation), SameShape(old, new),
         NEW t \in DOMAIN old
  PROVE  /\ EditFlags(Measured(new), new[t]) = EditFlags(Measured(old), old[t])
         /\ \A p : EditReferring(Measured(new), new, p) = EditReferring(Measured(old), old, p)
         /\ \A x, p : EditStrays(Measured(new), new, x, p) <=> EditStrays(Measured(old), old, x, p)
         /\ PoolOf(new, t) = PoolOf(old, t)
<1>1. /\ DOMAIN new = DOMAIN old /\ DOMAIN old = 1..Len(old)
      /\ \A j \in DOMAIN old : new[j].selector = old[j].selector /\ new[j].source = old[j].source
  BY DEF SameShape
<1>2. /\ \A s : Named(new, s) = Named(old, s) /\ OwnersOf(new, s) = OwnersOf(old, s)
      /\ \A j \in DOMAIN old : PoolOf(new, j) = PoolOf(old, j)
      /\ \A s : PoolNamed(new, s) = PoolNamed(old, s)
  BY SameOwners
<1> DEFINE m == Measured(new)
           l == Measured(old)
<1>3. ASSUME NEW j \in DOMAIN old
      PROVE  /\ EditFlags(m, new[j]) = EditFlags(l, old[j])
             /\ EditReference(m, new[j]) = EditReference(l, old[j])
  <2>1. LooseEnds(new, j) = LooseEnds(old, j)
    BY <1>1, <1>2 DEF LooseEnds
  <2>2. /\ EditFlags(m, new[j]) = LooseEnds(new, j) /\ EditFlags(l, old[j]) = LooseEnds(old, j)
        /\ EditReference(m, new[j]) = PoolNamed(new, new[j].source)
        /\ EditReference(l, old[j]) = PoolNamed(old, old[j].source)
    BY <1>1, EditSees
  <2> QED  BY <1>1, <1>2, <2>1, <2>2
<1> HIDE DEF m, l
<1>4. \A p : EditReferring(m, new, p) = EditReferring(l, old, p)
  BY <1>1, <1>3 DEF EditReferring
<1>5. \A x, p : EditStrays(m, new, x, p) <=> EditStrays(l, old, x, p)
  BY <1>1, <1>3 DEF EditStrays
<1> QED  BY <1>2, <1>3, <1>4, <1>5 DEF m, l

(* What a record must be for a plan to be granted.                         *)
Existing(seen, t) == seen[t].data_bytes - HeaderBytes

Clear(seen, t, n, whole) ==
  /\ EditFlags(Measured(seen), seen[t]) \cap {"duplicate_selector", "source_ambiguous"} = {}
  /\ "unknown_extension" \notin seen[t].flags
  /\ ~EditStrays(Measured(seen), seen, seen[t].selector, CountedInFrame(seen, t, n).pool)
  /\ ~(whole /\ (CountedInFrame(seen, t, n).references # 1
                   \/ seen[t].source # seen[t].selector))

Grantable(seen, t, n, whole) ==
  /\ t \in DOMAIN seen /\ "header_only" \notin seen[t].flags /\ PoolOf(seen, t) # NoIndex
  /\ TargetBoundaryValid(seen[t]) /\ Clear(seen, t, n, whole)
  /\ Existing(seen, t) % BlockBytes = 0 \/ StorageBytes(n, whole) <= Existing(seen, t)

(* What a plan says that is granted.                                       *)
Sizing(p, e, w) ==
  /\ p.existing = e /\ p.required = (IF w <= e THEN e ELSE Rounded(w))
  /\ p.growth = p.required - e /\ p.fits = (w <= e)

(* What sizing a plan writes.                                             *)
LEMMA SizedIs ==
  ASSUME NEW c \in PlanRecord, NEW e \in Nat, NEW w \in Nat
  PROVE  /\ Sizing(Sized(c, e, w), e, w) /\ Sized(c, e, w) \in PlanRecord
         /\ Sized(c, e, w).growth_required = (w > e)
<1> DEFINE q == IF w <= e THEN e ELSE Rounded(w)
           fits == w <= e
           more == w > e
           d == q - e
           z == Sized(c, e, w)
<1>1. z = [c EXCEPT !.existing = e, !.required = q, !.growth = d,
                    !.fits = fits, !.growth_required = more]
  BY DEF Sized
<1> HIDE DEF z, q, d, fits, more
<1>2. /\ z.existing = e /\ z.required = q /\ z.growth = d /\ z.fits = fits
      /\ z.growth_required = more
  BY <1>1 DEF PlanRecord
<1>3. z \in PlanRecord
  BY SizedFigures DEF z
<1> QED  BY <1>2, <1>3 DEF Sizing, z, q, d, fits, more

(* No objection holds when the record is clear and growth is aligned.      *)
LEMMA ObjectionsClear ==
  ASSUME NEW seen, NEW t, NEW n, NEW whole, NEW e, NEW w,
         Planning(seen, t, n, whole).existing = e,
         Planning(seen, t, n, whole).growth_required = (w > e)
  PROVE  (\A i \in 1..6 : ~PlanObjections(seen, t, n, whole)[i].holds)
           <=> Clear(seen, t, n, whole) /\ ~(e % BlockBytes # 0 /\ w > e)
<1> DEFINE x1 == "duplicate_selector" \in EditFlags(Measured(seen), seen[t])
           x2 == "source_ambiguous" \in EditFlags(Measured(seen), seen[t])
           x3 == "unknown_extension" \in seen[t].flags
           x4 == EditStrays(Measured(seen), seen, seen[t].selector,
                            CountedInFrame(seen, t, n).pool)
           x5 == whole /\ (CountedInFrame(seen, t, n).references # 1
                             \/ seen[t].source # seen[t].selector)
           d == Planning(seen, t, n, whole)
           x6 == d.existing % BlockBytes # 0 /\ d.growth_required
           o1 == Objection(x1, "parse", "duplicate_target_selector")
           o2 == Objection(x2, "parse", "ambiguous_selector")
           o3 == Objection(x3, "parse", "unknown_target_extension")
           o4 == Objection(x4, "parse", "ambiguous_selector")
           o5 == Objection(x5, "parse", "not_exclusive")
           o6 == Unaligned(d)
           objections == PlanObjections(seen, t, n, whole)
<1>1. objections = <<o1, o2, o3, o4, o5, o6>>
  BY DEF PlanObjections
<1>2. o6 = Objection(x6, "range", "existing_allocation_unaligned")
  BY DEF Unaligned
<1>3. x6 <=> e % BlockBytes # 0 /\ w > e
  <2> HIDE DEF d
  <2> QED  BY DEF d
<1>4. Clear(seen, t, n, whole) <=> ~x1 /\ ~x2 /\ ~x3 /\ ~x4 /\ ~x5
  BY DEF Clear
<1> HIDE DEF x1, x2, x3, x4, x5, x6, d
<1>5. /\ o1.holds = x1 /\ o2.holds = x2 /\ o3.holds = x3 /\ o4.holds = x4 /\ o5.holds = x5
      /\ o6.holds = x6
  BY <1>2 DEF Objection
<1> HIDE DEF o1, o2, o3, o4, o5, o6, objections
<1>6. /\ objections[1] = o1 /\ objections[2] = o2 /\ objections[3] = o3
      /\ objections[4] = o4 /\ objections[5] = o5 /\ objections[6] = o6
  BY <1>1
<1>7. (\A i \in 1..6 : ~objections[i].holds) <=> ~x1 /\ ~x2 /\ ~x3 /\ ~x4 /\ ~x5 /\ ~x6
  <2>1. (\A i \in 1..6 : ~objections[i].holds)
          <=> /\ ~objections[1].holds /\ ~objections[2].holds /\ ~objections[3].holds
              /\ ~objections[4].holds /\ ~objections[5].holds /\ ~objections[6].holds
    OBVIOUS
  <2> QED  BY <1>5, <1>6, <2>1, Zenon
<1> QED  BY <1>3, <1>4, <1>7 DEF objections

(* A plan is granted for the records that are grantable and for no others. *)
LEMMA GrantedIs ==
  ASSUME NEW seen \in Seq(Observation), NEW t, NEW n \in Nat, NEW whole \in BOOLEAN
  PROVE  LET verdict == PlanVerdict(seen, t, n, whole)
         IN  /\ verdict.status = "ok" <=> Grantable(seen, t, n, whole)
             /\ verdict.status = "ok" =>
                  /\ Existing(seen, t) \in Nat
                  /\ Sizing(verdict.plan, Existing(seen, t), StorageBytes(n, whole))
<1> DEFINE verdict == PlanVerdict(seen, t, n, whole)
<1>0. ASSUME NEW p, NEW s \in {"parse", "range"}, NEW r, verdict = Refused(p, s, r)
      PROVE  verdict.status # "ok"
  <2> DEFINE z == [p EXCEPT !.reason = r]
  <2>1. verdict = [status |-> s, plan |-> z]
    BY <1>0 DEF Refused
  <2> HIDE DEF verdict, z
  <2> QED  BY <2>1
<1>1. CASE ~Grantable(seen, t, n, whole) /\ t \notin DOMAIN seen
  <2>1. verdict = Refused(Asked(n), "range", "target_record_out_of_range")
    BY <1>1 DEF PlanVerdict
  <2> QED  BY <1>0, <1>1, <2>1
<1>2. CASE t \in DOMAIN seen /\ ("header_only" \in seen[t].flags \/ PoolOf(seen, t) = NoIndex)
  <2>1. verdict = Refused(Asked(n), "range", "target_not_owned")
    BY <1>2 DEF PlanVerdict
  <2>2. ~Grantable(seen, t, n, whole)
    BY <1>2 DEF Grantable
  <2> QED  BY <1>0, <2>1, <2>2
<1>3. CASE /\ t \in DOMAIN seen /\ ~("header_only" \in seen[t].flags \/ PoolOf(seen, t) = NoIndex)
           /\ ~TargetBoundaryValid(seen[t])
  <2>1. verdict = Refused(CountedInFrame(seen, t, n), "parse", "ambiguous_group_boundary")
    BY <1>3 DEF PlanVerdict
  <2>2. ~Grantable(seen, t, n, whole)
    BY <1>3 DEF Grantable
  <2> QED  BY <1>0, <2>1, <2>2
<1>4. CASE /\ t \in DOMAIN seen /\ ~("header_only" \in seen[t].flags \/ PoolOf(seen, t) = NoIndex)
           /\ TargetBoundaryValid(seen[t])
  <2> DEFINE e == Existing(seen, t)
             w == StorageBytes(n, whole)
             c == CountedInFrame(seen, t, n)
             p == Planning(seen, t, n, whole)
             objections == PlanObjections(seen, t, n, whole)
  <2>1. verdict = Judged(p, objections)
    BY <1>4 DEF PlanVerdict
  <2>2. e \in Nat /\ w \in Nat
    <3>1. seen[t] \in Observation /\ seen[t].data_bytes > HeaderBytes
      BY <1>4 DEF TargetBoundaryValid
    <3>2. seen[t].data_bytes \in Nat
      BY <3>1 DEF Observation
    <3> QED  BY <3>1, <3>2, TopologyConstants DEF Existing, StorageBytes
  <2>3. p \in PlanRecord /\ Sizing(p, e, w) /\ p.growth_required = (w > e)
    <3>1. c \in PlanRecord
      BY <1>4, CountedType
    <3>2. p = Sized(c, e, w)
      BY DEF Planning, Existing
    <3> HIDE DEF c, w, e, p
    <3> QED  BY <2>2, <3>1, <3>2, SizedIs
  <2>4. /\ DOMAIN objections = 1..6
        /\ \A i \in 1..6 : objections[i].status \in {"parse", "range"}
    BY PlanObjectionsAre
  <2>5. (\A i \in 1..6 : ~objections[i].holds)
          <=> Clear(seen, t, n, whole) /\ ~(e % BlockBytes # 0 /\ w > e)
    <3>1. p.existing = e
      BY <2>3 DEF Sizing
    <3> HIDE DEF e, w
    <3> QED  BY <2>3, <3>1, ObjectionsClear
  <2>6. Grantable(seen, t, n, whole) <=> \A i \in 1..6 : ~objections[i].holds
    <3>1. ~(e % BlockBytes # 0 /\ w > e) <=> e % BlockBytes = 0 \/ w <= e
      <4> HIDE DEF e, w
      <4> QED  BY <2>2
    <3> HIDE DEF objections
    <3> QED  BY <1>4, <2>5, <3>1 DEF Grantable
  <2>7. FirstDecides(p, objections)
    <3>1. DOMAIN objections \in SUBSET Nat
      BY <2>4
    <3> HIDE DEF p, objections
    <3> QED  BY <3>1, FirstObjection
  <2> HIDE DEF p, objections, verdict, e, w
  <2>8. CASE \A i \in 1..6 : ~objections[i].holds
    <3> DEFINE y == p.existing % BlockBytes = 0
               z == [p EXCEPT !.growth_eligible = y]
    <3>1. verdict = Granted(z)
      BY <2>1, <2>4, <2>7, <2>8 DEF FirstDecides
    <3>2. z.existing = p.existing /\ z.growth = p.growth /\ z.required = p.required
          /\ z.fits = p.fits
      BY <2>3 DEF PlanRecord
    <3> HIDE DEF z
    <3>3. verdict.plan = z /\ verdict.status = "ok"
      BY <3>1 DEF Granted
    <3>4. Sizing(verdict.plan, e, w)
      BY <2>3, <3>2, <3>3 DEF Sizing
    <3> QED  BY <2>2, <2>6, <2>8, <3>3, <3>4 DEF verdict, e, w
  <2>9. CASE ~(\A i \in 1..6 : ~objections[i].holds)
    <3>1. PICK i \in DOMAIN objections :
            verdict = Refused(p, objections[i].status, objections[i].reason)
      BY <2>1, <2>4, <2>7, <2>9 DEF FirstDecides
    <3>2. verdict.status # "ok"
      BY <1>0, <2>4, <3>1 DEF verdict
    <3> QED  BY <2>6, <2>9, <3>2 DEF verdict
  <2> QED  BY <2>8, <2>9
<1>5. t \notin DOMAIN seen => ~Grantable(seen, t, n, whole)
  BY DEF Grantable
<1> QED  BY <1>1, <1>2, <1>3, <1>4, <1>5

(* Growth is made of whole blocks.                                         *)
LEMMA GrowthIsWhole ==
  ASSUME NEW e \in Nat, NEW w \in Nat, w > e, e % BlockBytes = 0
  PROVE  ((Rounded(w) - e) \div BlockBytes) * BlockBytes = Rounded(w) - e
<1> DEFINE B == BlockBytes
           q == (w + B - 1) \div B
           k == e \div B
<1>1. B \in Nat \ {0} /\ Rounded(w) \in Nat /\ Rounded(w) >= w
  BY RoundedIsEnough, SizesAssumption
<1>2. q \in Nat /\ Rounded(w) = q * B
  <2> DEFINE x == w + B - 1
  <2>1. x \in Nat
    BY <1>1
  <2> HIDE DEF x
  <2>2. x \div B \in Nat
    BY <1>1, <2>1
  <2> QED  BY <2>2 DEF x, Rounded
<1>3. k \in Nat /\ e = k * B
  <2> HIDE DEF B
  <2>1. k \in Nat /\ e = B * k + (e % B)
    BY <1>1
  <2>2. e % B = 0
    BY DEF B
  <2>3. B * k = k * B /\ B * k \in Nat
    BY <1>1, <2>1
  <2> DEFINE y == k * B
             z == B * k
             r == e % B
  <2>4. e = z + r /\ r = 0 /\ z = y /\ z \in Nat
    BY <2>1, <2>2, <2>3
  <2> HIDE DEF y, z, r
  <2>5. e = y
    BY <2>4
  <2> QED  BY <2>1, <2>5 DEF y
<1> HIDE DEF q, k, B
<1>4. q > k
  <2>1. ASSUME q <= k PROVE FALSE
    <3> DEFINE j == k - q
    <3>1. j \in Nat /\ k = q + j
      BY <1>2, <1>3, <2>1
    <3> HIDE DEF j
    <3>2. k * B = q * B + j * B /\ q * B \in Nat /\ j * B \in Nat
      BY <1>1, <1>2, <3>1
    <3> DEFINE x == k * B
               y == q * B
               z == j * B
    <3>3. x = y + z /\ y \in Nat /\ z \in Nat /\ e = x /\ y >= w /\ w > e
      BY <1>1, <1>2, <1>3, <3>2
    <3> HIDE DEF x, y, z
    <3> QED  BY <3>3
  <2> QED  BY <1>2, <1>3, <2>1
<1> DEFINE j == q - k
<1>5. j \in Nat /\ q = k + j
  BY <1>2, <1>3, <1>4
<1> HIDE DEF j
<1>6. Rounded(w) - e = j * B /\ j * B \in Nat
  <2>1. q * B = k * B + j * B /\ k * B \in Nat /\ j * B \in Nat
    BY <1>1, <1>3, <1>5
  <2> DEFINE x == k * B
             y == q * B
             z == j * B
  <2>2. y = x + z /\ x \in Nat /\ z \in Nat /\ Rounded(w) = y /\ e = x
    BY <1>2, <1>3, <2>1
  <2> HIDE DEF x, y, z
  <2>3. Rounded(w) - e = z /\ z \in Nat
    BY <2>2
  <2> QED  BY <2>3 DEF z
<1>7. (j * B) \div B = j
  <2> DEFINE x == j * B
  <2>1. x \in Nat /\ j * B <= x /\ x < j * B + B
    BY <1>1, <1>6
  <2> HIDE DEF x
  <2>2. x \div B = j
    BY <1>1, <1>5, <2>1, QuotientIs
  <2> QED  BY <2>2 DEF x
<1> QED  BY <1>6, <1>7 DEF B

(* Growth takes more on the wire than it holds.                            *)
LEMMA GrowthTakesMore ==
  ASSUME NEW edit, edit.replacement.growth \in Nat
  PROVE  GrowthBytes(edit) >= GrowthData(edit)
<1> DEFINE c == edit.replacement.growth \div BlockBytes
           B == BlockBytes
           P == PacketsPerBlock
<1>1. B \in Nat \ {0} /\ P \in Nat /\ OverheadBytes = 5
  BY SizesAssumption, TopologyConstants
<1>2. c \in Nat
  BY <1>1
<1>3. GrowthBytes(edit) = c * (B + P * 5) /\ GrowthData(edit) = c * B
  BY <1>1 DEF GrowthBytes, GrowthData, BlockWire
<1> HIDE DEF c, B, P
<1>4. c * (B + P * 5) = c * B + 5 * (c * P) /\ c * P \in Nat /\ c * B \in Nat
  BY <1>1, <1>2
<1> DEFINE x == c * (B + P * 5)
           y == c * B
           z == c * P
<1>5. x = y + 5 * z /\ z \in Nat /\ y \in Nat /\ GrowthBytes(edit) = x /\ GrowthData(edit) = y
  BY <1>3, <1>4
<1> HIDE DEF x, y, z
<1> QED  BY <1>5

(* A granted plan's sizes.                                                 *)
LEMMA PlannedGrant ==
  ASSUME NEW f \in Seq(Packet), NEW t, NEW n \in Nat, NEW whole \in BOOLEAN,
         NEW edit, PlanOf(f, t, n, whole, edit), NEW seen, seen = Parsed(f).stream.seen
  PROVE  /\ seen \in Seq(Observation) /\ Grantable(seen, t, n, whole)
         /\ Existing(seen, t) \in Nat /\ ~(whole /\ n = 0)
         /\ Sizing(edit.replacement, Existing(seen, t), StorageBytes(n, whole))
<1> DEFINE verdict == PlanVerdict(seen, t, n, whole)
           e == EditFor(f, seen, t, verdict)
           s == verdict.status
<1>1. EditPlan(f, t, n, whole) =
        IF whole /\ n = 0 THEN [status |-> "range", edit |-> NoEdit]
        ELSE IF ExactStatus(f, Parsed(f)) # "ok"
        THEN [status |-> "frame", edit |-> NoEdit]
        ELSE [status |-> s, edit |-> e]
  BY EditPlanIs
<1>2. ExactStatus(f, Parsed(f)) = "ok" /\ s = "ok" /\ edit = e /\ ~(whole /\ n = 0)
  <2> HIDE DEF e, s
  <2> QED  BY <1>1 DEF PlanOf
<1>3. seen \in Seq(Observation)
  BY <1>2, ExactFrame
<1>4. /\ Grantable(seen, t, n, whole) /\ Existing(seen, t) \in Nat
      /\ Sizing(verdict.plan, Existing(seen, t), StorageBytes(n, whole))
  BY <1>2, <1>3, GrantedIs
<1>5. edit.replacement = verdict.plan
  <2> HIDE DEF verdict, e, s
  <2>1. verdict.status = "ok"
    BY <1>2 DEF s
  <2> QED  BY <1>2, <2>1 DEF EditFor, e
<1> QED  BY <1>2, <1>3, <1>4, <1>5

(* The frame that comes out is granted the same plan, without growth.      *)
LEMMA GrantSettles ==
  ASSUME NEW old \in Seq(Observation), NEW new \in Seq(Observation),
         NEW n \in Nat, NEW whole \in BOOLEAN, NEW edit, Placed(edit),
         SeenMoves(edit, n, whole, old, new), NEW t, Grantable(old, t, n, whole),
         edit.data = old[t].data, Existing(old, t) \in Nat,
         Sizing(edit.replacement, Existing(old, t), StorageBytes(n, whole))
  PROVE  /\ Grantable(new, t, n, whole) /\ StorageBytes(n, whole) <= Existing(new, t)
         /\ Existing(new, t) = edit.replacement.required
<1> DEFINE e == Existing(old, t)
           x == Existing(new, t)
           w == StorageBytes(n, whole)
           o == old[t]
           u == new[t]
           c == GrowthData(edit)
           g == GrowthBytes(edit)
<1>1. SameShape(old, new)
  BY MovedShape
<1>2. /\ t \in DOMAIN old /\ "header_only" \notin o.flags /\ PoolOf(old, t) # NoIndex
      /\ TargetBoundaryValid(o) /\ Clear(old, t, n, whole)
      /\ e % BlockBytes = 0 \/ w <= e
  BY DEF Grantable
<1>3. /\ EditFlags(Measured(new), u) = EditFlags(Measured(old), o)
      /\ \A p : EditReferring(Measured(new), new, p) = EditReferring(Measured(old), old, p)
      /\ \A s, p : EditStrays(Measured(new), new, s, p) <=> EditStrays(Measured(old), old, s, p)
      /\ PoolOf(new, t) = PoolOf(old, t)
  BY <1>1, <1>2, SameJudgement
<1>4. t \in 1..Len(old) /\ t \in DOMAIN new /\ ObsMoves(edit, n, whole, o, u)
  BY <1>2 DEF SeenMoves
<1>5. u.selector = o.selector /\ u.source = o.source /\ u.flags = o.flags
  BY <1>4 DEF ObsMoves
<1>6. CountedInFrame(new, t, n) = CountedInFrame(old, t, n)
  BY <1>3 DEF CountedInFrame
<1>7. Clear(new, t, n, whole)
  BY <1>2, <1>3, <1>5, <1>6, Zenon DEF Clear
<1>8. /\ u.selection = o.selection /\ u.data_bytes = o.data_bytes + c
      /\ u.data.offset = o.data.offset /\ u.data.length = o.data.length + g
  <2>1. /\ u.selection = o.selection /\ u.data_bytes = o.data_bytes + c
        /\ u.data = [offset |-> o.data.offset, length |-> o.data.length + g]
    BY <1>4, Zenon DEF ObsMoves
  <2> HIDE DEF o, u, c, g
  <2> QED  BY <2>1
<1>9. o.data_bytes \in Nat /\ o.data.length \in Nat /\ o.data.offset \in Nat /\ HeaderBytes \in Nat
      /\ OverheadBytes \in Nat /\ c \in Nat /\ g \in Nat
  <2>1. o \in Observation
    BY <1>2
  <2> HIDE DEF o
  <2> QED  BY <2>1, TopologyConstants DEF Observation, Span, Placed
<1>10. w \in Nat
  BY DEF StorageBytes
<1>11. /\ edit.replacement.required = (IF w <= e THEN e ELSE Rounded(w))
       /\ edit.replacement.growth = edit.replacement.required - e
  BY DEF Sizing
<1>12. Rounded(w) \in Nat /\ Rounded(w) >= w
  BY <1>10, RoundedIsEnough
<1>13. c = edit.replacement.growth /\ edit.replacement.growth \in Nat
  <2> DEFINE r == edit.replacement.growth
  <2>1. c = (r \div BlockBytes) * BlockBytes
    BY DEF GrowthData
  <2>2. CASE w <= e
    <3>1. r = 0
      <4> HIDE DEF e, w, r
      <4> QED  BY <1>11, <2>2 DEF e, r
    <3>2. 0 \div BlockBytes = 0 /\ 0 * BlockBytes = 0
      BY SizesAssumption
    <3> HIDE DEF r
    <3> QED  BY <2>1, <3>1, <3>2 DEF r
  <2>3. CASE ~(w <= e)
    <3>1. r = Rounded(w) - e /\ w > e /\ e % BlockBytes = 0
      <4> HIDE DEF e, w, r
      <4> QED  BY <1>2, <1>10, <1>11, <2>3 DEF r, e
    <3>2. (r \div BlockBytes) * BlockBytes = r
      <4> HIDE DEF e, w
      <4> QED  BY <1>10, <3>1, GrowthIsWhole DEF e
    <3>3. r \in Nat
      <4> HIDE DEF e, w, r
      <4> QED  BY <1>10, <1>12, <3>1 DEF e
    <3> HIDE DEF r, c
    <3> QED  BY <2>1, <3>2, <3>3 DEF r
  <2> QED  BY <2>2, <2>3
<1>14. g >= c
  BY <1>13, GrowthTakesMore
<1>15. TargetBoundaryValid(u)
  <2>1. /\ o.selection.length # 0 /\ o.data.length # 0 /\ o.data_bytes > HeaderBytes
        /\ o.data.length >= o.data_bytes + OverheadBytes
        /\ SpanEnd(o.selection) <= o.data.offset
    BY <1>2 DEF TargetBoundaryValid
  <2> HIDE DEF o, u, c, g
  <2> DEFINE ol == o.data.length
             ob == o.data_bytes
             ul == u.data.length
             ub == u.data_bytes
  <2>4. /\ ul = ol + g /\ ub = ob + c /\ ol \in Nat /\ ob \in Nat /\ ol # 0 /\ ob > HeaderBytes
        /\ ol >= ob + OverheadBytes
    BY <1>8, <1>9, <2>1
  <2> HIDE DEF ol, ob, ul, ub
  <2>5. ul # 0 /\ ub > HeaderBytes /\ ul >= ub + OverheadBytes
    BY <1>9, <1>14, <2>4
  <2>2. /\ u.selection.length # 0 /\ u.data.length # 0 /\ u.data_bytes > HeaderBytes
        /\ u.data.length >= u.data_bytes + OverheadBytes
    BY <1>8, <2>1, <2>5 DEF ul, ub
  <2>3. SpanEnd(u.selection) <= u.data.offset
    BY <1>8, <2>1 DEF SpanEnd
  <2> QED  BY <2>2, <2>3 DEF TargetBoundaryValid
<1>16. x = edit.replacement.required /\ w <= x
  <2>1. x = e + c
    <3>1. x = u.data_bytes - HeaderBytes /\ e = o.data_bytes - HeaderBytes
      BY DEF Existing
    <3> HIDE DEF x, e, o, u, c
    <3> QED  BY <1>8, <1>9, <3>1
  <2> DEFINE q == edit.replacement.required
             r == edit.replacement.growth
  <2>2. r = q - e /\ c = r /\ q = (IF w <= e THEN e ELSE Rounded(w)) /\ e \in Nat
    BY <1>11, <1>13
  <2> HIDE DEF x, e, w, c, q, r
  <2>3. q \in Nat /\ q >= w
    BY <1>10, <1>12, <2>2
  <2> QED  BY <2>1, <2>2, <2>3 DEF q
<1>17. Grantable(new, t, n, whole)
  <2>1. "header_only" \notin u.flags /\ PoolOf(new, t) # NoIndex
    BY <1>2, <1>3, <1>5
  <2> HIDE DEF x, w
  <2> QED  BY <1>4, <1>7, <1>15, <1>16, <2>1 DEF Grantable, x, w
<1> QED  BY <1>16, <1>17

(* So an edit settles.                                                     *)
LEMMA OutcomeSettles ==
  ASSUME RetellInv
  PROVE  EditSettles
<1> SUFFICES ASSUME stage = "rebuilt" PROVE EditSettles
  BY DEF EditSettles
<1> DEFINE n == Len(samples)
           old == Parsed(frame).stream.seen
           new == Parsed(out).stream.seen
           w == StorageBytes(n, full)
           verdict == PlanVerdict(new, target, n, full)
           s == verdict.status
           e == EditFor(out, new, target, verdict)
           again == EditPlan(out, target, n, full)
<1>1. /\ frame \in Seq(Packet) /\ n \in Nat /\ full \in BOOLEAN
      /\ PlanOf(frame, target, n, full, plan) /\ Outcome(frame, plan, n, full, out)
  BY DEF RetellInv, EditInv, Arguments
<1>2. old \in Seq(Observation) /\ plan.data = old[target].data
  <2>1. RecordPlanned(frame, target, plan, old)
    <3> HIDE DEF n
    <3> QED  BY <1>1, PlannedRecord
  <2> HIDE DEF old
  <2> QED  BY <2>1 DEF RecordPlanned
<1>3. Placed(plan)
  <2> HIDE DEF n
  <2> QED  BY <1>1, PlannedPlace
<1>4. /\ out \in Seq(Packet) /\ ExactStatus(out, Parsed(out)) = "ok"
      /\ SeenMoves(plan, n, full, old, new)
  BY <1>1 DEF Outcome
<1>5. new \in Seq(Observation)
  BY <1>4, ParsedSeen
<1>6. /\ Grantable(old, target, n, full) /\ Existing(old, target) \in Nat
      /\ ~(full /\ n = 0) /\ Sizing(plan.replacement, Existing(old, target), w)
  <2>1. old = Parsed(frame).stream.seen
    OBVIOUS
  <2> HIDE DEF n, old
  <2> QED  BY <1>1, <2>1, PlannedGrant DEF w
<1>7. Grantable(new, target, n, full) /\ w <= Existing(new, target)
  <2> HIDE DEF n, old, new
  <2> QED  BY <1>1, <1>2, <1>3, <1>4, <1>5, <1>6, GrantSettles DEF w
<1>8. /\ s = "ok" /\ Existing(new, target) \in Nat
      /\ Sizing(verdict.plan, Existing(new, target), w)
  <2> HIDE DEF n, new
  <2> QED  BY <1>1, <1>5, <1>7, GrantedIs
<1>9. again.status = "ok" /\ again.edit = e
  <2>1. again = IF full /\ n = 0 THEN [status |-> "range", edit |-> NoEdit]
                ELSE IF ExactStatus(out, Parsed(out)) # "ok"
                THEN [status |-> "frame", edit |-> NoEdit]
                ELSE [status |-> s, edit |-> e]
    BY EditPlanIs
  <2> HIDE DEF again, e, s, n
  <2> QED  BY <1>4, <1>6, <1>8, <2>1
<1>10. e.frame_bytes = NewFrameBytes(out, verdict.plan) /\ e.replacement = verdict.plan
  <2> HIDE DEF verdict, new
  <2> QED  BY <1>8 DEF EditFor
<1> DEFINE p == verdict.plan
<1>11. p.fits /\ p.growth = 0
  <2> DEFINE x == Existing(new, target)
  <2> HIDE DEF p, w, x
  <2>1. Sizing(p, x, w) /\ w <= x /\ x \in Nat
    BY <1>7, <1>8 DEF p, x
  <2>2. p.required = x /\ p.growth = p.required - x
    BY <2>1 DEF Sizing
  <2>3. p.growth = 0
    BY <2>1, <2>2
  <2>4. p.fits = (w <= x)
    BY <2>1, Zenon DEF Sizing
  <2>5. p.fits
    BY <2>1, <2>4, Zenon
  <2> QED  BY <2>3, <2>5
<1>12. NewFrameBytes(out, p) = FrameLen(out)
  <2>1. FrameLen(out) \in Nat
    <3>1. FrameLen(out) = OffsetOf(out, Len(out) + 1)
      <4>1. Len(out) >= 1 /\ out[Len(out)].tag = "end" /\ WellFormed(out, Len(out))
            /\ Len(out) \in Nat
        BY <1>4, ExactFrame
      <4>2. SubSeq(out, 1, (Len(out) + 1) - 1) = out
        BY <1>4, <4>1
      <4> QED  BY <4>2 DEF OffsetOf
    <3>2. Len(out) + 1 \in 1..(Len(out) + 1)
      BY <1>4
    <3> QED  BY <1>4, <3>1, <3>2, OffsetsGrow
  <2>2. NewFrameBytes(out, p)
          = FrameLen(out) + (0 \div BlockBytes) * (BlockBytes + PacketsPerBlock * OverheadBytes)
    <3> HIDE DEF p
    <3> QED  BY <1>11 DEF NewFrameBytes
  <2> DEFINE y == BlockBytes + PacketsPerBlock * OverheadBytes
             l == FrameLen(out)
  <2>3. 0 \div BlockBytes = 0 /\ y \in Nat
    BY SizesAssumption, TopologyConstants
  <2> HIDE DEF y, l
  <2>4. l + (0 \div BlockBytes) * y = l
    BY <2>1, <2>3 DEF l
  <2> QED  BY <2>2, <2>4 DEF l, y
<1>13. /\ again.status = "ok" /\ again.edit.replacement.fits
       /\ again.edit.frame_bytes = FrameLen(out)
  <2> HIDE DEF again, e, verdict
  <2> QED  BY <1>9, <1>10, <1>11, <1>12, Zenon DEF p
<1> QED  BY <1>13, Zenon DEF EditSettles

-----------------------------------------------------------------------------
(***************************************************************************)
(* And the pool then holds the samples.                                    *)
(***************************************************************************)
(* What carries the samples so far carries them with what goes on there.   *)
LEMMA CarriesOn ==
  ASSUME NEW run, NEW a \in Payload, NEW d \in Payload, Carries(run, 0, a),
         Carries(run, Len(a), d)
  PROVE  Carries(run, 0, a \o d)
<1> DEFINE z == a \o d
           l == Len(a)
           m == Len(d)
<1>1. /\ l \in Nat /\ m \in Nat /\ Len(z) = l + m /\ HeaderBytes \in Nat
      /\ \A p \in 1..l : z[p] = a[p]
      /\ \A q \in 1..m : z[l + q] = d[q]
  BY TopologyConstants, SMTT(30) DEF Payload
<1>2. \A p \in 1..l : 0 + p > HeaderBytes => a[p] = SampleIn(run, (0 + p) - HeaderBytes)
  BY DEF Carries
<1>3. \A q \in 1..m : l + q > HeaderBytes => d[q] = SampleIn(run, (l + q) - HeaderBytes)
  BY DEF Carries
<1> HIDE DEF z, l, m
<1>4. ASSUME NEW p \in 1..(l + m), 0 + p > HeaderBytes
      PROVE  z[p] = SampleIn(run, (0 + p) - HeaderBytes)
  <2>1. CASE p <= l
    <3>1. p \in 1..l
      BY <1>1, <2>1
    <3> QED  BY <1>1, <1>2, <1>4, <3>1
  <2>2. CASE ~(p <= l)
    <3> DEFINE q == p - l
    <3>1. q \in 1..m /\ l + q = p /\ 0 + p = p
      BY <1>1, <2>2
    <3> HIDE DEF q
    <3> QED  BY <1>1, <1>3, <1>4, <3>1
  <2> QED  BY <2>1, <2>2
<1> QED  BY <1>1, <1>4 DEF Carries, z

(* The pool of a frame so built carries the run's samples.                 *)
LEMMA PoolFilled ==
  ASSUME NEW f, NEW edit, NEW i, NEW b, Replaceable(f, edit, i, b), NEW run,
         NEW new, Fills(f, edit, run, i, b, Len(f), new), NEW again, NEW j, NEW c,
         TargetAt(new, again, j, c), again.data.offset = edit.data.offset
  PROVE  LET h == DataRunOf(new, j)[Len(new)]
         IN  /\ h \in Payload /\ Len(h) = HeaderBytes + again.replacement.existing
             /\ Carries(run, 0, h)
<1> DEFINE n == Len(f)
           l == Len(new)
           e == edit.replacement.existing
           X(k) == Logical(f, i, k)
<1>1. /\ f \in Seq(Packet) /\ TargetAt(f, edit, i, b)
      /\ i \in Nat /\ b \in Nat /\ i >= 1 /\ i < b /\ b < n /\ n \in Nat
  BY ReplaceableIs
<1>2. /\ new \in Seq(Packet) /\ l >= n /\ l \in Nat
      /\ \A k \in 1..i : new[k] = f[k]
      /\ \A k \in (i + 1)..b : /\ Len(new[k].payload) = Len(f[k].payload)
                               /\ Carries(run, X(k - 1), new[k].payload)
      /\ \E g : Behind(f, edit, run, b, n, new, g)
  BY <1>1 DEF Fills
<1>3. PICK g : Behind(f, edit, run, b, n, new, g)
  BY <1>2
<1>4. /\ g \in Seq(Packet) /\ GrowthCarries(edit, run, g) /\ l = n + Len(g) /\ Len(g) \in Nat
      /\ \A k \in 1..Len(g) : new[b + k] = g[k]
      /\ new[b + Len(g) + 1] = f[b + 1]
  BY <1>1, <1>3 DEF Behind
<1>5. /\ j \in 1..l /\ c \in (j + 1)..(l - 1) /\ GroupData(new, j) = (j + 1)..c
      /\ again.data.offset = OffsetOf(new, j + 1)
      /\ HeaderBytes + again.replacement.existing = Len(DataRunOf(new, j)[l])
  BY DEF TargetAt
<1>6. edit.data.offset = OffsetOf(f, i + 1) /\ f[b + 1].tag \in Closing
  BY <1>1 DEF TargetAt
<1> HIDE DEF n, l, X
<1>7. OffsetOf(new, i + 1) = OffsetOf(f, i + 1)
  <2>1. SubSeq(new, 1, i) = SubSeq(f, 1, i)
    <3>1. i \in 0..Len(new) /\ i \in 0..Len(f)
      BY <1>1, <1>2 DEF n, l
    <3> QED  BY <1>1, <1>2, <3>1
  <2>2. (i + 1) - 1 = i
    BY <1>1
  <2> QED  BY <2>1, <2>2 DEF OffsetOf
<1>8. j = i
  <2>1. j + 1 \in 1..(Len(new) + 1) /\ i + 1 \in 1..(Len(new) + 1) /\ j \in Nat
    BY <1>1, <1>2, <1>5 DEF l
  <2> DEFINE O(k) == OffsetOf(new, k)
  <2>2. /\ O(i + 1) \in Nat
        /\ i + 1 < j + 1 => O(i + 1) < O(j + 1)
        /\ j + 1 < i + 1 => O(j + 1) < O(i + 1)
    BY <1>2, <2>1, OffsetsGrow
  <2>3. O(i + 1) = O(j + 1)
    BY <1>5, <1>6, <1>7
  <2> HIDE DEF O
  <2> QED  BY <1>1, <2>1, <2>2, <2>3
<1> DEFINE js == GroupData(new, i)
           h == DataRunOf(new, i)
<1>9. js = (i + 1)..c /\ c \in Nat /\ i < c /\ c < l
  BY <1>1, <1>2, <1>5, <1>8
<1>10. IsDataRun(new, js, h) /\ \A k \in 0..l : h[k] \in Payload
  BY <1>2, DataRunOfIs DEF l
<1>11. /\ h[0] = <<>>
       /\ \A k \in 1..l : k \in js => h[k] = h[k-1] \o new[k].payload
  BY <1>10 DEF IsDataRun, l
<1>12. \A k \in js : new[k].tag = "data"
  BY DEF GroupData
<1>13. c <= b + Len(g)
  <2>1. SUFFICES ASSUME c > b + Len(g) PROVE FALSE
    BY <1>1, <1>4, <1>9
  <2>2. b + Len(g) + 1 \in js
    BY <1>1, <1>4, <1>9, <2>1
  <2>3. f[b + 1].tag = "data"
    BY <1>4, <1>12, <2>2
  <2> QED  BY <1>6, <2>3 DEF Closing
<1> HIDE DEF js, h
<1>14. h[i] = h[0] /\ h[l] = h[c]
  <2>1. /\ 0 \in 0..Len(new) /\ i \in 0..Len(new) /\ c \in 0..Len(new) /\ Len(new) \in 0..Len(new)
        /\ 0 <= i /\ c <= Len(new)
    BY <1>1, <1>2, <1>9 DEF l
  <2>2. \A k \in (0 + 1)..i : k \notin js
    BY <1>1, <1>9
  <2>3. \A k \in (c + 1)..Len(new) : k \notin js
    BY <1>9
  <2>4. h[i] = h[0]
    BY <1>2, <1>10, <2>1, <2>2, DataStays
  <2>5. h[Len(new)] = h[c]
    BY <1>2, <1>10, <2>1, <2>3, DataStays
  <2> QED  BY <2>4, <2>5 DEF l
<1>15. /\ X(i) = 0 /\ X(b) = HeaderBytes + e
       /\ \A k \in (i + 1)..b : X(k) = X(k - 1) + Len(f[k].payload)
       /\ \A k \in 0..n : X(k) \in Nat
  BY LogicalIs DEF X, n
<1>16. e \in Nat /\ HeaderBytes \in Nat
  BY TopologyConstants DEF Replaceable, Placed
<1> HIDE DEF e
(* P(k): how much of the pool is behind packet k. *)
<1> DEFINE P(k) == IF k <= b THEN X(k) ELSE HeaderBytes + e + ChunkStart(k - b)
           Good(k) == Len(h[k]) = P(k) /\ Carries(run, 0, h[k])
           m == c - i
           T == { k \in 0..m : Good(i + k) }
<1>17. 0 \in T
  <2>1. Len(<<>>) = 0 /\ Carries(run, 0, <<>>)
    BY DEF Carries
  <2>2. Good(i)
    BY <1>1, <1>11, <1>14, <1>15, <2>1
  <2>3. i + 0 = i /\ 0 \in 0..m
    BY <1>1, <1>9
  <2> HIDE DEF Good
  <2> QED  BY <2>2, <2>3
<1>18. ASSUME NEW k \in js
       PROVE  /\ Carries(run, P(k - 1), new[k].payload) /\ new[k].payload \in Payload
              /\ P(k) = P(k - 1) + Len(new[k].payload)
  <2>0. k \in (i + 1)..c /\ k \in Nat /\ k - 1 \in Nat
    BY <1>1, <1>9
  <2>1. new[k].payload \in Payload
    <3>1. k \in 1..Len(new)
      BY <1>1, <1>9, <2>0 DEF l
    <3>2. new[k] \in Packet
      BY <1>2, <3>1
    <3> QED  BY <3>2, WireLenIs DEF Payload
  <2>2. CASE k <= b
    <3>1. k \in (i + 1)..b /\ k - 1 <= b
      BY <1>1, <2>0, <2>2
    <3>2. P(k) = X(k) /\ P(k - 1) = X(k - 1)
      BY <2>2, <3>1
    <3> HIDE DEF P
    <3> QED  BY <1>2, <1>15, <2>1, <3>1, <3>2
  <2>3. CASE ~(k <= b)
    <3> DEFINE q == k - b
               x == q - 1
               u == ChunkStart(x)
               v == ChunkLen(x)
    <3>1. q \in 1..Len(g) /\ b + q = k /\ x \in Nat /\ x + 1 = q /\ q - 1 = x
      <4> DEFINE y == Len(g)
      <4>1. k > b /\ k <= b + y /\ y \in Nat /\ b \in Nat /\ k \in Nat
        BY <1>1, <1>4, <1>9, <1>13, <2>0, <2>3
      <4> HIDE DEF y
      <4> QED  BY <4>1 DEF y
    <3>2. u \in Nat /\ v \in Nat /\ ChunkStart(x + 1) = u + v /\ ChunkStart(0) = 0
      BY <3>1, NextChunk
    <3>3. P(k) = HeaderBytes + e + ChunkStart(x + 1)
      BY <2>3, <3>1
    <3>4. P(k - 1) = HeaderBytes + e + u
      <4>1. CASE k - 1 <= b
        <5>1. k - 1 = b /\ x = 0
          BY <1>1, <2>0, <2>3, <4>1
        <5>2. u = 0
          BY <3>2, <5>1
        <5>3. P(k - 1) = X(b)
          BY <4>1, <5>1
        <5> HIDE DEF P, u
        <5> QED  BY <1>15, <1>16, <5>2, <5>3
      <4>2. CASE ~(k - 1 <= b)
        <5>1. (k - 1) - b = x
          BY <1>1, <2>0
        <5> QED  BY <4>2, <5>1
      <4> QED  BY <4>1, <4>2
    <3>5. new[k].payload = g[q].payload /\ Len(g[q].payload) = v
          /\ Carries(run, HeaderBytes + e + u, g[q].payload)
      <4>1. new[k] = g[q]
        BY <1>4, <3>1
      <4>2. Len(g[q].payload) = ChunkLen(q - 1)
            /\ Carries(run, HeaderBytes + e + ChunkStart(q - 1), g[q].payload)
        BY <1>4, <3>1 DEF GrowthCarries, e
      <4> QED  BY <3>1, <4>1, <4>2
    <3> HIDE DEF P, q, x, u, v
    <3>6. P(k) = P(k - 1) + Len(new[k].payload)
      BY <1>16, <3>2, <3>3, <3>4, <3>5
    <3> QED  BY <2>1, <3>4, <3>5, <3>6
  <2> QED  BY <2>2, <2>3
<1>19. ASSUME NEW k \in 1..m, k - 1 \in T PROVE k \in T
  <2> DEFINE t == i + k
  <2>1. t \in js /\ t \in 1..l /\ t - 1 \in 0..l /\ t - 1 = i + (k - 1) /\ k \in 0..m
    <3>1. k \in Nat /\ k >= 1 /\ k <= c - i /\ l \in Nat /\ i \in Nat /\ c \in Nat /\ c < l
      BY <1>1, <1>2, <1>9
    <3>2. i + k \in (i + 1)..c /\ i + k \in 1..l /\ (i + k) - 1 \in 0..l
          /\ (i + k) - 1 = i + (k - 1)
      BY <3>1
    <3> QED  BY <1>9, <3>2
  <2>2. Good(t - 1)
    BY <1>19, <2>1
  <2> HIDE DEF t
  <2>3. h[t] = h[t - 1] \o new[t].payload /\ h[t - 1] \in Payload
    BY <1>10, <1>11, <2>1
  <2>4. /\ Carries(run, P(t - 1), new[t].payload) /\ new[t].payload \in Payload
        /\ P(t) = P(t - 1) + Len(new[t].payload)
    BY <1>18, <2>1
  <2> HIDE DEF P
  <2>5. Len(h[t - 1]) = P(t - 1) /\ Carries(run, 0, h[t - 1])
    BY <2>2
  <2>6. Carries(run, 0, h[t])
    BY <2>3, <2>4, <2>5, CarriesOn
  <2>7. Len(h[t]) = P(t)
    BY <2>3, <2>4, <2>5, PayloadConcat
  <2>8. Good(t)
    BY <2>6, <2>7
  <2> HIDE DEF Good
  <2> QED  BY <2>1, <2>8 DEF t
<1>20. Carries(run, 0, h[c])
  <2>1. m \in Nat /\ m \in 0..m /\ i + m = c
    BY <1>1, <1>9
  <2>2. 0..m \subseteq T
    <3> HIDE DEF T, m
    <3> QED  BY <1>17, <1>19, <2>1, InductionUpTo
  <2>3. m \in T
    <3> HIDE DEF T
    <3> QED  BY <2>1, <2>2
  <2>4. Good(c)
    <3> HIDE DEF Good
    <3> QED  BY <2>1, <2>3
  <2> QED  BY <2>4
<1>21. h[l] \in Payload /\ Len(h[l]) = HeaderBytes + again.replacement.existing
  BY <1>2, <1>5, <1>8, <1>10 DEF h
<1>22. /\ h[l] \in Payload /\ Len(h[l]) = HeaderBytes + again.replacement.existing
       /\ Carries(run, 0, h[l])
  BY <1>14, <1>20, <1>21
<1> QED  BY <1>8, <1>22 DEF h, l

(* The pool read back by place is the pool the parser found.               *)
LEMMA PoolIsRun ==
  ASSUME NEW f \in Seq(Packet), f # <<>>, f[Len(f)].tag = "end", WellFormed(f, Len(f)),
         NEW edit, NEW i, NEW b, TargetAt(f, edit, i, b)
  PROVE  PoolData(f, edit.data) = DataRunOf(f, i)[Len(f)]
<1> DEFINE js == GroupData(f, i)
           In(k) == f[k].tag = "data" /\ edit.data.offset <= OffsetOf(f, k)
                    /\ OffsetOf(f, k) < SpanEnd(edit.data)
<1>1. js = (i + 1)..b /\ DOMAIN f = 1..Len(f)
  BY DEF TargetAt
<1>2. ASSUME NEW k \in DOMAIN f PROVE In(k) <=> k \in js
  <2>1. k \in 1..Len(f)
    BY <1>1
  <2>2. /\ (edit.data.offset <= OffsetOf(f, k) /\ OffsetOf(f, k) < SpanEnd(edit.data))
             <=> k \in (i + 1)..b
        /\ k \in (i + 1)..b => f[k].tag = "data"
    BY <2>1, WhereItIs
  <2> QED  BY <1>1, <2>2
<1>3. PoolData(f, edit.data)
        = FlattenSeq([k \in DOMAIN f |-> IF In(k) THEN f[k].payload ELSE <<>>])
  BY Zenon DEF PoolData
<1>4. DataOf(f, js) = FlattenSeq([k \in DOMAIN f |-> IF k \in js THEN f[k].payload ELSE <<>>])
  BY DEF DataOf
<1> HIDE DEF In, js
<1>5. [k \in DOMAIN f |-> IF In(k) THEN f[k].payload ELSE <<>>]
        = [k \in DOMAIN f |-> IF k \in js THEN f[k].payload ELSE <<>>]
  BY <1>2
<1>6. DataOf(f, js) = DataRunOf(f, i)[Len(f)]
  BY DataRunOfIs DEF js
<1> QED  BY <1>3, <1>4, <1>5, <1>6

(* A pool that carries a run holds all of it, then silence.                *)
LEMMA BodyIs ==
  ASSUME NEW run \in Seq(0..255), NEW d \in Payload, NEW x \in Nat, Len(d) = HeaderBytes + x,
         Carries(run, 0, d), x >= Len(run)
  PROVE  LET body == SubSeq(d, HeaderBytes + 1, Len(d))
         IN  /\ Len(body) = x /\ SubSeq(body, 1, Len(run)) = run
             /\ \A k \in (Len(run) + 1)..Len(body) : body[k] = 0
<1> DEFINE h == HeaderBytes
           n == Len(run)
           l == Len(d)
           body == SubSeq(d, h + 1, l)
<1>1. h \in Nat /\ n \in Nat /\ l \in Nat /\ l = h + x /\ x \in Nat /\ x >= n
      /\ run \in Seq(0..255) /\ d \in Payload
  BY TopologyConstants
<1>2. \A p \in 1..l : 0 + p > h => d[p] = SampleIn(run, (0 + p) - h)
  BY DEF Carries
<1>3. Len(body) = x /\ body \in Seq(0..255) /\ \A k \in 1..x : body[k] = d[h + k]
  <2>1. \A k \in (h + 1)..l : d[k] \in 0..255
    <3> TAKE k \in (h + 1)..l
    <3>1. d \in Seq(0..255) /\ k \in 1..Len(d)
      BY <1>1 DEF Payload
    <3> QED  BY <3>1, SampleRange
  <2> HIDE DEF h, l
  <2>2. h + 1 \in Int /\ l \in Int
    BY <1>1
  <2>3. /\ body \in Seq(0..255)
        /\ Len(body) = IF h + 1 <= l THEN l - (h + 1) + 1 ELSE 0
        /\ \A k \in 1..(l - (h + 1) + 1) : body[k] = d[(h + 1) + k - 1]
    BY <2>1, <2>2, SubSeqProperties
  <2> HIDE DEF body
  <2>4. l - (h + 1) + 1 = x /\ Len(body) = x
    BY <1>1, <2>3
  <2>5. \A k \in 1..x : (h + 1) + k - 1 = h + k
    BY <1>1
  <2> QED  BY <2>3, <2>4, <2>5
<1> HIDE DEF body, h, n, l
<1>4. ASSUME NEW k \in 1..x PROVE body[k] = SampleIn(run, k)
  <2> DEFINE p == h + k
  <2>1. p \in 1..l /\ 0 + p > h /\ (0 + p) - h = k
    BY <1>1
  <2>2. body[k] = d[p]
    BY <1>3
  <2> HIDE DEF p
  <2> QED  BY <1>2, <2>1, <2>2
<1>5. SubSeq(body, 1, n) = run
  <2> DEFINE s == SubSeq(body, 1, n)
  <2>1. s \in Seq(0..255) /\ Len(s) = n /\ \A k \in 1..n : s[k] = body[k]
    <3>1. \A k \in 1..n : body[k] \in 0..255
      <4> TAKE k \in 1..n
      <4>1. k \in 1..Len(body)
        BY <1>1, <1>3
      <4> QED  BY <1>3, <4>1, SampleRange
    <3>2. /\ s \in Seq(0..255) /\ Len(s) = IF 1 <= n THEN n - 1 + 1 ELSE 0
          /\ \A k \in 1..(n - 1 + 1) : s[k] = body[1 + k - 1]
      <4>1. 1 \in Int /\ n \in Int
        BY <1>1
      <4> QED  BY <3>1, <4>1, SubSeqProperties
    <3> HIDE DEF s
    <3>3. n - 1 + 1 = n /\ Len(s) = n /\ \A k \in 1..n : 1 + k - 1 = k
      BY <1>1, <3>2
    <3> QED  BY <3>2, <3>3
  <2>2. \A k \in 1..n : body[k] = run[k]
    BY <1>1, <1>4 DEF SampleIn, n
  <2> HIDE DEF s
  <2>3. Len(s) = Len(run) /\ \A k \in 1..Len(s) : s[k] = run[k]
    BY <2>1, <2>2 DEF n
  <2>4. s = run
    BY <1>1, <2>1, <2>3
  <2> QED  BY <2>4 DEF s
<1>6. ASSUME NEW k \in (n + 1)..Len(body) PROVE body[k] = 0
  <2>1. k \in 1..x /\ ~(k <= n)
    BY <1>1, <1>3
  <2> QED  BY <1>4, <2>1 DEF SampleIn, n
<1> QED  BY <1>3, <1>5, <1>6 DEF body, n, h, l

(* The samples are in the frame that comes out.                            *)
LEMMA FilledArrives ==
  ASSUME RetellInv, stage = "rebuilt", NEW i, NEW b, Replaceable(frame, plan, i, b),
         Fills(frame, plan, samples, i, b, Len(frame), out)
  PROVE  SamplesArrive
<1> DEFINE n == Len(samples)
           old == Parsed(frame).stream.seen
           new == Parsed(out).stream.seen
           w == StorageBytes(n, full)
           again == EditPlan(out, target, n, full).edit
           q == plan.replacement.required
<1>1. /\ frame \in Seq(Packet) /\ n \in Nat /\ full \in BOOLEAN /\ samples \in Seq(0..255)
      /\ PlanOf(frame, target, n, full, plan) /\ Outcome(frame, plan, n, full, out)
  BY DEF RetellInv, EditInv, Arguments
<1>2. old \in Seq(Observation) /\ plan.data = old[target].data /\ target \in DOMAIN old
  <2>1. RecordPlanned(frame, target, plan, old)
    <3> HIDE DEF n
    <3> QED  BY <1>1, PlannedRecord
  <2> HIDE DEF old
  <2> QED  BY <2>1 DEF RecordPlanned
<1>3. Placed(plan)
  BY DEF Replaceable
<1>4. /\ out \in Seq(Packet) /\ ExactStatus(out, Parsed(out)) = "ok"
      /\ SeenMoves(plan, n, full, old, new) /\ new \in Seq(Observation)
  <2>1. /\ out \in Seq(Packet) /\ ExactStatus(out, Parsed(out)) = "ok"
        /\ SeenMoves(plan, n, full, old, new)
    BY <1>1 DEF Outcome
  <2> QED  BY <2>1, ParsedSeen
<1>5. /\ Grantable(old, target, n, full) /\ Existing(old, target) \in Nat
      /\ Sizing(plan.replacement, Existing(old, target), w)
  <2>1. old = Parsed(frame).stream.seen
    OBVIOUS
  <2> HIDE DEF n, old
  <2> QED  BY <1>1, <2>1, PlannedGrant DEF w
<1>6. w <= Existing(new, target) /\ Existing(new, target) = q
  <2> HIDE DEF n, old, new
  <2> QED  BY <1>1, <1>2, <1>3, <1>4, <1>5, GrantSettles DEF w
<1>7. PlanOf(out, target, n, full, again)
  <2>1. EditPlan(out, target, n, full).status = "ok"
    BY OutcomeSettles DEF EditSettles
  <2> QED  BY <2>1 DEF PlanOf
<1>8. again.data = new[target].data /\ again.replacement.existing = q /\ q \in Nat
  <2>1. RecordPlanned(out, target, again, new)
    <3> HIDE DEF n, again
    <3> QED  BY <1>1, <1>4, <1>7, PlannedRecord
  <2>2. Existing(new, target) \in Nat
        /\ Sizing(again.replacement, Existing(new, target), w)
    <3>1. new = Parsed(out).stream.seen
      OBVIOUS
    <3> HIDE DEF n, new, again
    <3> QED  BY <1>1, <1>4, <1>7, <3>1, PlannedGrant DEF w
  <2> HIDE DEF new, again, q, w
  <2> QED  BY <1>6, <2>1, <2>2 DEF RecordPlanned, Sizing
<1>9. again.data.offset = plan.data.offset /\ target \in DOMAIN new
  <2>1. target \in 1..Len(old) /\ target \in DOMAIN new
        /\ ObsMoves(plan, n, full, old[target], new[target])
    <3> HIDE DEF old, new, n
    <3> QED  BY <1>2, <1>4 DEF SeenMoves
  <2>2. new[target].data.offset = old[target].data.offset
    <3> DEFINE o == old[target]
               u == new[target]
    <3>1. u.data = [offset |-> o.data.offset, length |-> o.data.length + GrowthBytes(plan)]
      <4> HIDE DEF old, new, n
      <4> QED  BY <1>2, <2>1, Zenon DEF ObsMoves
    <3> HIDE DEF o, u
    <3>2. u.data.offset = o.data.offset
      BY <3>1
    <3> QED  BY <3>2 DEF o, u
  <2> HIDE DEF old, new, again
  <2> QED  BY <1>2, <1>8, <2>1, <2>2
<1>10. /\ out # <<>> /\ out[Len(out)].tag = "end" /\ WellFormed(out, Len(out))
       /\ \E j : \E c : TargetAt(out, again, j, c)
  <2> HIDE DEF n, again
  <2> QED  BY <1>1, <1>4, <1>7, PlannedTarget DEF PlanOf
<1>11. PICK j : \E c : TargetAt(out, again, j, c)
  BY <1>10
<1>12. PICK c : TargetAt(out, again, j, c)
  BY <1>11
<1> DEFINE h == DataRunOf(out, j)[Len(out)]
<1>13. h \in Payload /\ Len(h) = HeaderBytes + q /\ Carries(samples, 0, h)
  <2> HIDE DEF again, q
  <2> QED  BY <1>8, <1>9, <1>12, PoolFilled
<1>14. PoolData(out, RecordsIn(out)[target].data) = h
  <2>1. RecordsIn(out)[target].data = new[target].data
    <3>1. RecordsIn(out) = Topology(new).records
      BY DEF RecordsIn
    <3> HIDE DEF new
    <3>2. Topology(new).records[target].data = new[target].data
      <4> DEFINE u == new[target]
                 flags == FlagsOf(new, target)
                 own == PoolOf(new, target)
                 named == PoolNamed(new, u.source)
      <4>1. Topology(new).records[target] =
              [selector |-> u.selector, range |-> u.range, source |-> u.source,
               flags |-> flags, selection |-> u.selection, data |-> u.data,
               owned |-> own, referenced |-> named]
        BY <1>4, <1>9, EntryIs
      <4> HIDE DEF u, flags, own, named
      <4> QED  BY <4>1 DEF u
    <3> QED  BY <3>1, <3>2
  <2> HIDE DEF again, new
  <2>2. PoolData(out, again.data) = h
    BY <1>4, <1>10, <1>12, PoolIsRun
  <2> QED  BY <1>8, <2>1, <2>2
<1>15. q >= n /\ (full => q > n)
  <2>1. w = IF full THEN n + 1 ELSE n
    BY DEF StorageBytes
  <2> HIDE DEF w, q, n, new
  <2> QED  BY <1>1, <1>6, <1>8, <2>1
<1> DEFINE body == SubSeq(h, HeaderBytes + 1, Len(h))
<1>16. /\ Len(body) = q /\ SubSeq(body, 1, Len(samples)) = samples
       /\ \A k \in (Len(samples) + 1)..Len(body) : body[k] = 0
  <2> HIDE DEF h, q
  <2> QED  BY <1>1, <1>8, <1>13, <1>15, BodyIs
<1>17. full => Len(body) > Len(samples)
  <2> HIDE DEF body, q
  <2> QED  BY <1>15, <1>16
<1> DEFINE data == PoolData(out, RecordsIn(out)[target].data)
<1>18. data = h
  BY <1>14
<1> HIDE DEF h, q, data
<1>19. LET rest == SubSeq(data, HeaderBytes + 1, Len(data))
       IN  /\ Len(rest) = q /\ SubSeq(rest, 1, Len(samples)) = samples
           /\ \A k \in (Len(samples) + 1)..Len(rest) : rest[k] = 0
           /\ full => Len(rest) > Len(samples)
  <2> HIDE DEF n
  <2> QED  BY <1>16, <1>17, <1>18
<1> QED  BY <1>19 DEF SamplesArrive, data, q

(* After a rebuild the target's pool holds every sample in order, silence  *)
(* behind them to the end of its allocation and, after a full edit, at     *)
(* least the guard byte; and the same edit, planned for the new frame,     *)
(* fits without growth (pool_edit_rebuild_packet,                          *)
(* pool_edit_rebuild_append_growth and pool_edit_plan_internal of          *)
(* src/core/src/po33.c, for every frame, record, run of samples and room). *)
THEOREM SamplesHold == EditSpec => []SamplesStay
<1>1. RetellInv => SamplesArrive
  <2> SUFFICES ASSUME RetellInv, stage = "rebuilt" PROVE SamplesArrive
    BY DEF SamplesArrive
  <2>1. PICK i : \E b : Replaceable(frame, plan, i, b)
                        /\ Fills(frame, plan, samples, i, b, Len(frame), out)
    BY DEF RetellInv, Refilled
  <2>2. PICK b : Replaceable(frame, plan, i, b)
                 /\ Fills(frame, plan, samples, i, b, Len(frame), out)
    BY <2>1
  <2> QED  BY <2>2, FilledArrives
<1>2. RetellInv => EditSettles
  BY OutcomeSettles
<1>3. EditTypeOK /\ SamplesArrive /\ EditSettles => SamplesStay
  BY DEF SamplesStay
<1> QED  BY <1>1, <1>2, <1>3, EditTypeCorrect, RetellSound, PTL

-----------------------------------------------------------------------------
(***************************************************************************)
(* The account of sample storage, before and after.                        *)
(***************************************************************************)
SumNumbers == Int

LEMMA FigureRunExists ==
  ASSUME NEW s \in SumNumbers, NEW n \in Nat, NEW G \in [1..n -> [SumNumbers -> SumNumbers]]
  PROVE  \E f \in [0..n -> SumNumbers] : f[0] = s /\ \A i \in 1..n : f[i] = G[i][f[i-1]]
  BY RunExists, SMT

(* The sums of a run of numbers.                                           *)
LEMMA TotalRun ==
  ASSUME NEW run \in Seq(Int)
  PROVE  LET sum == TotalUpTo(run)
         IN  /\ sum \in [0..Len(run) -> Int] /\ sum[0] = 0
             /\ \A k \in 1..Len(run) : sum[k] = sum[k-1] + run[k]
<1> DEFINE n == Len(run)
           Def(g) == g = [k \in 0..n |-> IF k = 0 THEN 0 ELSE g[k-1] + run[k]]
           F == TotalUpTo(run)
           G == [k \in 1..n |-> [q \in Int |-> q + run[k]]]
<1>1. F = CHOOSE g : Def(g)
  BY DEF TotalUpTo
<1>2. n \in Nat /\ \A k \in 1..n : run[k] \in Int
  OBVIOUS
<1>3. G \in [1..n -> [Int -> Int]]
  BY <1>2
<1>4. PICK g \in [0..n -> Int] : g[0] = 0 /\ \A k \in 1..n : g[k] = G[k][g[k-1]]
  <2> DEFINE s == 0
  <2>1. s \in SumNumbers /\ G \in [1..n -> [SumNumbers -> SumNumbers]]
    BY <1>3 DEF SumNumbers
  <2> HIDE DEF G, n, s
  <2>2. \E f \in [0..n -> SumNumbers] : f[0] = s /\ \A i \in 1..n : f[i] = G[i][f[i-1]]
    BY <1>2, <2>1, FigureRunExists
  <2> QED  BY <2>2 DEF SumNumbers, s
<1>5. ASSUME NEW k \in 0..n
      PROVE  g[k] = IF k = 0 THEN 0 ELSE g[k-1] + run[k]
  <2>1. CASE k = 0
    BY <1>4, <2>1
  <2>2. CASE k \in 1..n
    <3>1. k - 1 \in 0..n
      BY <1>2, <2>2
    <3>2. g[k-1] \in Int
      BY <3>1
    <3>3. G[k][g[k-1]] = g[k-1] + run[k]
      BY <2>2, <3>2
    <3> QED  BY <1>4, <2>2, <3>3
  <2> QED  BY <1>2, <2>1, <2>2
<1>6. Def(g)
  BY <1>4, <1>5
<1>7. Def(F)
  <2> HIDE DEF Def, F
  <2> QED  BY <1>1, <1>6
<1>8. F[0] = 0 /\ \A k \in 1..n : F[k] = F[k-1] + run[k]
  <2>1. 0 \in 0..n /\ \A k \in 1..n : k \in 0..n /\ k # 0
    BY <1>2
  <2> HIDE DEF F, n
  <2>2. \A k \in 0..n : F[k] = IF k = 0 THEN 0 ELSE F[k-1] + run[k]
    BY <1>7, Zenon
  <2> QED  BY <2>1, <2>2
<1>9. \A k \in 0..n : F[k] \in Int
  <2>1. \A k \in 1..n : F[k-1] \in Int => F[k] \in Int
    BY <1>2, <1>8
  <2> DEFINE S == Int
  <2>2. F[0] \in S /\ \A k \in 1..n : F[k-1] \in S => F[k] \in S
    BY <1>8, <2>1
  <2> HIDE DEF F, n, S
  <2>3. \A k \in 0..n : F[k] \in S
    BY <1>2, <2>2, RunStaysIn
  <2> QED  BY <2>3 DEF S
<1>10. F \in [0..n -> Int]
  BY <1>7, <1>9
<1> QED  BY <1>8, <1>10

(* Runs that differ at one place differ in total by what they differ there. *)
LEMMA TotalsDiffer ==
  ASSUME NEW a \in Seq(Int), NEW b \in Seq(Int), Len(b) = Len(a),
         NEW t \in 1..Len(a), \A k \in 1..Len(a) : k # t => b[k] = a[k]
  PROVE  Total(b) = Total(a) - a[t] + b[t]
<1> DEFINE n == Len(a)
           A == TotalUpTo(a)
           B == TotalUpTo(b)
           d == b[t] - a[t]
           T == { k \in 0..n : B[k] = IF k < t THEN A[k] ELSE A[k] + d }
<1>1. n \in Nat /\ t \in 1..n /\ \A k \in 1..n : a[k] \in Int /\ b[k] \in Int
  OBVIOUS
<1>2. /\ A \in [0..n -> Int] /\ A[0] = 0
      /\ \A k \in 1..n : A[k] = A[k-1] + a[k]
  BY TotalRun
<1>3. /\ B \in [0..n -> Int] /\ B[0] = 0
      /\ \A k \in 1..n : B[k] = B[k-1] + b[k]
  <2> HIDE DEF n, B
  <2>1. /\ B \in [0..Len(b) -> Int] /\ B[0] = 0
        /\ \A k \in 1..Len(b) : B[k] = B[k-1] + b[k]
    BY TotalRun DEF B
  <2> QED  BY <2>1 DEF n
<1>4. Total(a) = A[n] /\ Total(b) = B[n]
  BY DEF Total
<1>5. \A k \in 1..n : k # t => b[k] = a[k]
  OBVIOUS
<1> HIDE DEF A, B, n
<1>6. 0 \in T
  BY <1>1, <1>2, <1>3
<1>7. ASSUME NEW k \in 1..n, k - 1 \in T PROVE k \in T
  <2>1. /\ k - 1 \in 0..n /\ k \in 0..n /\ A[k-1] \in Int /\ a[k] \in Int /\ b[k] \in Int
        /\ d \in Int
    <3>1. k - 1 \in 0..n /\ k \in 0..n
      BY <1>1
    <3>2. A[k-1] \in Int
      BY <1>2, <3>1
    <3>3. a[k] \in Int /\ b[k] \in Int /\ a[t] \in Int /\ b[t] \in Int
      BY <1>1
    <3> QED  BY <3>1, <3>2, <3>3
  <2>2. A[k] = A[k-1] + a[k] /\ B[k] = B[k-1] + b[k]
    BY <1>2, <1>3
  <2>3. B[k-1] = IF k - 1 < t THEN A[k-1] ELSE A[k-1] + d
    BY <1>7
  <2>4. CASE k < t
    BY <1>1, <1>5, <2>1, <2>2, <2>3, <2>4
  <2>5. CASE k = t
    BY <1>1, <2>1, <2>2, <2>3, <2>5
  <2>6. CASE k > t
    <3>1. b[k] = a[k] /\ ~(k - 1 < t) /\ ~(k < t)
      BY <1>1, <1>5, <2>6
    <3> HIDE DEF d, T
    <3>2. B[k] = A[k] + d
      BY <2>1, <2>2, <2>3, <3>1
    <3> QED  BY <2>1, <3>1, <3>2 DEF T
  <2> QED  BY <1>1, <2>4, <2>5, <2>6
<1>8. 0..n \subseteq T
  <2> HIDE DEF T
  <2> QED  BY <1>1, <1>6, <1>7, InductionUpTo
<1>9. B[n] = A[n] + d /\ A[n] \in Int
  <2>1. n \in T /\ n \in 0..n
    BY <1>1, <1>8
  <2> QED  BY <1>1, <1>2, <2>1
<1>10. a[t] \in Int /\ b[t] \in Int
  BY <1>1
<1> QED  BY <1>4, <1>9, <1>10

(* An allocation rounded up is a number.                                   *)
LEMMA RoundedIsNumber ==
  ASSUME NEW x \in Int
  PROVE  Rounded(x) \in Int
<1> DEFINE B == BlockBytes
           y == x + B - 1
<1>1. B \in Nat \ {0} /\ y \in Int
  BY SizesAssumption
<1> HIDE DEF y
<1>2. y \div B \in Int
  BY <1>1
<1> DEFINE q == y \div B
<1> HIDE DEF B
<1>3. q * B \in Int
  <2> HIDE DEF q
  <2> QED  BY <1>1, <1>2 DEF q
<1> QED  BY <1>3 DEF Rounded, q, y, B

(* All records but the t-th have the size they had. *)
OthersKeepSize(old, new, t) ==
  \A j \in DOMAIN old : j # t => new[j].data_bytes = old[j].data_bytes

(* Accounts of records of one shape, only one of which changed its size.   *)
LEMMA ReportMoves ==
  ASSUME NEW old \in Seq(Observation), NEW new \in Seq(Observation), SameShape(old, new),
         NEW t \in DOMAIN old, OthersKeepSize(old, new, t), NEW f, NEW g
  PROVE  /\ CapacityReport(g, new).rounded =
              CapacityReport(f, old).rounded - Rounded(SampleBytes(old[t]))
                + Rounded(SampleBytes(new[t]))
         /\ CapacityReport(g, new).pools = CapacityReport(f, old).pools
         /\ CapacityReport(g, new).shared = CapacityReport(f, old).shared
<1> DEFINE n == Len(old)
           R(r) == Rounded(SampleBytes(r))
           a == [j \in 1..n |-> R(old[j])]
           b == [j \in 1..n |-> R(new[j])]
           Shared(seen) == { seen[i].source : i \in
                             { j \in DOMAIN seen : \E k \in DOMAIN seen \ {j} :
                                 seen[j].source = seen[k].source } }
<1>1. /\ n \in Nat /\ DOMAIN old = 1..n /\ DOMAIN new = 1..n
      /\ \A j \in 1..n : old[j] \in Observation /\ new[j] \in Observation
      /\ \A j \in 1..n : new[j].source = old[j].source /\ (OwnsPool(new[j]) <=> OwnsPool(old[j]))
  <2>1. n \in Nat /\ DOMAIN old = 1..n
    OBVIOUS
  <2>2. Len(new) = n /\ DOMAIN new = 1..Len(new)
    BY DEF SameShape
  <2>3. \A j \in 1..n : old[j] \in Observation /\ new[j] \in Observation
    BY <2>1, <2>2
  <2>4. \A j \in 1..n : new[j].source = old[j].source /\ (OwnsPool(new[j]) <=> OwnsPool(old[j]))
    BY DEF SameShape
  <2> HIDE DEF n
  <2> QED  BY <2>1, <2>2, <2>3, <2>4
<1>2. /\ CapacityReport(f, old).rounded = Total([j \in DOMAIN old |-> R(old[j])])
      /\ CapacityReport(f, old).pools = Cardinality({ j \in DOMAIN old : OwnsPool(old[j]) })
      /\ CapacityReport(f, old).shared = Cardinality(Shared(old))
  BY DEF CapacityReport
<1>3. /\ CapacityReport(g, new).rounded = Total([j \in DOMAIN new |-> R(new[j])])
      /\ CapacityReport(g, new).pools = Cardinality({ j \in DOMAIN new : OwnsPool(new[j]) })
      /\ CapacityReport(g, new).shared = Cardinality(Shared(new))
  BY DEF CapacityReport
<1> HIDE DEF n
<1>4. ASSUME NEW r \in Observation PROVE R(r) \in Int
  <2>1. SampleBytes(r) \in Int
    BY TopologyConstants DEF SampleBytes, Observation
  <2> QED  BY <2>1, RoundedIsNumber
<1>5. Shared(new) = Shared(old)
  <2>1. { j \in DOMAIN new : \E k \in DOMAIN new \ {j} : new[j].source = new[k].source }
          = { j \in DOMAIN old : \E k \in DOMAIN old \ {j} : old[j].source = old[k].source }
    BY <1>1
  <2> DEFINE S == { j \in DOMAIN old : \E k \in DOMAIN old \ {j} : old[j].source = old[k].source }
  <2>2. \A j \in S : new[j].source = old[j].source
    BY <1>1
  <2> HIDE DEF S
  <2>3. { new[j].source : j \in S } = { old[j].source : j \in S }
    BY <2>2
  <2> QED  BY <2>1, <2>3 DEF S
<1>6. { j \in DOMAIN new : OwnsPool(new[j]) } = { j \in DOMAIN old : OwnsPool(old[j]) }
  BY <1>1
<1>7. Total(b) = Total(a) - R(old[t]) + R(new[t])
  <2> HIDE DEF R
  <2>1. a \in Seq(Int) /\ b \in Seq(Int) /\ Len(a) = n /\ Len(b) = n
    BY <1>1, <1>4
  <2>2. a[t] = R(old[t]) /\ b[t] = R(new[t]) /\ t \in 1..n
    BY <1>1
  <2>3. ASSUME NEW k \in 1..n, k # t PROVE b[k] = a[k]
    <3>1. SampleBytes(new[k]) = SampleBytes(old[k])
      BY <1>1, <2>3 DEF SampleBytes, OthersKeepSize
    <3> QED  BY <3>1 DEF R
  <2> HIDE DEF a, b
  <2>4. Total(b) = Total(a) - a[t] + b[t]
    BY <2>1, <2>2, <2>3, TotalsDiffer
  <2> QED  BY <2>2, <2>4
<1>8. a = [j \in DOMAIN old |-> R(old[j])] /\ b = [j \in DOMAIN new |-> R(new[j])]
  BY <1>1
<1> HIDE DEF a, b, Shared
<1>9. /\ CapacityReport(g, new).rounded = CapacityReport(f, old).rounded - R(old[t]) + R(new[t])
      /\ CapacityReport(g, new).pools = CapacityReport(f, old).pools
      /\ CapacityReport(g, new).shared = CapacityReport(f, old).shared
  <2> HIDE DEF R
  <2> QED  BY <1>2, <1>3, <1>5, <1>6, <1>7, <1>8
<1> QED  BY <1>9

(* A record other than the target keeps its size.                          *)
LEMMA SizesStay ==
  ASSUME NEW edit, Placed(edit), NEW n, NEW whole, NEW old \in Seq(Observation), InOrder(old),
         NEW new, SeenMoves(edit, n, whole, old, new), NEW t \in DOMAIN old,
         edit.data = old[t].data
  PROVE  OthersKeepSize(old, new, t)
<1> SUFFICES ASSUME NEW j \in DOMAIN old, j # t PROVE new[j].data_bytes = old[j].data_bytes
  BY DEF OthersKeepSize
<1> DEFINE x == old[j].data.offset
           y == old[t].data.offset
<1>1. j \in 1..Len(old) /\ t \in 1..Len(old) /\ Len(old) \in Nat
  OBVIOUS
<1>2. x \in Nat /\ y \in Nat
  <2>1. old[j] \in Observation /\ old[t] \in Observation
    BY <1>1
  <2> QED  BY <2>1 DEF Observation, Span
<1>3. x # y
  <2>1. CASE j < t
    BY <1>2, <2>1, DataInOrder
  <2>2. CASE t < j
    BY <1>2, <2>2, DataInOrder
  <2> QED  BY <1>1, <2>1, <2>2
<1>4. ObsMoves(edit, n, whole, old[j], new[j])
  BY <1>1 DEF SeenMoves
<1>5. edit.data.offset = y
  OBVIOUS
<1>6. /\ x < y => new[j].data_bytes = old[j].data_bytes
      /\ x > y => new[j].data_bytes = old[j].data_bytes
  <2> DEFINE o == old[j]
             u == new[j]
  <2>1. ObsMoves(edit, n, whole, o, u) /\ o.data.offset = x /\ edit.data.offset = y
    BY <1>4, <1>5
  <2> HIDE DEF o, u, x, y
  <2>2. /\ x < y => u.data_bytes = o.data_bytes
        /\ x > y => u.data_bytes = o.data_bytes
    BY <2>1, Zenon DEF ObsMoves
  <2> QED  BY <2>2 DEF o, u
<1> HIDE DEF x, y
<1> QED  BY <1>2, <1>3, <1>6

(* The account of a frame, case by case.                                   *)
Unowned(seen) == \E i \in DOMAIN seen : OwnersOf(seen, seen[i].source) = {}

LEMMA MeasureIs ==
  ASSUME NEW f
  PROVE  CapacityMeasure(f) =
           IF ExactStatus(f, Parsed(f)) # "ok" THEN [status |-> "frame"]
           ELSE IF Unsafe(f) \/ Unowned(Parsed(f).stream.seen) THEN [status |-> "parse"]
           ELSE [status |-> "ok", report |-> CapacityReport(f, Parsed(f).stream.seen)]
  BY DEF CapacityMeasure, Unowned

(* A frame is accounted for if it parses, is safe and every source is owned. *)
LEMMA MeasuredWhen ==
  ASSUME NEW f
  PROVE  /\ CapacityMeasure(f).status = "ok" =>
              /\ ~Unsafe(f) /\ ~Unowned(Parsed(f).stream.seen)
              /\ CapacityMeasure(f).report = CapacityReport(f, Parsed(f).stream.seen)
         /\ ExactStatus(f, Parsed(f)) = "ok" /\ ~Unsafe(f) /\ ~Unowned(Parsed(f).stream.seen) =>
              /\ CapacityMeasure(f).status = "ok"
              /\ CapacityMeasure(f).report = CapacityReport(f, Parsed(f).stream.seen)
<1> DEFINE m == CapacityMeasure(f)
           exact == ExactStatus(f, Parsed(f)) = "ok"
           safe == ~Unsafe(f) /\ ~Unowned(Parsed(f).stream.seen)
           report == CapacityReport(f, Parsed(f).stream.seen)
<1>1. m = IF ~exact THEN [status |-> "frame"] ELSE IF ~safe THEN [status |-> "parse"]
          ELSE [status |-> "ok", report |-> report]
  BY MeasureIs, Zenon
<1> HIDE DEF m, exact, safe, report
<1>2. CASE ~exact
  <2>1. m = [status |-> "frame"]
    BY <1>1, <1>2
  <2>2. m.status = "frame"
    BY <2>1
  <2> QED  BY <1>2, <2>2 DEF m, exact, safe, report
<1>3. CASE exact /\ ~safe
  <2>1. m = [status |-> "parse"]
    BY <1>1, <1>3
  <2>2. m.status = "parse"
    BY <2>1
  <2> QED  BY <1>3, <2>2 DEF m, exact, safe, report
<1>4. CASE exact /\ safe
  <2>1. m = [status |-> "ok", report |-> report]
    BY <1>1, <1>4
  <2>2. m.status = "ok" /\ m.report = report
    BY <2>1
  <2> QED  BY <1>4, <2>2 DEF m, exact, safe, report
<1> QED  BY <1>2, <1>3, <1>4

(* Records of one shape have owners or lack them alike.                    *)
LEMMA OwnedAlike ==
  ASSUME NEW old \in Seq(Observation), NEW new \in Seq(Observation), SameShape(old, new),
         ~Unowned(old)
  PROVE  ~Unowned(new)
<1>1. /\ DOMAIN new = DOMAIN old
      /\ \A s : OwnersOf(new, s) = OwnersOf(old, s)
  BY SameOwners
<1>2. \A j \in DOMAIN old : new[j].source = old[j].source
  BY DEF SameShape
<1> QED  BY <1>1, <1>2 DEF Unowned

(* What is safe stays safe when nothing but data is added or changed.      *)
LEMMA MarksStaySafe ==
  ASSUME NEW f \in Seq(Packet), NEW new \in Seq(Packet), MarksStay(f, Len(f), new), ~Unsafe(f)
  PROVE  ~Unsafe(new)
<1> SUFFICES ASSUME Unsafe(new) PROVE FALSE
  OBVIOUS
<1> DEFINE Clash(p, q) == /\ p.tag = "select"
                          /\ \/ q.tag = "other"
                             \/ q.tag = "select" /\ q.payload = p.payload
<1>1. DOMAIN f = 1..Len(f) /\ DOMAIN new = 1..Len(new)
  OBVIOUS
<1>2. PICK x \in 1..Len(new), y \in 1..Len(new) : x < y /\ Clash(new[x], new[y])
  BY <1>1 DEF Unsafe
<1>3. new[x].tag # "data" /\ new[y].tag # "data"
  BY <1>2
<1> HIDE DEF Clash
<1>4. PICK j \in 1..Len(f), k \in 1..Len(f) : j < k /\ f[j] = new[x] /\ f[k] = new[y]
  BY <1>2, <1>3 DEF MarksStay
<1>5. Clash(f[j], f[k])
  BY <1>2, <1>4
<1>6. Unsafe(f)
  BY <1>1, <1>4, <1>5 DEF Unsafe, Clash
<1> QED  BY <1>6

(* The account of the frame that comes out is the projected one.           *)
LEMMA RefilledProjects ==
  ASSUME RetellInv
  PROVE  ProjectionHolds
<1> SUFFICES ASSUME stage = "rebuilt" PROVE ProjectionHolds
  BY DEF ProjectionHolds
<1> DEFINE n == Len(samples)
           old == Parsed(frame).stream.seen
           new == Parsed(out).stream.seen
           w == StorageBytes(n, full)
           e == plan.replacement.existing
           q == plan.replacement.required
           before == CapacityMeasure(frame)
           after == CapacityMeasure(out)
<1> SUFFICES ASSUME before.status = "ok"
             PROVE  /\ after.status = "ok"
                    /\ after.report.rounded = Projected(before.report, e, q)
                    /\ after.report.pools = before.report.pools
                    /\ after.report.shared = before.report.shared
  BY DEF ProjectionHolds
<1>1. /\ frame \in Seq(Packet) /\ n \in Nat /\ full \in BOOLEAN
      /\ PlanOf(frame, target, n, full, plan) /\ Outcome(frame, plan, n, full, out)
      /\ Refilled(frame, plan, samples, out)
  BY DEF RetellInv, EditInv, Arguments
<1>2. /\ old \in Seq(Observation) /\ InOrder(old)
      /\ target \in DOMAIN old /\ plan.data = old[target].data
  <2>1. RecordPlanned(frame, target, plan, old)
    <3> HIDE DEF n
    <3> QED  BY <1>1, PlannedRecord
  <2> HIDE DEF old
  <2> QED  BY <2>1 DEF RecordPlanned
<1>3. Placed(plan)
  <2> HIDE DEF n
  <2> QED  BY <1>1, PlannedPlace
<1>4. /\ out \in Seq(Packet) /\ ExactStatus(out, Parsed(out)) = "ok"
      /\ SeenMoves(plan, n, full, old, new)
  BY <1>1 DEF Outcome
<1>5. new \in Seq(Observation)
  BY <1>4, ParsedSeen
<1>6. /\ Grantable(old, target, n, full) /\ Existing(old, target) \in Nat
      /\ Sizing(plan.replacement, Existing(old, target), w)
  <2>1. old = Parsed(frame).stream.seen
    OBVIOUS
  <2> HIDE DEF n, old
  <2> QED  BY <1>1, <2>1, PlannedGrant DEF w
<1>7. SampleBytes(old[target]) = e /\ SampleBytes(new[target]) = q
  <2>1. Existing(new, target) = q
    <3> HIDE DEF n, old, new
    <3> QED  BY <1>1, <1>2, <1>3, <1>4, <1>5, <1>6, GrantSettles DEF w
  <2>2. Existing(old, target) = e
    <3> HIDE DEF n, old, w
    <3> QED  BY <1>6 DEF Sizing
  <2> HIDE DEF old, new
  <2> QED  BY <2>1, <2>2 DEF Existing, SampleBytes
<1>8. MarksStay(frame, Len(frame), out)
  BY <1>1 DEF Refilled, Fills
<1>9. /\ ~Unsafe(frame) /\ ~Unowned(old)
      /\ before.report = CapacityReport(frame, old)
  <2> HIDE DEF before, old
  <2> QED  BY MeasuredWhen DEF before, old
<1>10. SameShape(old, new)
  <2> HIDE DEF n, old, new
  <2> QED  BY <1>2, <1>3, <1>4, <1>5, MovedShape
<1>11. ~Unsafe(out) /\ ~Unowned(new)
  <2> HIDE DEF old, new
  <2> QED  BY <1>1, <1>2, <1>4, <1>5, <1>8, <1>9, <1>10, MarksStaySafe, OwnedAlike
<1>12. after.status = "ok" /\ after.report = CapacityReport(out, new)
  <2> HIDE DEF after, new
  <2> QED  BY <1>4, <1>11, MeasuredWhen DEF after, new
<1>13. OthersKeepSize(old, new, target)
  <2>1. SeenMoves(plan, n, full, old, new) /\ Placed(plan)
    BY <1>3, <1>4
  <2> HIDE DEF n, old, new
  <2> QED  BY <1>2, <2>1, SizesStay
<1>14. /\ CapacityReport(out, new).rounded =
            CapacityReport(frame, old).rounded - Rounded(SampleBytes(old[target]))
              + Rounded(SampleBytes(new[target]))
       /\ CapacityReport(out, new).pools = CapacityReport(frame, old).pools
       /\ CapacityReport(out, new).shared = CapacityReport(frame, old).shared
  <2> HIDE DEF old, new
  <2> QED  BY <1>2, <1>5, <1>10, <1>13, ReportMoves
<1> HIDE DEF before, after, e, q, old, new
<1>15. after.report.rounded = before.report.rounded - Rounded(e) + Rounded(q)
  BY <1>7, <1>9, <1>12, <1>14
<1> QED  BY <1>9, <1>12, <1>14, <1>15 DEF Projected

(* When an edit has been rebuilt, the account of sample storage of the     *)
(* frame that came out is the one projected for the planned change, with   *)
(* as many pools and shared pools as before (po33_capacity_measure and     *)
(* po33_capacity_project_pool_change of src/core/src/po33.c, for every     *)
(* frame, record, run of samples and room).                                *)
THEOREM AccountHolds == EditSpec => []ProjectionHolds
  BY RefilledProjects, RetellSound, PTL

=============================================================================
