---------------------------- MODULE Po33Samples ----------------------------
(***************************************************************************)
(* The sample bytes of a PO-33 sound (src/core/src/po33.c): 127 levels on  *)
(* either side of zero, and the binary search that finds the level of a    *)
(* 16-bit sample.  Sweeps from every Stride-th sample visit them all.      *)
(***************************************************************************)
EXTENDS Integers

CONSTANTS Lowest, Highest,     \* the samples swept
          Stride               \* how far apart the sweeps begin

SamplesAssumption ==
  /\ Lowest \in -32768..32767 /\ Highest \in Lowest..32767
  /\ Stride \in Nat \ {0} /\ Lowest % Stride = 0

VARIABLE sample

(* po33_sample_decode: sixteen levels to a segment, each of twice the step. *)
Level(n) == ((n % 16) * 8 + 132) * (2 ^ (n \div 16)) - 132

SampleDecode(byte) == IF byte >= 128 THEN -Level(255 - byte) ELSE Level(byte)

(* The first of levels lo..hi that is no less than a magnitude; the last   *)
(* when there is none.                                                     *)
Search[range \in (0..127) \X (0..127), magnitude \in 0..32768] ==
  LET lo == range[1]  hi == range[2]  mid == lo + (hi - lo) \div 2
  IN  IF lo >= hi THEN lo
      ELSE Search[IF Level(mid) < magnitude THEN <<mid + 1, hi>> ELSE <<lo, mid>>, magnitude]

(* Mutant: the level below is not tried.                                   *)
NearestUpper(magnitude) == Search[<<0, 127>>, magnitude]

Nearest(magnitude) ==
  LET n == Search[<<0, 127>>, magnitude]
  IN  IF n # 0 /\ magnitude - Level(n - 1) <= Level(n) - magnitude THEN n - 1 ELSE n

SampleEncode(x) ==
  LET n == Nearest(IF x < 0 THEN -x ELSE x)
  IN  IF n = 0 THEN 0 ELSE IF x < 0 THEN 255 - n ELSE n

-----------------------------------------------------------------------------
Init == sample \in {x \in Lowest..Highest : x % Stride = 0}

Sweep ==
  /\ sample < Highest
  /\ (sample + 1) % Stride # 0
  /\ sample' = sample + 1

Next == Sweep

Spec == Init /\ [][Next]_sample

-----------------------------------------------------------------------------
Distance(x, y) == IF x < y THEN y - x ELSE x - y

(* The byte of a sample is that of a nearest level: neither level beside   *)
(* it is nearer, nor as near and quieter.                                  *)
LevelIsNearest ==
  LET x == SampleDecode(SampleEncode(sample))
      n == Nearest(Distance(sample, 0))
  IN  \A k \in {n - 1, n + 1} \cap (0..127) :
        LET y == IF sample < 0 THEN -Level(k) ELSE Level(k)
        IN  \/ Distance(sample, x) < Distance(sample, y)
            \/ Distance(sample, x) = Distance(sample, y) /\ k > n

(* Decoded and encoded again a byte stays what it is, and no sample is     *)
(* given the second byte of zero: what a device stored is kept to the bit. *)
BytesSettle ==
  LET byte == SampleEncode(sample)
  IN  byte # 255 /\ SampleEncode(SampleDecode(byte)) = byte

=============================================================================
