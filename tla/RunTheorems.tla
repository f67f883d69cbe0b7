---------------------------- MODULE RunTheorems ----------------------------
(***************************************************************************)
(* Induction, stated over sets of numbers, and what it says of runs: the   *)
(* recursive functions that go through the bytes of a packet, the packets  *)
(* of a frame or the records of a stream, one step for each.  Such a run   *)
(* exists, is unique and keeps what every step keeps.  Also the rank of a  *)
(* number in a set of numbers, and what counting up to a place means.      *)
(***************************************************************************)
EXTENDS Integers, WellFoundedInduction, FiniteSetTheorems, TLAPS

LEMMA NatSetInduction ==
  ASSUME NEW T, 0 \in T, \A n \in Nat : n \in T => n + 1 \in T
  PROVE  Nat \subseteq T
<1> DEFINE R == OpToRel(<, Nat)
           U == Nat \ T
<1>1. IsWellFoundedOn(R, Nat)
  BY NatLessThanWellFounded
<1> SUFFICES ASSUME U # {} PROVE FALSE
  OBVIOUS
<1> HIDE DEF R
<1>2. PICK x \in U : \A y \in U : ~ (<<y, x>> \in R)
  BY <1>1, WFMin
<1>3. x \in Nat /\ x # 0 /\ x - 1 \in Nat
  BY <1>2
<1>4. <<x - 1, x>> \in R
  BY <1>3 DEF R, OpToRel
<1>5. x - 1 \in T
  BY <1>2, <1>3, <1>4
<1> QED  BY <1>2, <1>3, <1>5

LEMMA InductionUpTo ==
  ASSUME NEW T, NEW n \in Nat, 0 \in T, \A k \in 1..n : k - 1 \in T => k \in T
  PROVE  0..n \subseteq T
<1> DEFINE U == { k \in Nat : k <= n => k \in T }
<1>1. 0 \in U
  OBVIOUS
<1>2. ASSUME NEW k \in Nat, k \in U PROVE k + 1 \in U
  <2> SUFFICES ASSUME k + 1 <= n PROVE k + 1 \in T
    OBVIOUS
  <2>1. k + 1 \in 1..n /\ (k + 1) - 1 = k /\ k \in T
    BY <1>2
  <2> QED  BY <2>1
<1>3. Nat \subseteq U
  <2> HIDE DEF U
  <2> QED  BY <1>1, <1>2, NatSetInduction
<1> QED  BY <1>3

(* A run over n items, from s by the i-th of the step functions G, exists. *)
LEMMA RunExists ==
  ASSUME NEW S, NEW s \in S, NEW n \in Nat, NEW G \in [1..n -> [S -> S]]
  PROVE  \E f \in [0..n -> S] : f[0] = s /\ \A i \in 1..n : f[i] = G[i][f[i-1]]
<1> DEFINE Run(f, k) == f[0] = s /\ \A i \in 1..k : f[i] = G[i][f[i-1]]
           T == { k \in Nat : k <= n => \E f \in [0..k -> S] : Run(f, k) }
<1>1. 0 \in T
  <2> DEFINE f == [i \in 0..0 |-> s]
  <2>1. f \in [0..0 -> S] /\ Run(f, 0)
    OBVIOUS
  <2> QED  BY <2>1
<1>2. ASSUME NEW k \in Nat, k \in T PROVE k + 1 \in T
  <2> SUFFICES ASSUME k + 1 <= n PROVE \E f \in [0..(k+1) -> S] : Run(f, k+1)
    OBVIOUS
  <2>1. PICK f \in [0..k -> S] : Run(f, k)
    BY <1>2
  <2> DEFINE g == [i \in 0..(k+1) |-> IF i = k + 1 THEN G[k+1][f[k]] ELSE f[i]]
  <2>2. G[k+1] \in [S -> S] /\ f[k] \in S
    OBVIOUS
  <2>3. g \in [0..(k+1) -> S]
    BY <2>2
  <2>4. ASSUME NEW i \in 1..(k+1)
        PROVE  g[i] = G[i][g[i-1]]
    <3>1. CASE i = k + 1
      BY <3>1
    <3>2. CASE i \in 1..k
      <4>1. f[i] = G[i][f[i-1]]
        BY <2>1, <3>2
      <4> QED  BY <3>2, <4>1
    <3> QED  BY <3>1, <3>2
  <2>5. Run(g, k+1)
    BY <2>1, <2>4
  <2> QED  BY <2>3, <2>5
<1>3. n \in T
  <2> HIDE DEF T
  <2> QED  BY <1>1, <1>2, NatSetInduction
<1> QED  BY <1>3

(* Every function that satisfies the equation of a run stays in S.         *)
LEMMA RunStaysIn ==
  ASSUME NEW S, NEW n \in Nat, NEW f, f[0] \in S,
         \A i \in 1..n : f[i-1] \in S => f[i] \in S
  PROVE  \A i \in 0..n : f[i] \in S
<1> DEFINE T == { k \in Nat : k <= n => f[k] \in S }
<1>1. 0 \in T
  OBVIOUS
<1>2. ASSUME NEW k \in Nat, k \in T PROVE k + 1 \in T
  <2> SUFFICES ASSUME k + 1 <= n PROVE f[k+1] \in S
    OBVIOUS
  <2>1. k + 1 \in 1..n /\ (k + 1) - 1 = k /\ f[k] \in S
    BY <1>2
  <2> QED  BY <2>1
<1>3. Nat \subseteq T
  <2> HIDE DEF T
  <2> QED  BY <1>1, <1>2, NatSetInduction
<1> QED  BY <1>3

(* A set of numbers that is not empty has a least one.                     *)
LEMMA LeastNumber ==
  ASSUME NEW S \in SUBSET Nat, S # {}
  PROVE  \E x \in S : \A y \in S : x <= y
<1> DEFINE R == OpToRel(<, Nat)
<1>1. IsWellFoundedOn(R, Nat)
  BY NatLessThanWellFounded
<1> HIDE DEF R
<1>2. PICK x \in S : \A y \in S : ~ (<<y, x>> \in R)
  BY <1>1, WFMin
<1>3. ASSUME NEW y \in S PROVE x <= y
  <2>1. <<y, x>> \notin R /\ x \in Nat /\ y \in Nat
    BY <1>2
  <2> QED  BY <2>1 DEF R, OpToRel
<1> QED  BY <1>3

-----------------------------------------------------------------------------
(* The place of i among the numbers of S, which are counted from the least.*)
Rank(S, i) == Cardinality({ j \in S : j <= i })

LEMMA RankGrows ==
  ASSUME NEW S \in SUBSET Nat, IsFiniteSet(S), NEW i \in S, NEW k \in S, i < k
  PROVE  Rank(S, i) \in Nat /\ Rank(S, k) \in Nat /\ Rank(S, i) < Rank(S, k)
<1> DEFINE L(m) == { j \in S : j <= m }
<1>1. IsFiniteSet(L(i)) /\ IsFiniteSet(L(k))
  BY FS_Subset
<1>2. Cardinality(L(i)) \in Nat /\ Cardinality(L(k)) \in Nat
  BY <1>1, FS_CardinalityType
<1>3. L(i) \in SUBSET L(k)
  <2> SUFFICES ASSUME NEW j \in S, j <= i PROVE j <= k
    OBVIOUS
  <2>1. i \in Nat /\ j \in Nat /\ k \in Nat
    OBVIOUS
  <2> QED  BY <2>1
<1>4. k \in L(k) /\ k \notin L(i)
  OBVIOUS
<1>5. Cardinality(L(i)) <= Cardinality(L(k)) /\ Cardinality(L(i)) # Cardinality(L(k))
  <2> HIDE DEF L
  <2> QED  BY <1>1, <1>3, <1>4, FS_Subset
<1>6. Cardinality(L(i)) < Cardinality(L(k))
  BY <1>2, <1>5
<1> QED  BY <1>2, <1>6 DEF Rank

LEMMA RankType ==
  ASSUME NEW S \in SUBSET Nat, IsFiniteSet(S), NEW i \in S
  PROVE  Rank(S, i) \in 1..Cardinality(S)
<1> DEFINE L == { j \in S : j <= i }
<1>1. IsFiniteSet(L) /\ Cardinality(L) <= Cardinality(S)
  BY FS_Subset
<1>2. Cardinality(L) \in Nat /\ Cardinality(S) \in Nat
  BY <1>1, FS_CardinalityType
<1>3. i \in L
  OBVIOUS
<1> HIDE DEF L
<1>4. Cardinality(L) # 0
  BY <1>1, <1>3, FS_EmptySet
<1> QED  BY <1>1, <1>2, <1>4 DEF Rank, L

LEMMA RankUnique ==
  ASSUME NEW S \in SUBSET Nat, IsFiniteSet(S), NEW i \in S, NEW k \in S,
         Rank(S, i) = Rank(S, k)
  PROVE  i = k
<1>1. CASE i < k
  <2>1. Rank(S, i) \in Nat /\ Rank(S, k) \in Nat /\ Rank(S, i) < Rank(S, k)
    BY <1>1, RankGrows
  <2> QED  BY <2>1
<1>2. CASE k < i
  <2>1. Rank(S, i) \in Nat /\ Rank(S, k) \in Nat /\ Rank(S, k) < Rank(S, i)
    BY <1>2, RankGrows
  <2> QED  BY <2>1
<1> QED  BY <1>1, <1>2

(* Counting on: the numbers up to the next one.                            *)
LEMMA RankNext ==
  ASSUME NEW S \in SUBSET Nat, NEW k \in Nat
  PROVE  /\ Rank(S, k) \in Nat
         /\ Rank(S, k + 1) = Rank(S, k) + (IF k + 1 \in S THEN 1 ELSE 0)
<1> DEFINE L(m) == { j \in S : j <= m }
<1>1. IsFiniteSet(L(k))
  <2>1. L(k) \in SUBSET (0..k)
    <3> SUFFICES ASSUME NEW j \in S, j <= k PROVE j \in 0..k
      OBVIOUS
    <3>1. j \in Nat
      OBVIOUS
    <3> QED  BY <3>1
  <2> DEFINE I == 0..k
  <2>2. IsFiniteSet(I)
    BY FS_Interval
  <2> HIDE DEF L, I
  <2> QED  BY <2>1, <2>2, FS_Subset DEF I
<1>2. L(k + 1) = IF k + 1 \in S THEN L(k) \cup {k + 1} ELSE L(k)
  <2>1. \A j \in S : j <= k + 1 <=> (j <= k \/ j = k + 1)
    <3> TAKE j \in S
    <3>1. j \in Nat
      OBVIOUS
    <3> QED  BY <3>1
  <2> QED  BY <2>1
<1>3. k + 1 \notin L(k)
  OBVIOUS
<1>4. Cardinality(L(k)) \in Nat
  BY <1>1, FS_CardinalityType
<1> HIDE DEF L
<1>5. Cardinality(L(k + 1)) = Cardinality(L(k)) + (IF k + 1 \in S THEN 1 ELSE 0)
  <2>1. CASE k + 1 \in S
    <3>1. Cardinality(L(k) \cup {k + 1}) = Cardinality(L(k)) + 1
      BY <1>1, <1>3, FS_AddElement
    <3> QED  BY <1>2, <2>1, <3>1
  <2>2. CASE k + 1 \notin S
    BY <1>2, <1>4, <2>2
  <2> QED  BY <2>1, <2>2
<1> QED  BY <1>4, <1>5 DEF Rank, L

LEMMA RankEnds ==
  ASSUME NEW n \in Nat, NEW S \in SUBSET (1..n)
  PROVE  Rank(S, 0) = 0 /\ Rank(S, n) = Cardinality(S) /\ IsFiniteSet(S)
<1>1. { j \in S : j <= 0 } = {} /\ { j \in S : j <= n } = S
  <2>1. \A j \in S : j \in 1..n
    OBVIOUS
  <2>2. \A j \in S : ~(j <= 0) /\ j <= n
    BY <2>1
  <2> QED  BY <2>2
<1>2. IsFiniteSet(S)
  <2> DEFINE I == 1..n
  <2>1. IsFiniteSet(I)
    BY FS_Interval
  <2> HIDE DEF I
  <2>2. S \in SUBSET I
    BY DEF I
  <2> QED  BY <2>1, <2>2, FS_Subset
<1> QED  BY <1>1, <1>2, FS_EmptySet DEF Rank

=============================================================================
