-------------------------- MODULE IntervalSetProofs ---------------------------
(***************************************************************************)
(* Proofs about IntervalSet: for every number of points, insert() and      *)
(* erase() keep the map in the normal form that count() counts, and the    *)
(* map implements PointSet.                                                *)
(***************************************************************************)
EXTENDS IntervalSet, FiniteSetTheorems, TLAPS

-------------------------------------------------------------------------------
(* Counting up, and the greatest of some naturals                          *)

\* A finite set of naturals that holds 0 is left somewhere on the way up: else
\* n |-> n + 1 would map it into itself without its 0.
LEMMA StepOut ==
  ASSUME NEW S \in SUBSET Nat, IsFiniteSet(S), 0 \in S
  PROVE  \E n \in S : n + 1 \notin S
<1>1. SUFFICES ASSUME \A n \in S : n + 1 \in S PROVE FALSE
  OBVIOUS
<1> DEFINE up == [n \in S |-> n + 1]
<1>2. up \in [S -> S \ {0}]
  BY <1>1
<1>3. IsFiniteSet(S \ {0}) /\ Cardinality(S \ {0}) < Cardinality(S)
  <2>1. IsFiniteSet(S \ {0}) /\ Cardinality(S \ {0}) = Cardinality(S) - 1
    BY FS_RemoveElement
  <2>2. Cardinality(S) \in Nat
    BY FS_CardinalityType
  <2>3. QED
    BY <2>1, <2>2
<1>4. \E x, y \in S : x # y /\ up[x] = up[y]
  <2> HIDE DEF up
  <2> QED BY <1>2, <1>3, FS_PigeonHole
<1>5. QED
  BY <1>4

\* What holds of 0 and goes on from every number below N to the next holds of N.
LEMMA CountUp ==
  ASSUME NEW N \in Nat, NEW S \in SUBSET (0 .. N), 0 \in S,
         \A n \in S : n < N => n + 1 \in S
  PROVE  N \in S
<1>1. IsFiniteSet(S)
  <2>1. IsFiniteSet(0 .. N)
    BY FS_Interval
  <2>2. QED
    BY <2>1, FS_Subset
<1>2. PICK n \in S : n + 1 \notin S
  BY <1>1, StepOut
<1>3. QED
  BY <1>2

\* Max of some numbers up to N.
LEMMA MaxFacts ==
  ASSUME NEW N \in Nat, NEW S \in SUBSET (0 .. N), S # {}
  PROVE  Max(S) \in S /\ \A n \in S : n <= Max(S)
<1> DEFINE Reached == {n \in 0 .. N : \E m \in S : n <= m}
<1>1. Reached \in SUBSET Nat /\ 0 \in Reached /\ Reached \subseteq 0 .. N
  <2>1. PICK m \in S : TRUE
    OBVIOUS
  <2>2. 0 \in Reached
    BY <2>1
  <2>3. QED
    BY <2>2
<1>2. IsFiniteSet(Reached)
  <2>1. IsFiniteSet(0 .. N)
    BY FS_Interval
  <2> HIDE DEF Reached
  <2>2. QED
    BY <1>1, <2>1, FS_Subset
<1>3. PICK n \in Reached : n + 1 \notin Reached
  <2> HIDE DEF Reached
  <2> QED BY <1>1, <1>2, StepOut
<1>4. \A m \in S : m <= n
  BY <1>3
<1>5. n \in S
  BY <1>3, <1>4
<1>6. \E x \in S : \A y \in S : x >= y
  BY <1>4, <1>5
<1>7. QED
  BY <1>6 DEF Max

-------------------------------------------------------------------------------
(* Maps in normal form                                                     *)

WellFormed(map) ==
  /\ DOMAIN map \subseteq 0 .. MaxPoint
  /\ \A key \in DOMAIN map : map[key] \in key .. MaxPoint

Apart(map) == \A left, right \in DOMAIN map : left < right => map[left] + 1 < right

Normal(map) == WellFormed(map) /\ Apart(map)

LEMMA CoveredMember ==
  ASSUME NEW map, NEW x
  PROVE  x \in Covered(map) <=> \E key \in DOMAIN map : x \in key .. map[key]
BY DEF Covered

LEMMA CoveredPoints ==
  ASSUME NEW map, WellFormed(map)
  PROVE  Covered(map) \subseteq 0 .. MaxPoint
BY MaxPointAssumption DEF Covered, WellFormed

\* A point is in one range only.
LEMMA InOneRange ==
  ASSUME NEW map, Normal(map), NEW key \in DOMAIN map, NEW other \in DOMAIN map,
         NEW x \in key .. map[key], x \in other .. map[other]
  PROVE  other = key
<1>1. /\ key \in Nat /\ other \in Nat /\ map[key] \in Nat /\ map[other] \in Nat
      /\ key < other => map[key] + 1 < other
      /\ other < key => map[other] + 1 < key
  BY DEF Normal, WellFormed, Apart
<1>2. QED
  BY <1>1

\* Points without a gap are in one range.
LEMMA WithoutGap ==
  ASSUME NEW map, Normal(map), NEW key \in DOMAIN map, NEW a \in key .. map[key],
         NEW b \in Nat, a .. b \subseteq Covered(map)
  PROVE  b <= map[key]
<1>1. SUFFICES ASSUME map[key] < b PROVE FALSE
  BY DEF Normal, WellFormed
<1>2. key \in Nat /\ map[key] \in Nat
  BY DEF Normal, WellFormed
<1>3. map[key] + 1 \in Covered(map)
  BY <1>1, <1>2
<1>4. PICK other \in DOMAIN map : map[key] + 1 \in other .. map[other]
  BY <1>3, CoveredMember
<1>5. /\ other \in Nat /\ map[other] \in Nat
      /\ key < other => map[key] + 1 < other
      /\ other < key => map[other] + 1 < key
  BY DEF Normal, WellFormed, Apart
<1>6. QED
  BY <1>2, <1>4, <1>5

\* There is a gap below each range.
LEMMA GapBelow ==
  ASSUME NEW map, Normal(map), NEW key \in DOMAIN map
  PROVE  key - 1 \notin Covered(map)
<1>1. SUFFICES ASSUME NEW other \in DOMAIN map, key - 1 \in other .. map[other]
               PROVE  FALSE
  BY CoveredMember
<1>2. /\ other \in Nat /\ map[other] \in Nat /\ key \in Nat /\ map[key] \in Nat
      /\ key <= map[key]
      /\ other < key => map[other] + 1 < key
  BY DEF Normal, WellFormed, Apart
<1>3. QED
  BY <1>1, <1>2

\* The ranges are the maximal runs of the points.
LEMMA RangeIsRun ==
  ASSUME NEW map, Normal(map), NEW key \in DOMAIN map, NEW x \in key .. map[key]
  PROVE  /\ Points!RunFirst(Covered(map), x) = key
         /\ Points!RunLast(Covered(map), x) = map[key]
<1>1. key \in Nat /\ map[key] \in Nat /\ x \in Nat /\ key <= x /\ x <= map[key]
  BY DEF Normal, WellFormed
<1>2. key .. map[key] \subseteq Covered(map)
  BY CoveredMember
<1>3. Covered(map) \subseteq Nat
  BY CoveredPoints, MaxPointAssumption DEF Normal
<1>4. key - 1 \notin Covered(map)
  BY GapBelow
<1>5. map[key] + 1 \notin Covered(map)
  <2>1. SUFFICES ASSUME map[key] + 1 \in Covered(map) PROVE FALSE
    OBVIOUS
  <2>2. x .. map[key] + 1 \subseteq Covered(map)
    BY <1>1, <1>2, <2>1
  <2>3. map[key] + 1 <= map[key]
    BY <1>1, <2>2, WithoutGap
  <2>4. QED
    BY <1>1, <2>3
<1>6. ASSUME NEW f \in Covered(map), f <= x, f .. x \subseteq Covered(map),
             f - 1 \notin Covered(map)
      PROVE  f = key
  <2>1. ~ f < key
    <3>1. SUFFICES ASSUME f < key PROVE FALSE
      OBVIOUS
    <3>2. key - 1 \in f .. x
      BY <1>1, <1>3, <3>1
    <3>3. QED
      BY <1>4, <1>6, <3>2
  <2>2. ~ key < f
    <3>1. SUFFICES ASSUME key < f PROVE FALSE
      OBVIOUS
    <3>2. f - 1 \in key .. map[key]
      BY <1>1, <1>3, <1>6, <3>1
    <3>3. QED
      BY <1>2, <1>6, <3>2
  <2>3. QED
    BY <1>1, <1>3, <2>1, <2>2
<1>7. ASSUME NEW l \in Covered(map), x <= l, x .. l \subseteq Covered(map),
             l + 1 \notin Covered(map)
      PROVE  l = map[key]
  <2>1. l <= map[key]
    BY <1>3, <1>7, WithoutGap
  <2>2. ~ l < map[key]
    <3>1. SUFFICES ASSUME l < map[key] PROVE FALSE
      OBVIOUS
    <3>2. l + 1 \in key .. map[key]
      BY <1>1, <1>3, <1>7, <3>1
    <3>3. QED
      BY <1>2, <1>7, <3>2
  <2>3. QED
    BY <1>1, <1>3, <2>1, <2>2
<1>8. /\ key \in Covered(map) /\ key <= x /\ key .. x \subseteq Covered(map)
      /\ map[key] \in Covered(map) /\ x <= map[key] /\ x .. map[key] \subseteq Covered(map)
  BY <1>1, <1>2
<1>9. QED
  BY <1>4, <1>5, <1>6, <1>7, <1>8 DEF Points!RunFirst, Points!RunLast
-------------------------------------------------------------------------------
(* The loop of insert()                                                    *)

\* The map before the loop: nothing that the loop may reach touches anything
\* that it may not, and what lies below `current`, or out of reach, is apart.
LoopReady(map, current, reach) ==
  /\ WellFormed(map)
  /\ current \in reach /\ reach \subseteq DOMAIN map
  /\ \A k \in reach, u \in DOMAIN map \ reach : map[k] + 1 < u
  /\ \A left, right \in DOMAIN map :
       left < right /\ right <= current => map[left] + 1 < right
  /\ \A left, right \in DOMAIN map \ reach : left < right => map[left] + 1 < right

\* The map M after the turns up to the key n, when `current` has become c: no point
\* is lost or added, the keys visited are apart, the others as they were.
LoopInv(map, current, reach, M, c, n) ==
  /\ WellFormed(M) /\ DOMAIN M \subseteq DOMAIN map
  /\ c \in DOMAIN M /\ c \in reach /\ current <= c /\ c <= n
  /\ Covered(M) = Covered(map)
  /\ \A k \in DOMAIN M : k \in reach /\ k <= n => k <= c
  /\ \A left, right \in DOMAIN M : left < right /\ right <= c => M[left] + 1 < right
  /\ \A k \in DOMAIN map : k > n \/ k \notin reach => k \in DOMAIN M /\ M[k] = map[k]
  /\ \A u \in DOMAIN map \ reach : M[c] + 1 < u
  /\ \A k \in DOMAIN map : k <= current => k \in DOMAIN M

LEMMA LoopStarts ==
  ASSUME NEW map, NEW current, NEW reach, LoopReady(map, current, reach)
  PROVE  LoopInv(map, current, reach, map, current, current)
<1>1. current \in Nat
  BY MaxPointAssumption DEF LoopReady, WellFormed
<1>2. QED
  BY <1>1 DEF LoopReady, LoopInv

\* A key that is no key of the map, or out of reach, is passed over.
LEMMA LoopPasses ==
  ASSUME NEW map, NEW current, NEW reach, LoopReady(map, current, reach),
         NEW M, NEW c, NEW n \in Nat, LoopInv(map, current, reach, M, c, n),
         n + 1 \notin reach
  PROVE  LoopInv(map, current, reach, M, c, n + 1)
<1>1. DOMAIN M \subseteq Nat /\ DOMAIN map \subseteq Nat
  BY MaxPointAssumption DEF LoopReady, LoopInv, WellFormed
<1>2. c \in Nat /\ c <= n
  BY <1>1 DEF LoopInv
<1>3. \A k \in DOMAIN M : k \in reach /\ k <= n + 1 => k <= c
  <2>1. SUFFICES ASSUME NEW k \in DOMAIN M, k \in reach, k <= n + 1 PROVE k <= c
    OBVIOUS
  <2>2. k # n + 1
    BY <2>1
  <2>3. k <= n
    BY <1>1, <2>1, <2>2
  <2>4. QED
    BY <2>1, <2>3 DEF LoopInv
<1>4. \A k \in DOMAIN map : k > n + 1 \/ k \notin reach => k \in DOMAIN M /\ M[k] = map[k]
  <2>1. SUFFICES ASSUME NEW k \in DOMAIN map, k > n + 1 \/ k \notin reach
                 PROVE  k \in DOMAIN M /\ M[k] = map[k]
    OBVIOUS
  <2>2. k > n \/ k \notin reach
    BY <1>1, <2>1
  <2>3. QED
    BY <2>2 DEF LoopInv
<1>5. c <= n + 1
  BY <1>2
<1>6. QED
  BY <1>3, <1>4, <1>5 DEF LoopInv

\* What is known of the key n + 1 when the loop comes to it.
LEMMA NextKey ==
  ASSUME NEW map, NEW current, NEW reach, LoopReady(map, current, reach),
         NEW M, NEW c, NEW n \in Nat, LoopInv(map, current, reach, M, c, n),
         n + 1 \in reach
  PROVE  /\ c \in Nat /\ c < n + 1 /\ current \in Nat /\ current < n + 1
         /\ n + 1 \in DOMAIN M /\ n + 1 \in DOMAIN map
         /\ M[n + 1] = map[n + 1]
         /\ M[n + 1] \in n + 1 .. MaxPoint /\ M[c] \in c .. MaxPoint
         /\ DOMAIN M \subseteq 0 .. MaxPoint
         /\ \A k \in DOMAIN M : M[k] \in k .. MaxPoint
<1>1. DOMAIN M \subseteq 0 .. MaxPoint /\ \A k \in DOMAIN M : M[k] \in k .. MaxPoint
  BY DEF LoopInv, WellFormed
<1>2. c \in DOMAIN M /\ c <= n /\ current <= c /\ current \in reach
  BY DEF LoopInv, LoopReady
<1>3. reach \subseteq DOMAIN map /\ DOMAIN map \subseteq 0 .. MaxPoint
  BY DEF LoopReady, WellFormed
<1>4. c \in Nat /\ current \in Nat /\ c < n + 1 /\ current < n + 1
  BY <1>1, <1>2, <1>3, MaxPointAssumption
<1>5. n + 1 \in DOMAIN M /\ M[n + 1] = map[n + 1]
  BY <1>3 DEF LoopInv
<1>6. QED
  BY <1>1, <1>2, <1>3, <1>4, <1>5

\* The key n + 1 is erased, and `current` takes its points over: the two cases
\* of the loop in which the next element is absorbed or merged.
LEMMA LoopErases ==
  ASSUME NEW map, NEW current, NEW reach, LoopReady(map, current, reach),
         NEW M, NEW c, NEW n \in Nat, LoopInv(map, current, reach, M, c, n),
         n + 1 \in reach,
         NEW N, DOMAIN N = DOMAIN M \ {n + 1},
         \A k \in DOMAIN N \ {c} : N[k] = M[k],
         N[c] \in {M[c], M[n + 1]}, M[c] <= N[c], M[n + 1] <= N[c],
         n <= M[c]
  PROVE  LoopInv(map, current, reach, N, c, n + 1)
<1>1. /\ c \in Nat /\ c < n + 1 /\ current \in Nat /\ current < n + 1
      /\ n + 1 \in DOMAIN M /\ n + 1 \in DOMAIN map
      /\ M[n + 1] = map[n + 1]
      /\ M[n + 1] \in n + 1 .. MaxPoint /\ M[c] \in c .. MaxPoint
      /\ DOMAIN M \subseteq 0 .. MaxPoint
      /\ \A k \in DOMAIN M : M[k] \in k .. MaxPoint
  BY NextKey
<1>2. c \in DOMAIN M /\ c \in reach /\ current <= c /\ DOMAIN M \subseteq DOMAIN map
  BY DEF LoopInv
<1>3. c \in DOMAIN N /\ DOMAIN N \subseteq DOMAIN M
  BY <1>1, <1>2
<1>4. WellFormed(N)
  BY <1>1, <1>3 DEF WellFormed
<1>5. Covered(N) = Covered(M)
  <2>1. ASSUME NEW x \in Covered(N) PROVE x \in Covered(M)
    <3>1. PICK k \in DOMAIN N : x \in k .. N[k]
      BY <2>1, CoveredMember
    <3>2. CASE k # c
      BY <1>3, <3>1, <3>2, CoveredMember
    <3>3. CASE k = c
      <4>1. x \in c .. M[c] \/ x \in n + 1 .. M[n + 1]
        BY <1>1, <3>1, <3>3
      <4>2. QED
        BY <1>1, <1>2, <4>1, CoveredMember
    <3>4. QED
      BY <3>2, <3>3
  <2>2. ASSUME NEW x \in Covered(M) PROVE x \in Covered(N)
    <3>1. PICK k \in DOMAIN M : x \in k .. M[k]
      BY <2>2, CoveredMember
    <3>2. CASE k # c /\ k # n + 1
      BY <3>1, <3>2, CoveredMember
    <3>3. CASE k = c \/ k = n + 1
      <4>1. x \in c .. N[c]
        BY <1>1, <3>1, <3>3
      <4>2. QED
        BY <1>3, <4>1, CoveredMember
    <3>4. QED
      BY <3>2, <3>3
  <2>3. QED
    BY <2>1, <2>2
<1>6. Covered(N) = Covered(map)
  BY <1>5 DEF LoopInv
<1>7. \A k \in DOMAIN N : k \in reach /\ k <= n + 1 => k <= c
  <2>1. SUFFICES ASSUME NEW k \in DOMAIN N, k \in reach, k <= n + 1 PROVE k <= c
    OBVIOUS
  <2>2. k \in DOMAIN M /\ k <= n
    BY <1>1, <1>3, <2>1
  <2>3. QED
    BY <2>1, <2>2 DEF LoopInv
<1>8. \A left, right \in DOMAIN N : left < right /\ right <= c => N[left] + 1 < right
  <2>1. SUFFICES ASSUME NEW left \in DOMAIN N, NEW right \in DOMAIN N,
                        left < right, right <= c
                 PROVE  N[left] + 1 < right
    OBVIOUS
  <2>2. left # c
    BY <1>1, <1>3, <2>1
  <2>3. M[left] + 1 < right
    BY <1>3, <2>1 DEF LoopInv
  <2>4. QED
    BY <2>1, <2>2, <2>3
<1>9. \A k \in DOMAIN map : k > n + 1 \/ k \notin reach => k \in DOMAIN N /\ N[k] = map[k]
  <2>1. SUFFICES ASSUME NEW k \in DOMAIN map, k > n + 1 \/ k \notin reach
                 PROVE  k \in DOMAIN N /\ N[k] = map[k]
    OBVIOUS
  <2>2. k \in Nat
    BY MaxPointAssumption DEF LoopReady, WellFormed
  <2>3. k > n \/ k \notin reach
    BY <2>1, <2>2
  <2>4. k \in DOMAIN M /\ M[k] = map[k]
    BY <2>3 DEF LoopInv
  <2>5. k # c /\ k # n + 1
    BY <1>1, <1>2, <2>1, <2>2
  <2>6. QED
    BY <2>4, <2>5
<1>10. \A u \in DOMAIN map \ reach : N[c] + 1 < u
  <2>1. SUFFICES ASSUME NEW u \in DOMAIN map \ reach PROVE N[c] + 1 < u
    OBVIOUS
  <2>2. M[c] + 1 < u
    BY DEF LoopInv
  <2>3. M[n + 1] + 1 < u
    BY <1>1 DEF LoopReady
  <2>4. QED
    BY <2>2, <2>3
<1>11. \A k \in DOMAIN map : k <= current => k \in DOMAIN N
  <2>1. SUFFICES ASSUME NEW k \in DOMAIN map, k <= current PROVE k \in DOMAIN N
    OBVIOUS
  <2>2. k # n + 1
    BY <1>1, <2>1
  <2>3. k \in DOMAIN M
    BY <2>1 DEF LoopInv
  <2>4. QED
    BY <2>2, <2>3
<1>12. c <= n + 1 /\ DOMAIN N \subseteq DOMAIN map
  BY <1>1, <1>2, <1>3
<1>13. QED
  BY <1>2, <1>3, <1>4, <1>6, <1>7, <1>8, <1>9, <1>10, <1>11, <1>12 DEF LoopInv

\* The key n + 1 is neither absorbed nor merged, and becomes `current`.
LEMMA LoopAdvances ==
  ASSUME NEW map, NEW current, NEW reach, LoopReady(map, current, reach),
         NEW M, NEW c, NEW n \in Nat, LoopInv(map, current, reach, M, c, n),
         n + 1 \in reach, M[c] < n
  PROVE  LoopInv(map, current, reach, M, n + 1, n + 1)
<1>1. /\ c \in Nat /\ c < n + 1 /\ current \in Nat /\ current < n + 1
      /\ n + 1 \in DOMAIN M /\ n + 1 \in DOMAIN map
      /\ M[n + 1] = map[n + 1]
      /\ M[n + 1] \in n + 1 .. MaxPoint /\ M[c] \in c .. MaxPoint
      /\ DOMAIN M \subseteq 0 .. MaxPoint
      /\ \A k \in DOMAIN M : M[k] \in k .. MaxPoint
  BY NextKey
<1>2. \A left, right \in DOMAIN M :
        left < right /\ right <= n + 1 => M[left] + 1 < right
  <2>1. SUFFICES ASSUME NEW left \in DOMAIN M, NEW right \in DOMAIN M,
                        left < right, right <= n + 1
                 PROVE  M[left] + 1 < right
    OBVIOUS
  <2>2. left \in Nat /\ right \in Nat /\ M[left] \in Nat
    BY <1>1, MaxPointAssumption
  <2>3. c \in DOMAIN M
    BY DEF LoopInv
  <2>4. \A k \in DOMAIN M : k \in reach /\ k <= n => k <= c
    BY DEF LoopInv
  <2>5. \A k \in DOMAIN M : k \notin reach => n + 1 < k
    <3>1. SUFFICES ASSUME NEW k \in DOMAIN M, k \notin reach PROVE n + 1 < k
      OBVIOUS
    <3>2. k \in DOMAIN map \ reach
      BY <3>1 DEF LoopInv
    <3>3. map[n + 1] + 1 < k
      BY <3>2 DEF LoopReady
    <3>4. QED
      BY <1>1, <3>3
  <2>6. left \in reach /\ left <= c
    BY <1>1, <2>1, <2>2, <2>4, <2>5
  <2>7. CASE right <= n
    <3>1. right <= c
      BY <1>1, <2>1, <2>2, <2>4, <2>5, <2>7
    <3>2. QED
      BY <2>1, <3>1 DEF LoopInv
  <2>8. CASE right = n + 1
    <3>1. CASE left = c
      BY <1>1, <2>8, <3>1
    <3>2. CASE left < c
      <4>1. M[left] + 1 < c
        BY <1>1, <2>3, <2>6, <3>2 DEF LoopInv
      <4>2. QED
        BY <1>1, <2>2, <2>8, <4>1
    <3>3. QED
      BY <1>1, <2>2, <2>6, <3>1, <3>2
  <2>9. QED
    BY <2>1, <2>2, <2>7, <2>8
<1>3. \A k \in DOMAIN map : k > n + 1 \/ k \notin reach => k \in DOMAIN M /\ M[k] = map[k]
  <2>1. SUFFICES ASSUME NEW k \in DOMAIN map, k > n + 1 \/ k \notin reach
                 PROVE  k \in DOMAIN M /\ M[k] = map[k]
    OBVIOUS
  <2>2. k \in Nat
    BY MaxPointAssumption DEF LoopReady, WellFormed
  <2>3. k > n \/ k \notin reach
    BY <2>1, <2>2
  <2>4. QED
    BY <2>3 DEF LoopInv
<1>4. \A u \in DOMAIN map \ reach : M[n + 1] + 1 < u
  BY <1>1 DEF LoopReady
<1>5. current <= n + 1 /\ n + 1 <= n + 1
  BY <1>1
<1>6. \A k \in DOMAIN M : k \in reach /\ k <= n + 1 => k <= n + 1
  OBVIOUS
<1>7. QED
  BY <1>1, <1>2, <1>3, <1>4, <1>5, <1>6 DEF LoopInv

\* One turn of the loop keeps the invariant.
LEMMA LoopTurn ==
  ASSUME NEW map, NEW current, NEW reach, LoopReady(map, current, reach),
         NEW state, NEW n \in Nat, n + 1 \in reach,
         LoopInv(map, current, reach, state.map, state.current, n)
  PROVE  LET next == MergeNext(state, n + 1)
         IN  LoopInv(map, current, reach, next.map, next.current, n + 1)
<1>1. PICK M, c : M = state.map /\ c = state.current
  OBVIOUS
<1>2. LoopInv(map, current, reach, M, c, n)
  BY <1>1
<1>3. /\ c \in Nat /\ c < n + 1
      /\ n + 1 \in DOMAIN M
      /\ M[n + 1] \in n + 1 .. MaxPoint /\ M[c] \in c .. MaxPoint
  BY <1>2, NextKey
<1>4. c \in DOMAIN M
  BY <1>2 DEF LoopInv
<1>5. CASE CanAbsorb(M, c, n + 1)
  <2> DEFINE N == WithoutKey(M, n + 1)
  <2>1. MergeNext(state, n + 1) = [map |-> N, current |-> c]
    BY <1>1, <1>5 DEF MergeNext
  <2>2. M[c] >= M[n + 1]
    BY <1>5 DEF CanAbsorb
  <2>3. DOMAIN N = DOMAIN M \ {n + 1} /\ \A k \in DOMAIN N : N[k] = M[k]
    BY DEF WithoutKey
  <2>4. c \in DOMAIN N
    BY <1>3, <1>4, <2>3
  <2> HIDE DEF N
  <2>5. \A k \in DOMAIN N \ {c} : N[k] = M[k]
    BY <2>3
  <2>6. N[c] \in {M[c], M[n + 1]} /\ M[c] <= N[c] /\ M[n + 1] <= N[c] /\ n <= M[c]
    BY <1>3, <2>2, <2>3, <2>4
  <2>7. LoopInv(map, current, reach, N, c, n + 1)
    BY <1>2, <2>3, <2>5, <2>6, LoopErases
  <2>8. QED
    BY <2>1, <2>7
<1>6. CASE ~ CanAbsorb(M, c, n + 1) /\ CanMerge(M, c, n + 1)
  <2> DEFINE N == WithoutKey(WithKey(M, c, M[n + 1]), n + 1)
  <2>1. MergeNext(state, n + 1) = [map |-> N, current |-> c]
    BY <1>1, <1>6 DEF MergeNext
  <2>2. n <= M[c] /\ M[c] <= M[n + 1]
    BY <1>3, <1>6 DEF CanMerge
  <2>3. DOMAIN N = DOMAIN M \ {n + 1}
    BY <1>4 DEF WithoutKey, WithKey
  <2>4. \A k \in DOMAIN N \ {c} : N[k] = M[k]
    BY DEF WithoutKey, WithKey
  <2>5. c \in DOMAIN N
    BY <1>3, <1>4, <2>3
  <2>6. N[c] = M[n + 1]
    BY <2>5 DEF WithoutKey, WithKey
  <2> HIDE DEF N
  <2>7. N[c] \in {M[c], M[n + 1]} /\ M[c] <= N[c] /\ M[n + 1] <= N[c]
    BY <1>3, <2>2, <2>6
  <2>8. LoopInv(map, current, reach, N, c, n + 1)
    BY <1>2, <2>2, <2>3, <2>4, <2>7, LoopErases
  <2>9. QED
    BY <2>1, <2>8
<1>7. CASE ~ CanAbsorb(M, c, n + 1) /\ ~ CanMerge(M, c, n + 1)
  <2>1. MergeNext(state, n + 1) = [map |-> M, current |-> n + 1]
    BY <1>1, <1>7 DEF MergeNext
  <2>2. M[c] < n
    BY <1>3, <1>7 DEF CanAbsorb, CanMerge
  <2>3. LoopInv(map, current, reach, M, n + 1, n + 1)
    BY <1>2, <2>2, LoopAdvances
  <2>4. QED
    BY <2>1, <2>3
<1>8. QED
  BY <1>5, <1>6, <1>7

\* After the last key nothing is left to visit.
LEMMA LoopEnds ==
  ASSUME NEW map, NEW current, NEW reach, LoopReady(map, current, reach),
         NEW M, NEW c, LoopInv(map, current, reach, M, c, MaxPoint)
  PROVE  /\ Normal(M) /\ DOMAIN M \subseteq DOMAIN map
         /\ Covered(M) = Covered(map)
         /\ \A k \in DOMAIN map : k <= current => k \in DOMAIN M
<1>1. DOMAIN M \subseteq 0 .. MaxPoint /\ \A k \in DOMAIN M : M[k] \in k .. MaxPoint
  BY DEF LoopInv, WellFormed
<1>2. c \in DOMAIN M /\ DOMAIN M \subseteq DOMAIN map /\ reach \subseteq DOMAIN map
  BY DEF LoopInv, LoopReady
<1>3. \A k \in DOMAIN M : k \in reach => k <= c
  BY <1>1 DEF LoopInv
<1>4. \A u \in DOMAIN M \ reach : M[u] = map[u] /\ M[c] + 1 < u
  BY <1>2 DEF LoopInv
<1>5. ASSUME NEW left \in DOMAIN M, NEW right \in DOMAIN M, left < right
      PROVE  M[left] + 1 < right
  <2>1. /\ left \in Nat /\ right \in Nat /\ M[left] \in Nat /\ c \in Nat /\ M[c] \in Nat
        /\ c <= M[c]
    BY <1>1, <1>2, MaxPointAssumption
  <2>2. CASE right \in reach
    BY <1>3, <1>5, <2>2 DEF LoopInv
  <2>3. CASE right \notin reach /\ left \in reach
    <3>1. left <= c /\ M[c] + 1 < right
      BY <1>3, <1>4, <2>3
    <3>2. CASE left = c
      BY <3>1, <3>2
    <3>3. CASE left < c
      <4>1. M[left] + 1 < c
        BY <1>2, <3>3 DEF LoopInv
      <4>2. QED
        BY <2>1, <3>1, <4>1
    <3>4. QED
      BY <2>1, <3>1, <3>2, <3>3
  <2>4. CASE right \notin reach /\ left \notin reach
    <3>1. map[left] + 1 < right
      BY <1>2, <1>5, <2>4 DEF LoopReady
    <3>2. QED
      BY <1>4, <2>4, <3>1
  <2>5. QED
    BY <2>2, <2>3, <2>4
<1>6. Normal(M)
  BY <1>5 DEF Normal, Apart, LoopInv
<1>7. QED
  BY <1>6 DEF LoopInv

\* The turns of the loop are a function: it can be given up to each key.
LEMMA LoopTurns ==
  ASSUME NEW map, NEW current \in Nat, NEW reach
  PROVE  \E turn :
           /\ turn = [n \in 0 .. MaxPoint |->
                        IF n <= current THEN [map |-> map, current |-> current]
                        ELSE IF n \in reach THEN MergeNext(turn[n - 1], n) ELSE turn[n - 1]]
           /\ MergeLoop(map, current, reach) = turn[MaxPoint].map
<1> DEFINE Start == [map |-> map, current |-> current]
           Value(t, n) == IF n <= current THEN Start
                          ELSE IF n \in reach THEN MergeNext(t[n - 1], n) ELSE t[n - 1]
           Given == {n \in 0 .. MaxPoint : \E t : t = [m \in 0 .. n |-> Value(t, m)]}
<1>1. 0 \in Given
  <2> DEFINE t == [m \in 0 .. 0 |-> Start]
  <2>1. t = [m \in 0 .. 0 |-> Value(t, m)]
    OBVIOUS
  <2>2. 0 \in 0 .. MaxPoint
    BY MaxPointAssumption
  <2> HIDE DEF t, Value
  <2>3. QED
    BY <2>1, <2>2
<1>2. ASSUME NEW n \in Given, n < MaxPoint PROVE n + 1 \in Given
  <2>1. n \in 0 .. MaxPoint /\ n \in Nat
    BY MaxPointAssumption
  <2>2. PICK t : t = [m \in 0 .. n |-> Value(t, m)]
    BY <1>2
  <2> DEFINE u == [m \in 0 .. n + 1 |-> IF m <= n THEN t[m] ELSE Value(t, m)]
  <2>3. ASSUME NEW m \in 0 .. n + 1 PROVE u[m] = Value(u, m)
    <3>1. u[m] = Value(t, m)
      BY <2>1, <2>2
    <3>2. ~ (m <= current) => m - 1 \in 0 .. n
      BY <2>1
    <3>3. ~ (m <= current) => u[m - 1] = t[m - 1]
      BY <2>1, <3>2
    <3> HIDE DEF u
    <3>4. QED
      BY <3>1, <3>3
  <2>4. u = [m \in 0 .. n + 1 |-> Value(u, m)]
    BY <2>3
  <2>5. n + 1 \in 0 .. MaxPoint
    BY <1>2, <2>1, MaxPointAssumption
  <2> HIDE DEF u, Value
  <2>6. QED
    BY <2>4, <2>5
<1>3. MaxPoint \in Given
  <2>1. Given \in SUBSET (0 .. MaxPoint)
    OBVIOUS
  <2> HIDE DEF Given
  <2>2. QED
    BY <1>1, <1>2, <2>1, CountUp, MaxPointAssumption
<1>4. \E turn : turn = [n \in 0 .. MaxPoint |-> Value(turn, n)]
  BY <1>3
<1>5. QED
  BY <1>4 DEF MergeLoop

\* The loop ends with a map in normal form, of the same points, that still has
\* the keys up to the one it began at.
LEMMA LoopResult ==
  ASSUME NEW map, NEW current, NEW reach, LoopReady(map, current, reach)
  PROVE  LET M == MergeLoop(map, current, reach)
         IN  /\ Normal(M) /\ DOMAIN M \subseteq DOMAIN map
             /\ Covered(M) = Covered(map)
             /\ \A k \in DOMAIN map : k <= current => k \in DOMAIN M
<1>1. current \in Nat /\ current \in 0 .. MaxPoint
  BY MaxPointAssumption DEF LoopReady, WellFormed
<1>2. PICK turn :
        /\ turn = [n \in 0 .. MaxPoint |->
                     IF n <= current THEN [map |-> map, current |-> current]
                     ELSE IF n \in reach THEN MergeNext(turn[n - 1], n) ELSE turn[n - 1]]
        /\ MergeLoop(map, current, reach) = turn[MaxPoint].map
  <2>1. current \in Nat
    BY <1>1
  <2>2. QED
    BY ONLY <2>1, LoopTurns
<1>3. \A n \in 0 .. MaxPoint :
        turn[n] = IF n <= current THEN [map |-> map, current |-> current]
                  ELSE IF n \in reach THEN MergeNext(turn[n - 1], n) ELSE turn[n - 1]
  BY <1>2
<1> DEFINE Kept == {n \in 0 .. MaxPoint :
              current <= n => LoopInv(map, current, reach, turn[n].map, turn[n].current, n)}
<1>4. turn[current].map = map /\ turn[current].current = current
  BY <1>1, <1>3
<1>5. LoopInv(map, current, reach, turn[current].map, turn[current].current, current)
  BY <1>4, LoopStarts
<1>6. 0 \in Kept
  <2>1. current <= 0 => current = 0
    BY <1>1
  <2>2. QED
    BY <1>5, <2>1, MaxPointAssumption
<1>7. ASSUME NEW n \in Kept, n < MaxPoint PROVE n + 1 \in Kept
  <2>1. n \in Nat /\ n + 1 \in 0 .. MaxPoint
    BY <1>7, MaxPointAssumption
  <2>2. CASE n + 1 <= current
    <3>1. current <= n + 1 => n + 1 = current
      BY <1>1, <2>1, <2>2
    <3>2. QED
      BY <1>5, <2>1, <3>1
  <2>3. CASE current < n + 1
    <3>1. current <= n
      BY <1>1, <2>1, <2>3
    <3>2. LoopInv(map, current, reach, turn[n].map, turn[n].current, n)
      BY <3>1
    <3>3. turn[n + 1] = IF n + 1 \in reach THEN MergeNext(turn[n], n + 1) ELSE turn[n]
      <4>1. ~ n + 1 <= current /\ (n + 1) - 1 = n
        BY <1>1, <2>1, <2>3
      <4>2. QED
        BY <1>3, <2>1, <4>1
    <3>4. LoopInv(map, current, reach, turn[n + 1].map, turn[n + 1].current, n + 1)
      <4>1. CASE n + 1 \in reach
        BY <2>1, <3>2, <3>3, <4>1, LoopTurn
      <4>2. CASE n + 1 \notin reach
        BY <2>1, <3>2, <3>3, <4>2, LoopPasses
      <4>3. QED
        BY <4>1, <4>2
    <3>5. QED
      BY <2>1, <3>4
  <2>4. QED
    BY <1>1, <2>1, <2>2, <2>3
<1>8. MaxPoint \in Kept
  <2>1. Kept \in SUBSET (0 .. MaxPoint)
    OBVIOUS
  <2> HIDE DEF Kept
  <2>2. QED
    BY <1>6, <1>7, <2>1, CountUp, MaxPointAssumption
<1>9. LoopInv(map, current, reach, turn[MaxPoint].map, turn[MaxPoint].current, MaxPoint)
  BY <1>1, <1>8
<1>10. PICK M, c : M = turn[MaxPoint].map /\ c = turn[MaxPoint].current
  OBVIOUS
<1>11. /\ Normal(M) /\ DOMAIN M \subseteq DOMAIN map
       /\ Covered(M) = Covered(map)
       /\ \A k \in DOMAIN map : k <= current => k \in DOMAIN M
  BY <1>9, <1>10, LoopEnds
<1>12. MergeLoop(map, current, reach) = M
  BY <1>2, <1>10
<1>13. QED
  BY <1>11, <1>12
-------------------------------------------------------------------------------
(* count()                                                                 *)

\* The sum of count() is a function: it can be given up to each key.
LEMMA CountSums ==
  ASSUME NEW map
  PROVE  \E sum :
           /\ sum = [n \in 0 .. MaxPoint |->
                       (IF n = 0 THEN 0 ELSE sum[n - 1])
                       + (IF n \in DOMAIN map THEN Length(map, n) ELSE 0)]
           /\ Count(map) = sum[MaxPoint]
<1> DEFINE Value(t, n) == (IF n = 0 THEN 0 ELSE t[n - 1])
                          + (IF n \in DOMAIN map THEN Length(map, n) ELSE 0)
           Given == {n \in 0 .. MaxPoint : \E t : t = [m \in 0 .. n |-> Value(t, m)]}
<1>1. 0 \in Given
  <2> DEFINE t == [m \in 0 .. 0 |-> 0 + (IF m \in DOMAIN map THEN Length(map, m) ELSE 0)]
  <2>1. t = [m \in 0 .. 0 |-> Value(t, m)]
    OBVIOUS
  <2>2. 0 \in 0 .. MaxPoint
    BY MaxPointAssumption
  <2> HIDE DEF t, Value
  <2>3. QED
    BY <2>1, <2>2
<1>2. ASSUME NEW n \in Given, n < MaxPoint PROVE n + 1 \in Given
  <2>1. n \in 0 .. MaxPoint /\ n \in Nat
    BY MaxPointAssumption
  <2>2. PICK t : t = [m \in 0 .. n |-> Value(t, m)]
    BY <1>2
  <2> DEFINE u == [m \in 0 .. n + 1 |-> IF m <= n THEN t[m] ELSE Value(t, m)]
  <2>3. ASSUME NEW m \in 0 .. n + 1 PROVE u[m] = Value(u, m)
    <3>1. u[m] = Value(t, m)
      BY <2>1, <2>2
    <3>2. m # 0 => m - 1 \in 0 .. n
      BY <2>1
    <3>3. m # 0 => u[m - 1] = t[m - 1]
      BY <2>1, <3>2
    <3> HIDE DEF u
    <3>4. QED
      BY <3>1, <3>3
  <2>4. u = [m \in 0 .. n + 1 |-> Value(u, m)]
    BY <2>3
  <2>5. n + 1 \in 0 .. MaxPoint
    BY <1>2, <2>1, MaxPointAssumption
  <2> HIDE DEF u, Value
  <2>6. QED
    BY <2>4, <2>5
<1>3. MaxPoint \in Given
  <2>1. Given \in SUBSET (0 .. MaxPoint)
    OBVIOUS
  <2> HIDE DEF Given
  <2>2. QED
    BY <1>1, <1>2, <2>1, CountUp, MaxPointAssumption
<1>4. \E sum : sum = [n \in 0 .. MaxPoint |-> Value(sum, n)]
  BY <1>3
<1>5. QED
  BY <1>4 DEF Count

\* The points of the ranges that begin at n or below.
CoveredFrom(map, n) == UNION {key .. map[key] : key \in {k \in DOMAIN map : k <= n}}

\* The range that begins at n is apart from those below it.
LEMMA NextRange ==
  ASSUME NEW map, Normal(map), NEW n \in Nat, n \in DOMAIN map,
         IsFiniteSet(CoveredFrom(map, n - 1))
  PROVE  /\ IsFiniteSet(CoveredFrom(map, n))
         /\ Cardinality(CoveredFrom(map, n)) =
              Cardinality(CoveredFrom(map, n - 1)) + Length(map, n)
<1>1. map[n] \in Nat /\ n <= map[n] /\ DOMAIN map \subseteq Nat
  BY MaxPointAssumption DEF Normal, WellFormed
<1>2. CoveredFrom(map, n) = CoveredFrom(map, n - 1) \union n .. map[n]
  <2>1. {k \in DOMAIN map : k <= n} = {k \in DOMAIN map : k <= n - 1} \union {n}
    BY <1>1
  <2>2. QED
    BY <2>1 DEF CoveredFrom
<1>3. CoveredFrom(map, n - 1) \cap n .. map[n] = {}
  <2>1. SUFFICES ASSUME NEW key \in DOMAIN map, key <= n - 1,
                        NEW x \in key .. map[key], x \in n .. map[n]
                 PROVE  FALSE
    BY DEF CoveredFrom
  <2>2. key \in Nat /\ map[key] \in Nat
    BY <1>1 DEF Normal, WellFormed
  <2>3. key < n
    BY <1>1, <2>1, <2>2
  <2>4. map[key] + 1 < n
    BY <2>3 DEF Normal, Apart
  <2>5. x \in Nat /\ x <= map[key] /\ n <= x
    BY <2>1, <2>2
  <2>6. QED
    BY <1>1, <2>2, <2>4, <2>5
<1>4. IsFiniteSet(n .. map[n]) /\ Cardinality(n .. map[n]) = (map[n] - n) + 1
  <2>1. PICK end \in Nat : end = map[n]
    BY <1>1
  <2>2. /\ IsFiniteSet(n .. end)
        /\ Cardinality(n .. end) = IF n > end THEN 0 ELSE end - n + 1
    <3>1. n \in Int /\ end \in Int
      BY <1>1, <2>1
    <3>2. QED
      BY ONLY <3>1, FS_Interval
  <2>3. QED
    BY <1>1, <2>1, <2>2
<1>5. /\ IsFiniteSet(CoveredFrom(map, n))
      /\ Cardinality(CoveredFrom(map, n)) =
           Cardinality(CoveredFrom(map, n - 1)) + Cardinality(n .. map[n])
           - Cardinality(CoveredFrom(map, n - 1) \cap n .. map[n])
  <2>1. PICK S, T : S = CoveredFrom(map, n - 1) /\ T = n .. map[n]
    OBVIOUS
  <2>2. IsFiniteSet(S) /\ IsFiniteSet(T)
    BY <1>4, <2>1
  <2>3. /\ IsFiniteSet(S \union T)
        /\ Cardinality(S \union T) = Cardinality(S) + Cardinality(T) - Cardinality(S \cap T)
    BY <2>2, FS_Union
  <2>4. QED
    BY <1>2, <2>1, <2>3
<1>6. Cardinality(CoveredFrom(map, n - 1) \cap n .. map[n]) = 0
  BY <1>3, FS_EmptySet
<1>7. Cardinality(CoveredFrom(map, n - 1)) \in Nat
  BY FS_CardinalityType
<1>8. QED
  BY <1>1, <1>4, <1>5, <1>6, <1>7 DEF Length

\* count() tells the number of points of a map in normal form.
LEMMA CountIsCardinality ==
  ASSUME NEW map, Normal(map)
  PROVE  Count(map) = Cardinality(Covered(map))
<1>1. PICK sum :
        /\ sum = [n \in 0 .. MaxPoint |->
                    (IF n = 0 THEN 0 ELSE sum[n - 1])
                    + (IF n \in DOMAIN map THEN Length(map, n) ELSE 0)]
        /\ Count(map) = sum[MaxPoint]
  BY CountSums
<1>2. \A n \in 0 .. MaxPoint :
        sum[n] = (IF n = 0 THEN 0 ELSE sum[n - 1])
                 + (IF n \in DOMAIN map THEN Length(map, n) ELSE 0)
  BY <1>1
<1>3. DOMAIN map \subseteq 0 .. MaxPoint
  BY DEF Normal, WellFormed
<1> DEFINE Summed == {n \in 0 .. MaxPoint :
              /\ IsFiniteSet(CoveredFrom(map, n))
              /\ sum[n] = Cardinality(CoveredFrom(map, n))}
<1>4. CoveredFrom(map, 0 - 1) = {} /\ IsFiniteSet({}) /\ Cardinality({}) = 0
  <2>1. {k \in DOMAIN map : k <= 0 - 1} = {}
    BY <1>3
  <2>2. QED
    BY <2>1, FS_EmptySet DEF CoveredFrom
<1>5. ASSUME NEW n \in 0 .. MaxPoint, n \notin DOMAIN map
      PROVE  CoveredFrom(map, n) = CoveredFrom(map, n - 1)
  <2>1. {k \in DOMAIN map : k <= n} = {k \in DOMAIN map : k <= n - 1}
    BY <1>3, <1>5
  <2>2. QED
    BY <2>1 DEF CoveredFrom
<1>6. ASSUME NEW n \in 0 .. MaxPoint, NEW before \in Nat,
             before = Cardinality(CoveredFrom(map, n - 1)),
             IsFiniteSet(CoveredFrom(map, n - 1)),
             sum[n] = before + (IF n \in DOMAIN map THEN Length(map, n) ELSE 0)
      PROVE  n \in Summed
  <2>1. CASE n \in DOMAIN map
    <3>1. n \in Nat
      OBVIOUS
    <3>2. QED
      BY <1>6, <2>1, <3>1, NextRange
  <2>2. CASE n \notin DOMAIN map
    BY <1>5, <1>6, <2>2
  <2>3. QED
    BY <2>1, <2>2
<1>7. 0 \in Summed
  <2>1. 0 \in 0 .. MaxPoint
    BY MaxPointAssumption
  <2>2. sum[0] = 0 + (IF 0 \in DOMAIN map THEN Length(map, 0) ELSE 0)
    BY <1>2, <2>1
  <2> HIDE DEF Summed
  <2>3. QED
    BY <1>4, <1>6, <2>1, <2>2
<1>8. ASSUME NEW n \in Summed, n < MaxPoint PROVE n + 1 \in Summed
  <2>1. n \in Nat /\ n + 1 \in 0 .. MaxPoint /\ (n + 1) - 1 = n /\ n + 1 # 0
    BY <1>8, MaxPointAssumption
  <2>2. IsFiniteSet(CoveredFrom(map, n)) /\ sum[n] = Cardinality(CoveredFrom(map, n))
    OBVIOUS
  <2>3. sum[n] \in Nat
    BY <2>2, FS_CardinalityType
  <2>4. sum[n + 1] = sum[n] + (IF n + 1 \in DOMAIN map THEN Length(map, n + 1) ELSE 0)
    BY <1>2, <2>1
  <2> HIDE DEF Summed
  <2>5. QED
    BY <1>6, <2>1, <2>2, <2>3, <2>4
<1>9. MaxPoint \in Summed
  <2>1. Summed \in SUBSET (0 .. MaxPoint)
    OBVIOUS
  <2> HIDE DEF Summed
  <2>2. QED
    BY <1>7, <1>8, <2>1, CountUp, MaxPointAssumption
<1>10. CoveredFrom(map, MaxPoint) = Covered(map)
  <2>1. {k \in DOMAIN map : k <= MaxPoint} = DOMAIN map
    BY <1>3, MaxPointAssumption
  <2>2. QED
    BY <2>1 DEF CoveredFrom, Covered
<1>11. QED
  BY <1>1, <1>9, <1>10
-------------------------------------------------------------------------------
(* insert()                                                                *)

\* The map before the loop: `first` is a key with a range that ends at `last`, or
\* where it did if that is further.
Added(map, first, last, D) ==
  /\ DOMAIN D = DOMAIN map \union {first}
  /\ \A k \in DOMAIN map \ {first} : D[k] = map[k]
  /\ first \notin DOMAIN map => D[first] = last
  /\ first \in DOMAIN map => D[first] = IF last > map[first] THEN last ELSE map[first]

LEMMA AddedPoints ==
  ASSUME NEW map, WellFormed(map), NEW first \in 0 .. MaxPoint, NEW last \in first .. MaxPoint,
         NEW D, Added(map, first, last, D)
  PROVE  WellFormed(D) /\ Covered(D) = Covered(map) \union first .. last
<1>1. /\ DOMAIN map \subseteq 0 .. MaxPoint
      /\ \A k \in DOMAIN map : map[k] \in k .. MaxPoint
  BY DEF WellFormed
<1>2. first \in Nat /\ last \in Nat /\ MaxPoint \in Nat
  BY MaxPointAssumption
<1>3. /\ first \in DOMAIN D /\ D[first] \in first .. MaxPoint /\ last <= D[first]
      /\ first \in DOMAIN map => map[first] <= D[first]
  BY <1>1, <1>2 DEF Added
<1>4. WellFormed(D)
  BY <1>1, <1>3 DEF Added, WellFormed
<1>5. ASSUME NEW x \in Covered(D) PROVE x \in Covered(map) \union first .. last
  <2>1. PICK k \in DOMAIN D : x \in k .. D[k]
    BY <1>5, CoveredMember
  <2>2. CASE k # first
    <3>1. k \in DOMAIN map /\ D[k] = map[k]
      BY <2>2 DEF Added
    <3>2. QED
      BY <2>1, <3>1, CoveredMember
  <2>3. CASE k = first
    <3>1. x \in first .. last \/ (first \in DOMAIN map /\ x \in first .. map[first])
      BY <1>1, <1>2, <2>1, <2>3 DEF Added
    <3>2. QED
      BY <3>1, CoveredMember
  <2>4. QED
    BY <2>2, <2>3
<1>6. ASSUME NEW x \in Covered(map) PROVE x \in Covered(D)
  <2>1. PICK k \in DOMAIN map : x \in k .. map[k]
    BY <1>6, CoveredMember
  <2>2. k \in DOMAIN D /\ map[k] <= D[k] /\ k \in Nat /\ D[k] \in Nat /\ map[k] \in Nat
    BY <1>1, <1>2, <1>3 DEF Added
  <2>3. x \in k .. D[k]
    BY <2>1, <2>2
  <2>4. QED
    BY <2>2, <2>3, CoveredMember
<1>7. ASSUME NEW x \in first .. last PROVE x \in Covered(D)
  <2>1. x \in first .. D[first]
    BY <1>2, <1>3
  <2>2. QED
    BY <1>3, <2>1, CoveredMember
<1>8. QED
  BY <1>4, <1>5, <1>6, <1>7

\* The loop may reach every key up to `last` and one more, so that a key it may not
\* reach is neither within the new range nor next to it.
LEMMA ReachFacts ==
  ASSUME NEW map, WellFormed(map), NEW last \in Nat
  PROVE  /\ Reach(map, last) \subseteq DOMAIN map
         /\ \A k \in DOMAIN map : k <= last => k \in Reach(map, last)
         /\ \A u \in DOMAIN map \ Reach(map, last) :
              last + 1 < u /\ \A k \in Reach(map, last) : k < u
<1>1. DOMAIN map \subseteq Nat
  BY MaxPointAssumption DEF WellFormed
<1>2. Reach(map, last) \subseteq DOMAIN map
  BY DEF Reach
<1>3. \A k \in DOMAIN map : k <= last => k \in Reach(map, last)
  BY <1>1 DEF Reach
<1>4. ASSUME NEW u \in DOMAIN map \ Reach(map, last)
      PROVE  last + 1 < u /\ \A k \in Reach(map, last) : k < u
  <2>1. PICK j \in DOMAIN map : last < j /\ j < u
    BY DEF Reach
  <2>2. u \in Nat /\ j \in Nat
    BY <1>1
  <2>3. ASSUME NEW k \in Reach(map, last) PROVE k < u
    <3>1. k \in Nat /\ ~ j < k
      BY <1>1, <2>1 DEF Reach
    <3>2. QED
      BY <2>1, <2>2, <3>1
  <2>4. QED
    BY <2>1, <2>2, <2>3
<1>5. QED
  BY <1>2, <1>3, <1>4

\* The loop may begin at a key of the map that `first` does not come before, or at
\* `first` if it is the smallest key.
LEMMA AddedReady ==
  ASSUME NEW map, Normal(map), NEW first \in 0 .. MaxPoint, NEW last \in first .. MaxPoint,
         NEW D, Added(map, first, last, D),
         NEW current \in DOMAIN D, current <= first,
         current \in DOMAIN map \/ (current = first /\ \A k \in DOMAIN map : first < k)
  PROVE  LoopReady(D, current, Reach(map, last) \union {first})
<1> DEFINE reach == Reach(map, last) \union {first}
<1>1. /\ DOMAIN map \subseteq Nat
      /\ \A k \in DOMAIN map : map[k] \in Nat /\ k <= map[k]
  BY MaxPointAssumption DEF Normal, WellFormed
<1>2. \A left, right \in DOMAIN map : left < right => map[left] + 1 < right
  BY DEF Normal, Apart
<1>3. first \in Nat /\ last \in Nat /\ first <= last
  BY MaxPointAssumption
<1>4. WellFormed(D)
  BY AddedPoints DEF Normal
<1>5. /\ Reach(map, last) \subseteq DOMAIN map
      /\ \A k \in DOMAIN map : k <= last => k \in Reach(map, last)
      /\ \A u \in DOMAIN map \ Reach(map, last) :
           last + 1 < u /\ \A k \in Reach(map, last) : k < u
  BY <1>3, ReachFacts DEF Normal
<1>6. DOMAIN D = DOMAIN map \union {first} /\ \A k \in DOMAIN map \ {first} : D[k] = map[k]
  BY DEF Added
<1>7. current \in reach /\ reach \subseteq DOMAIN D
  <2>1. current # first => current \in DOMAIN map /\ current <= last
    BY <1>1, <1>3, <1>6
  <2>2. QED
    BY <1>5, <1>6, <2>1
<1>8. ASSUME NEW k \in reach, NEW u \in DOMAIN D \ reach PROVE D[k] + 1 < u
  <2>1. u \in DOMAIN map \ Reach(map, last) /\ u # first
    BY <1>6
  <2>2. CASE k # first
    <3>1. k \in Reach(map, last) /\ k \in DOMAIN map /\ D[k] = map[k]
      BY <1>5, <1>6, <2>2
    <3>2. QED
      BY <1>2, <1>5, <2>1, <3>1
  <2>3. CASE k = first
    <3>1. last + 1 < u
      BY <1>5, <2>1
    <3>2. CASE D[first] = last
      BY <2>3, <3>1, <3>2
    <3>3. CASE first \in DOMAIN map /\ D[first] = map[first]
      <4>1. first < u
        BY <1>1, <1>3, <2>1, <3>1
      <4>2. QED
        BY <1>2, <2>1, <2>3, <3>3, <4>1
    <3>4. QED
      BY <3>2, <3>3 DEF Added
  <2>4. QED
    BY <2>2, <2>3
<1>9. ASSUME NEW left \in DOMAIN D, NEW right \in DOMAIN D, left < right, right <= current
      PROVE  D[left] + 1 < right
  <2>1. left \in Nat /\ right \in Nat /\ current \in Nat
    BY <1>1, <1>3, <1>6
  <2>2. left # first
    BY <1>3, <1>9, <2>1
  <2>3. left \in DOMAIN map /\ D[left] = map[left]
    BY <1>6, <2>2
  <2>4. right \in DOMAIN map
    <3>1. SUFFICES ASSUME right \notin DOMAIN map PROVE FALSE
      OBVIOUS
    <3>2. right = first /\ current = first
      BY <1>3, <1>6, <1>9, <2>1, <3>1
    <3>3. first < left
      BY <2>3, <3>1, <3>2
    <3>4. QED
      BY <1>3, <1>9, <2>1, <3>2, <3>3
  <2>5. QED
    BY <1>2, <1>9, <2>3, <2>4
<1>10. ASSUME NEW left \in DOMAIN D \ reach, NEW right \in DOMAIN D \ reach, left < right
       PROVE  D[left] + 1 < right
  <2>1. left \in DOMAIN map \ {first} /\ right \in DOMAIN map
    BY <1>6
  <2>2. QED
    BY <1>2, <1>6, <1>10, <2>1
<1> HIDE DEF reach
<1>11. LoopReady(D, current, reach)
  BY <1>4, <1>7, <1>8, <1>9, <1>10 DEF LoopReady
<1>12. QED
  BY <1>11 DEF reach

\* What insert() promises of the map, the iterator and the flag it returns.
InsertRight(map, first, last, outcome) ==
  /\ Normal(outcome.map)
  /\ Covered(outcome.map) = Covered(map) \union first .. last
  /\ outcome.it \in DOMAIN outcome.map
  /\ first \in outcome.it .. outcome.map[outcome.it]
  /\ last \in outcome.it .. outcome.map[outcome.it]
  /\ outcome.modified = ~ (first .. last \subseteq Covered(map))

\* A range of a normal map holds the points without a gap behind one it holds.
LEMMA HoldsBoth ==
  ASSUME NEW M, Normal(M), NEW it \in DOMAIN M,
         NEW first \in 0 .. MaxPoint, NEW last \in first .. MaxPoint,
         first \in it .. M[it], first .. last \subseteq Covered(M)
  PROVE  last \in it .. M[it]
<1>1. last \in Nat /\ first <= last /\ first \in Nat
  BY MaxPointAssumption
<1>2. it \in Nat /\ M[it] \in Nat
  BY MaxPointAssumption DEF Normal, WellFormed
<1>3. last <= M[it]
  BY <1>1, WithoutGap
<1>4. QED
  BY <1>1, <1>2, <1>3

LEMMA InsertAtKeyRight ==
  ASSUME NEW map, Normal(map), NEW first \in 0 .. MaxPoint, NEW last \in first .. MaxPoint,
         first \in DOMAIN map
  PROVE  InsertRight(map, first, last, InsertAtKey(map, first, last))
<1> DEFINE D == [map EXCEPT ![first] = Max({last, @})]
           M == MergeLoop(D, first, Reach(map, last))
<1>1. /\ first \in Nat /\ last \in Nat /\ first <= last /\ map[first] \in Nat
      /\ first <= map[first]
  BY MaxPointAssumption DEF Normal, WellFormed
<1>2. Added(map, first, last, D)
  <2>1. PICK value : value = map[first]
    OBVIOUS
  <2>2. Max({last, value}) = IF last > value THEN last ELSE value
    <3>1. value \in Nat
      BY <1>1, <2>1
    <3>2. \E m \in {last, value} : \A n \in {last, value} : m >= n
      BY <1>1, <3>1
    <3>3. QED
      BY <1>1, <3>1, <3>2 DEF Max
  <2>3. DOMAIN D = DOMAIN map /\ D[first] = Max({last, map[first]})
    OBVIOUS
  <2>4. \A k \in DOMAIN map \ {first} : D[k] = map[k]
    OBVIOUS
  <2> HIDE DEF D
  <2>5. QED
    BY <2>1, <2>2, <2>3, <2>4 DEF Added
<1>3. Reach(map, last) = Reach(map, last) \union {first}
  BY <1>1, ReachFacts DEF Normal
<1> HIDE DEF D
<1>4. LoopReady(D, first, Reach(map, last))
  <2>1. first \in DOMAIN D /\ first <= first
    BY <1>1, <1>2 DEF Added
  <2>2. LoopReady(D, first, Reach(map, last) \union {first})
    BY <1>2, <2>1, AddedReady
  <2>3. QED
    BY <1>3, <2>2
<1>5. /\ Normal(M) /\ Covered(M) = Covered(D)
      /\ \A k \in DOMAIN D : k <= first => k \in DOMAIN M
  BY <1>4, LoopResult
<1> HIDE DEF M
<1>6. Covered(M) = Covered(map) \union first .. last
  BY <1>2, <1>5, AddedPoints DEF Normal
<1>7. first \in DOMAIN M
  BY <1>1, <1>2, <1>5 DEF Added
<1>8. first \in first .. M[first]
  BY <1>1, <1>5, <1>7, MaxPointAssumption DEF Normal, WellFormed
<1>9. last \in first .. M[first]
  BY <1>5, <1>6, <1>7, <1>8, HoldsBoth
<1>10. (last > map[first]) = ~ (first .. last \subseteq Covered(map))
  <2>1. ASSUME first .. last \subseteq Covered(map) PROVE last <= map[first]
    <3>1. first \in first .. map[first]
      BY <1>1
    <3>2. QED
      BY <1>1, <2>1, <3>1, WithoutGap
  <2>2. ASSUME last <= map[first] PROVE first .. last \subseteq Covered(map)
    <3>1. \A x \in first .. last : x \in first .. map[first]
      BY <1>1, <2>2
    <3>2. QED
      BY <3>1, CoveredMember
  <2>3. QED
    BY <1>1, <2>1, <2>2
<1>11. InsertAtKey(map, first, last) = [map |-> M, it |-> first, modified |-> last > map[first]]
  BY DEF InsertAtKey, M, D
<1>12. QED
  BY <1>5, <1>6, <1>7, <1>8, <1>9, <1>10, <1>11 DEF InsertRight

\* The key before `first`.
LEMMA PreviousFacts ==
  ASSUME NEW map, WellFormed(map), NEW first \in 0 .. MaxPoint,
         \E k \in DOMAIN map : k < first
  PROVE  /\ Previous(map, first) \in DOMAIN map /\ Previous(map, first) < first
         /\ \A k \in DOMAIN map : k < first => k <= Previous(map, first)
<1> DEFINE Below == {k \in DOMAIN map : k < first}
<1>1. Below \in SUBSET (0 .. MaxPoint) /\ Below # {}
  BY DEF WellFormed
<1>2. Max(Below) \in Below /\ \A k \in Below : k <= Max(Below)
  <2> HIDE DEF Below
  <2> QED BY <1>1, MaxFacts, MaxPointAssumption
<1>3. QED
  BY <1>2 DEF Previous

\* `first` is no key, and none comes before it.
LEMMA InsertSmallestRight ==
  ASSUME NEW map, Normal(map), NEW first \in 0 .. MaxPoint, NEW last \in first .. MaxPoint,
         first \notin DOMAIN map, ~ \E k \in DOMAIN map : k < first
  PROVE  InsertRight(map, first, last, InsertNewKey(map, first, last))
<1> DEFINE D == WithKey(map, first, last)
           M == MergeLoop(D, first, Reach(map, last) \union {first})
<1>1. first \in Nat /\ last \in Nat /\ first <= last /\ DOMAIN map \subseteq Nat
  BY MaxPointAssumption DEF Normal, WellFormed
<1>2. Added(map, first, last, D)
  BY DEF Added, WithKey
<1> HIDE DEF D
<1>3. LoopReady(D, first, Reach(map, last) \union {first})
  <2>1. first \in DOMAIN D /\ first <= first
    BY <1>1, <1>2 DEF Added
  <2>2. \A k \in DOMAIN map : first < k
    BY <1>1
  <2>3. QED
    BY <1>2, <2>1, <2>2, AddedReady
<1>4. /\ Normal(M) /\ Covered(M) = Covered(D)
      /\ \A k \in DOMAIN D : k <= first => k \in DOMAIN M
  BY <1>3, LoopResult
<1> HIDE DEF M
<1>5. Covered(M) = Covered(map) \union first .. last
  BY <1>2, <1>4, AddedPoints DEF Normal
<1>6. first \in DOMAIN M
  BY <1>1, <1>2, <1>4 DEF Added
<1>7. first \in first .. M[first]
  BY <1>1, <1>4, <1>6, MaxPointAssumption DEF Normal, WellFormed
<1>8. last \in first .. M[first]
  BY <1>4, <1>5, <1>6, <1>7, HoldsBoth
<1>9. TRUE = ~ (first .. last \subseteq Covered(map))
  <2>1. first \notin Covered(map)
    <3>1. SUFFICES ASSUME NEW k \in DOMAIN map, first \in k .. map[k] PROVE FALSE
      BY CoveredMember
    <3>2. k < first
      BY <1>1, <3>1
    <3>3. QED
      BY <3>2
  <2>2. QED
    BY <1>1, <2>1
<1>10. PICK modified : modified = TRUE
  OBVIOUS
<1>11. InsertNewKey(map, first, last) = [map |-> M, it |-> first, modified |-> modified]
  BY <1>10 DEF InsertNewKey, M, D
<1>12. modified = ~ (first .. last \subseteq Covered(map))
  BY <1>9, <1>10
<1>13. QED
  BY <1>4, <1>5, <1>6, <1>7, <1>8, <1>11, <1>12 DEF InsertRight

\* `first` is no key, and `previous` is the one before it.
LEMMA InsertBehindRight ==
  ASSUME NEW map, Normal(map), NEW first \in 0 .. MaxPoint, NEW last \in first .. MaxPoint,
         first \notin DOMAIN map, \E k \in DOMAIN map : k < first
  PROVE  InsertRight(map, first, last, InsertNewKey(map, first, last))
<1> DEFINE D == WithKey(map, first, last)
           previous == Previous(map, first)
           M == MergeLoop(D, previous, Reach(map, last) \union {first})
           it == IF CanAbsorb(D, previous, first) \/ CanMerge(D, previous, first)
                 THEN previous ELSE first
           modified == ~ CanAbsorb(D, previous, first)
<1>1. /\ first \in Nat /\ last \in Nat /\ first <= last /\ DOMAIN map \subseteq Nat
      /\ \A k \in DOMAIN map : map[k] \in Nat /\ k <= map[k]
  BY MaxPointAssumption DEF Normal, WellFormed
<1>2. /\ previous \in DOMAIN map /\ previous < first
      /\ \A k \in DOMAIN map : k < first => k <= previous
  BY PreviousFacts DEF Normal
<1>3. InsertNewKey(map, first, last) = [map |-> M, it |-> it, modified |-> modified]
  BY DEF InsertNewKey
<1> HIDE DEF previous
<1>4. Added(map, first, last, D)
  BY DEF Added, WithKey
<1>5. D[previous] = map[previous] /\ D[first] = last /\ previous \in DOMAIN D
  BY <1>1, <1>2 DEF WithKey
<1> HIDE DEF D
<1>6. LoopReady(D, previous, Reach(map, last) \union {first})
  <2>1. previous <= first
    BY <1>1, <1>2
  <2>2. QED
    BY <1>2, <1>4, <1>5, <2>1, AddedReady
<1>7. /\ Normal(M) /\ Covered(M) = Covered(D) /\ DOMAIN M \subseteq DOMAIN D
      /\ \A k \in DOMAIN D : k <= previous => k \in DOMAIN M
  BY <1>6, LoopResult
<1> HIDE DEF M
<1>8. Covered(M) = Covered(map) \union first .. last
  BY <1>4, <1>7, AddedPoints DEF Normal
<1>9. previous \in DOMAIN M /\ previous \in Nat
  BY <1>1, <1>2, <1>5, <1>7
<1>10. /\ \A k \in DOMAIN M : k \in Nat /\ M[k] \in Nat
       /\ \A left, right \in DOMAIN M : left < right => M[left] + 1 < right
  BY <1>7, MaxPointAssumption DEF Normal, WellFormed, Apart
<1>11. PICK key \in DOMAIN M : first \in key .. M[key]
  <2>1. first \in Covered(M)
    BY <1>1, <1>8
  <2>2. QED
    BY <2>1, CoveredMember
\* The range of M that holds `first` begins at one of the two keys.
<1>12. key = first \/ key = previous
  <2>1. SUFFICES ASSUME key # first, key # previous PROVE FALSE
    OBVIOUS
  <2>2. key \in DOMAIN map /\ key < first
    BY <1>1, <1>4, <1>7, <1>10, <1>11, <2>1 DEF Added
  <2>3. key < previous
    BY <1>1, <1>2, <1>9, <1>10, <2>1, <2>2
  <2>4. M[key] + 1 < previous
    BY <1>9, <1>10, <2>3
  <2>5. QED
    BY <1>1, <1>2, <1>9, <1>10, <1>11, <2>4
<1>13. ASSUME NEW x \in Nat, previous <= x, x < first, x \in Covered(map)
       PROVE  x <= map[previous]
  <2>1. PICK k \in DOMAIN map : x \in k .. map[k]
    BY <1>13, CoveredMember
  <2>2. k <= previous
    BY <1>1, <1>2, <1>13, <2>1
  <2>3. k < previous => map[k] + 1 < previous
    BY <1>2, <2>1 DEF Normal, Apart
  <2>4. QED
    BY <1>1, <1>2, <1>9, <1>13, <2>1, <2>2, <2>3
<1>14. map[previous] \in Nat /\ previous <= map[previous]
  BY <1>1, <1>2
<1>15. key = it
  <2>1. CASE first - 1 <= map[previous]
    <3>1. it = previous
      <4>1. CanAbsorb(D, previous, first) \/ CanMerge(D, previous, first)
        BY <1>1, <1>2, <1>5, <1>9, <1>14, <2>1 DEF CanAbsorb, CanMerge
      <4>2. QED
        BY <4>1
    <3>2. key # first
      <4>1. SUFFICES ASSUME key = first PROVE FALSE
        OBVIOUS
      <4>2. first - 1 \in previous .. map[previous]
        BY <1>1, <1>2, <1>9, <1>14, <2>1
      <4>3. first - 1 \in Covered(M)
        BY <1>2, <1>8, <4>2, CoveredMember
      <4>4. QED
        BY <1>7, <4>1, <4>3, GapBelow
    <3>3. QED
      BY <1>12, <3>1, <3>2
  <2>2. CASE map[previous] < first - 1
    <3>1. it = first
      <4>1. ~ CanAbsorb(D, previous, first) /\ ~ CanMerge(D, previous, first)
        BY <1>1, <1>2, <1>5, <1>9, <1>14, <2>2 DEF CanAbsorb, CanMerge
      <4>2. QED
        BY <4>1
    <3>2. key # previous
      <4>1. SUFFICES ASSUME key = previous PROVE FALSE
        OBVIOUS
      <4>2. first - 1 \in key .. M[key] /\ first - 1 \in Nat
        BY <1>1, <1>2, <1>9, <1>10, <1>11, <4>1
      <4>3. first - 1 \in Covered(M)
        BY <4>2, CoveredMember
      <4>4. first - 1 \in Covered(map)
        BY <1>1, <1>8, <4>3
      <4>5. first - 1 <= map[previous]
        BY <1>1, <1>2, <1>9, <1>13, <4>2, <4>4
      <4>6. QED
        BY <1>1, <1>14, <2>2, <4>5
    <3>3. QED
      BY <1>12, <3>1, <3>2
  <2>3. QED
    BY <1>1, <1>14, <2>1, <2>2
<1>16. modified = ~ (first .. last \subseteq Covered(map))
  <2>1. CanAbsorb(D, previous, first) <=> last <= map[previous]
    BY <1>1, <1>2, <1>5, <1>9, <1>14 DEF CanAbsorb
  <2>2. ASSUME first .. last \subseteq Covered(map) PROVE last <= map[previous]
    <3>1. PICK k \in DOMAIN map : first \in k .. map[k]
      <4>1. first \in Covered(map)
        BY <1>1, <2>2
      <4>2. QED
        BY <4>1, CoveredMember
    <3>2. k = previous
      <4>1. k <= previous
        BY <1>1, <1>2, <3>1
      <4>2. k < previous => map[k] + 1 < previous
        BY <1>2 DEF Normal, Apart
      <4>3. QED
        BY <1>1, <1>2, <1>9, <3>1, <4>1, <4>2
    <3>3. last <= map[k]
      BY <1>1, <2>2, <3>1, WithoutGap
    <3>4. QED
      BY <3>2, <3>3
  <2>3. ASSUME last <= map[previous] PROVE first .. last \subseteq Covered(map)
    <3>1. \A x \in first .. last : x \in previous .. map[previous]
      BY <1>1, <1>2, <1>9, <1>14, <2>3
    <3>2. QED
      BY <1>2, <3>1, CoveredMember
  <2>4. CanAbsorb(D, previous, first) <=> first .. last \subseteq Covered(map)
    BY <2>1, <2>2, <2>3
  <2>5. QED
    BY <2>4
<1> HIDE DEF it, modified
<1>17. last \in it .. M[it]
  <2>1. first .. last \subseteq Covered(M)
    BY <1>8
  <2>2. QED
    BY <1>7, <1>11, <1>15, <2>1, HoldsBoth
<1>18. QED
  BY <1>3, <1>7, <1>8, <1>11, <1>15, <1>16, <1>17 DEF InsertRight

\* Whatever insert() finds, it is right.
LEMMA InsertIsRight ==
  ASSUME NEW map, Normal(map), NEW first \in 0 .. MaxPoint, NEW last \in first .. MaxPoint
  PROVE  InsertRight(map, first, last, InsertResult(map, first, last))
<1>1. CASE first \in DOMAIN map
  BY <1>1, InsertAtKeyRight DEF InsertResult
<1>2. CASE first \notin DOMAIN map
  BY <1>2, InsertSmallestRight, InsertBehindRight DEF InsertResult
<1>3. QED
  BY <1>1, <1>2
-------------------------------------------------------------------------------
(* The specification                                                       *)

\* erase() takes the points of one range away.
LEMMA EraseRight ==
  ASSUME NEW map, Normal(map), NEW key \in DOMAIN map
  PROVE  /\ Normal(WithoutKey(map, key))
         /\ Covered(WithoutKey(map, key)) = Covered(map) \ (key .. map[key])
<1> DEFINE M == WithoutKey(map, key)
<1>1. DOMAIN M = DOMAIN map \ {key} /\ \A k \in DOMAIN M : M[k] = map[k]
  BY DEF WithoutKey
<1> HIDE DEF M
<1>2. Normal(M)
  BY <1>1 DEF Normal, WellFormed, Apart
<1>3. ASSUME NEW x \in Covered(M) PROVE x \in Covered(map) \ (key .. map[key])
  <2>1. PICK k \in DOMAIN M : x \in k .. M[k]
    BY <1>3, CoveredMember
  <2>2. k \in DOMAIN map /\ k # key /\ x \in k .. map[k]
    BY <1>1, <2>1
  <2>3. x \notin key .. map[key]
    BY <2>2, InOneRange
  <2>4. QED
    BY <2>2, <2>3, CoveredMember
<1>4. ASSUME NEW x \in Covered(map), x \notin key .. map[key] PROVE x \in Covered(M)
  <2>1. PICK k \in DOMAIN map : x \in k .. map[k]
    BY <1>4, CoveredMember
  <2>2. k \in DOMAIN M /\ x \in k .. M[k]
    BY <1>1, <1>4, <2>1
  <2>3. QED
    BY <2>2, CoveredMember
<1>5. Covered(M) = Covered(map) \ (key .. map[key])
  BY <1>3, <1>4
<1>6. QED
  BY <1>2, <1>5 DEF M

\* The inductive invariant: no two ranges overlap or touch.  Without it insert() would
\* look at too few ranges, and erase() would leave points of another range.
IntervalInv ==
  /\ Normal(ranges)
  /\ result = NoResult \/ result.it \in DOMAIN ranges

LEMMA InitInv == Init => IntervalInv
<1>1. SUFFICES ASSUME Init PROVE IntervalInv
  OBVIOUS
<1>2. DOMAIN ranges = {} /\ result = NoResult
  BY <1>1 DEF Init
<1>3. QED
  BY <1>2 DEF IntervalInv, Normal, WellFormed, Apart

LEMMA InsertStep ==
  ASSUME IntervalInv, NEW first \in 0 .. MaxPoint, NEW last \in 0 .. MaxPoint,
         first <= last, Insert(first, last)
  PROVE  /\ Normal(ranges')
         /\ Covered(ranges') = Covered(ranges) \union first .. last
         /\ result'.it \in DOMAIN ranges' /\ result' # NoResult
         /\ first \in result'.it .. ranges'[result'.it]
         /\ last \in result'.it .. ranges'[result'.it]
         /\ result'.modified = ~ (first .. last \subseteq Covered(ranges))
<1> DEFINE outcome == InsertResult(ranges, first, last)
<1>1. last \in first .. MaxPoint
  OBVIOUS
<1>2. InsertRight(ranges, first, last, outcome)
  BY <1>1, InsertIsRight DEF IntervalInv
<1>3. /\ ranges' = outcome.map
      /\ result' = [it |-> outcome.it, modified |-> outcome.modified]
  BY DEF Insert
<1> HIDE DEF outcome
<1>4. result'.it = outcome.it /\ result'.modified = outcome.modified
  BY <1>3
<1>5. /\ Normal(ranges')
      /\ Covered(ranges') = Covered(ranges) \union first .. last
      /\ result'.it \in DOMAIN ranges'
      /\ first \in result'.it .. ranges'[result'.it]
      /\ last \in result'.it .. ranges'[result'.it]
      /\ result'.modified = ~ (first .. last \subseteq Covered(ranges))
  BY <1>2, <1>3, <1>4 DEF InsertRight
<1>6. result'.it # -1
  BY <1>5, MaxPointAssumption DEF Normal, WellFormed
<1>7. result' # NoResult
  BY <1>6 DEF NoResult
<1>8. QED
  BY <1>5, <1>7

LEMMA EraseStep ==
  ASSUME IntervalInv, NEW key \in DOMAIN ranges, Erase(key)
  PROVE  /\ Normal(ranges')
         /\ Covered(ranges') = Covered(ranges) \ (key .. ranges[key])
         /\ result' = NoResult
BY EraseRight DEF IntervalInv, Erase

LEMMA StepInv == IntervalInv /\ [Next]_vars => IntervalInv'
<1>1. SUFFICES ASSUME IntervalInv, [Next]_vars PROVE IntervalInv'
  OBVIOUS
<1>2. ASSUME NEW first \in 0 .. MaxPoint, NEW last \in 0 .. MaxPoint, first <= last,
             Insert(first, last)
      PROVE  IntervalInv'
  BY <1>1, <1>2, InsertStep DEF IntervalInv
<1>3. ASSUME NEW key \in DOMAIN ranges, Erase(key) PROVE IntervalInv'
  BY <1>1, <1>3, EraseStep DEF IntervalInv
<1>4. CASE UNCHANGED vars
  BY <1>1, <1>4 DEF IntervalInv, vars
<1>5. QED
  BY <1>1, <1>2, <1>3, <1>4 DEF Next

LEMMA InvNormalForm == IntervalInv => NormalForm
<1>1. SUFFICES ASSUME IntervalInv PROVE NormalForm
  OBVIOUS
<1>2. Count(ranges) = Cardinality(Covered(ranges))
  BY <1>1, CountIsCardinality DEF IntervalInv
<1>3. QED
  BY <1>1, <1>2 DEF IntervalInv, Normal, WellFormed, Apart, NormalForm, TypeOK

\* After any sequence of inserts and erases, of any length and over any number of
\* points, no two ranges of the map overlap or touch, count() tells how many points
\* they have, and the iterator that the last insert() returned is one of the map.
THEOREM NormalFormAlways == Spec => []NormalForm
<1>1. Spec => []IntervalInv
  BY InitInv, StepInv, PTL DEF Spec
<1>2. QED
  BY <1>1, InvNormalForm, PTL

\* An insert() is an Insert of the points asked for.
LEMMA InsertImplements ==
  ASSUME IntervalInv, NEW first \in 0 .. MaxPoint, NEW last \in 0 .. MaxPoint,
         first <= last, Insert(first, last)
  PROVE  Points!Insert(first, last)
<1>1. /\ Normal(ranges')
      /\ Covered(ranges') = Covered(ranges) \union first .. last
      /\ result'.it \in DOMAIN ranges' /\ result' # NoResult
      /\ first \in result'.it .. ranges'[result'.it]
      /\ last \in result'.it .. ranges'[result'.it]
      /\ result'.modified = ~ (first .. last \subseteq Covered(ranges))
  BY InsertStep
<1>2. /\ Points!RunFirst(Covered(ranges'), first) = result'.it
      /\ Points!RunLast(Covered(ranges'), last) = ranges'[result'.it]
  <2>1. PICK map, key : map = ranges' /\ key = result'.it
    OBVIOUS
  <2>2. /\ Points!RunFirst(Covered(map), first) = key
        /\ Points!RunLast(Covered(map), last) = map[key]
    BY <1>1, <2>1, RangeIsRun
  <2>3. QED
    BY <2>1, <2>2
<1>3. QED
  BY <1>1, <1>2 DEF Points!Insert

\* An erase() of a range is the Erase of its first point.
LEMMA EraseImplements ==
  ASSUME IntervalInv, NEW key \in DOMAIN ranges, Erase(key)
  PROVE  \E point \in Covered(ranges) : Points!Erase(point)
<1>1. Covered(ranges') = Covered(ranges) \ (key .. ranges[key]) /\ result' = NoResult
  BY EraseStep
<1>2. key \in key .. ranges[key]
  BY MaxPointAssumption DEF IntervalInv, Normal, WellFormed
<1>3. key \in Covered(ranges)
  BY <1>2, CoveredMember
<1>4. Points!Run(Covered(ranges), key) = key .. ranges[key]
  BY <1>2, RangeIsRun DEF IntervalInv, Points!Run
<1>5. Points!Erase(key)
  BY <1>1, <1>4 DEF Points!Erase, Points!NoAnswer
<1>6. QED
  BY <1>3, <1>5

LEMMA StepImplements == IntervalInv /\ [Next]_vars => [Points!Next]_(Points!pointVars)
<1>1. SUFFICES ASSUME IntervalInv, [Next]_vars
               PROVE  Points!Next \/ UNCHANGED Points!pointVars
  OBVIOUS
<1>2. ASSUME NEW first \in 0 .. MaxPoint, NEW last \in 0 .. MaxPoint, first <= last,
             Insert(first, last)
      PROVE  Points!Next
  BY <1>1, <1>2, InsertImplements DEF Points!Next
<1>3. ASSUME NEW key \in DOMAIN ranges, Erase(key) PROVE Points!Next
  BY <1>1, <1>3, EraseImplements DEF Points!Next
<1>4. CASE UNCHANGED vars
  BY <1>4 DEF vars, Points!pointVars
<1>5. QED
  BY <1>1, <1>2, <1>3, <1>4 DEF Next

\* IntervalSet implements PointSet: insert() adds exactly the points asked for, its
\* iterator is the maximal run that holds them, and its flag tells whether one is new;
\* erase() takes one maximal run away.
THEOREM IntervalSetImplementsPointSet == Spec => ImplementsPointSet
<1>1. Init => Points!Init
  <2>1. SUFFICES ASSUME Init PROVE Points!Init
    OBVIOUS
  <2>2. Covered(ranges) = {} /\ result = NoResult
    BY <2>1 DEF Init, Covered
  <2>3. QED
    BY <2>2 DEF Points!Init, Points!NoAnswer
<1>2. Spec => []IntervalInv
  BY InitInv, StepInv, PTL DEF Spec
<1>3. QED
  BY <1>1, <1>2, StepImplements, PTL DEF Spec, ImplementsPointSet, Points!Spec
===============================================================================
