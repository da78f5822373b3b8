------------------------- MODULE InputGenerationProofs -------------------------
(***************************************************************************)
(* Theorems about generated inputs: the arithmetic of the Tier 0 floor for *)
(* all domains, limits and counts, and what requests keep while the        *)
(* definition is published again.                                          *)
(***************************************************************************)
EXTENDS InputGeneration, FiniteSetTheorems, WellFoundedInduction, TLAPS

------------------------------------------------------------------------------
(* Numbers                                                                    *)

Positive == Nat \ {0}

(* Rounding gives an integer.                                                 *)
LEMMA NearestIsInt ==
    ASSUME NEW num \in Int, NEW den \in Positive, NEW up
    PROVE  Nearest(num, den, up) \in Int
<1> DEFINE q == num \div den
<1>1. q \in Int
    BY DEF Positive
<1> QED
    BY <1>1 DEF Nearest

(* A whole number of steps leaves no rest.                                    *)
LEMMA WholeSteps ==
    ASSUME NEW k \in Int, NEW step \in Positive
    PROVE  (k * step) % step = 0
    BY SMTT(30) DEF Positive

(* No rest means a whole number of steps.                                     *)
LEMMA StepsWhole ==
    ASSUME NEW n \in Int, NEW step \in Positive, n % step = 0
    PROVE  \E k \in Int : n = k * step
<1>1. n \div step \in Int /\ n = (n \div step) * step
    BY SMTT(30) DEF Positive
<1> QED
    BY <1>1

(* A quotient without a rest is not rounded.                                  *)
LEMMA NearestWhole ==
    ASSUME NEW k \in Int, NEW den \in Positive, NEW up
    PROVE  Nearest(k * den, den, up) = k
<1>1. (k * den) % den = 0
    BY WholeSteps
<1>2. (k * den) \div den = k
    BY SMTT(30) DEF Positive
<1>3. 2 * ((k * den) % den) < den
    BY <1>1 DEF Positive
<1> QED
    BY <1>2, <1>3 DEF Nearest

(* Rounding does not leave whole bounds.                                      *)
LEMMA NearestWithin ==
    ASSUME NEW num \in Int, NEW den \in Positive, NEW up, NEW a \in Int, NEW b \in Int,
           a * den <= num, num <= b * den
    PROVE  a <= Nearest(num, den, up) /\ Nearest(num, den, up) <= b
<1> DEFINE q == num \div den
           r == num % den
<1>1. q \in Int /\ r \in Int /\ 0 <= r /\ r < den
    BY DEF Positive
<1>2. num = q * den + r
    BY SMTT(30) DEF Positive
<1> HIDE DEF q, r
<1>3. a <= q /\ q <= b
    BY <1>1, <1>2, SMTT(30) DEF Positive
<1>4. r > 0 => q + 1 <= b
    BY <1>1, <1>2, <1>3, SMTT(30) DEF Positive
<1>5. Nearest(num, den, up) = q \/ (Nearest(num, den, up) = q + 1 /\ 2 * r >= den)
    BY <1>1 DEF Nearest, q, r, Positive
<1> QED
    BY <1>1, <1>3, <1>4, <1>5 DEF Positive

(* A set of numbers has a least one.                                          *)
LEMMA LeastNumber ==
    ASSUME NEW S, S \subseteq Nat, S # {}
    PROVE  \E n \in S : \A m \in S : ~(m < n)
<1>1. PICK n \in S : \A m \in S : <<m, n>> \notin OpToRel(<, Nat)
    BY NatLessThanWellFounded, WFMin
<1> QED
    BY <1>1 DEF OpToRel

------------------------------------------------------------------------------
(* The sampler                                                                *)

(* A step has its places (_decimals_for_step).                                *)
LEMMA GrainIsPlace ==
    ASSUME NEW step \in Positive
    PROVE  Grain(step) \in Positive
<1> DEFINE shown == {g \in Grains : step % g = 0}
<1>1. Grains \subseteq Positive /\ Grains \subseteq Nat
    BY UnitAssumption DEF Positive
<1>2. Min(Grains) \in Grains
    <2>1. PICK n \in Grains : \A m \in Grains : ~(m < n)
        BY <1>1, UnitAssumption, LeastNumber
    <2>2. \A m \in Grains : n <= m
        BY <1>1, <2>1
    <2> QED
        BY <2>2 DEF Min
<1>3. ASSUME shown # {} PROVE Max(shown) \in shown
    <2>1. \A g \in shown : g \in Positive /\ g <= step
        <3> SUFFICES ASSUME NEW g \in shown PROVE g \in Positive /\ g <= step
            OBVIOUS
        <3>1. g \in Positive /\ step % g = 0
            BY <1>1
        <3>2. step < g => step % g = step
            BY <3>1, SMTT(30) DEF Positive
        <3> QED
            BY <3>1, <3>2 DEF Positive
    <2> HIDE DEF shown
    <2> DEFINE rest == {step - g : g \in shown}
    <2>2. rest \subseteq Nat /\ rest # {}
        BY <1>3, <2>1 DEF Positive
    <2>3. PICK n \in rest : \A m \in rest : ~(m < n)
        BY <2>2, LeastNumber
    <2>4. PICK g \in shown : n = step - g
        BY <2>3
    <2>5. ASSUME NEW f \in shown PROVE f <= g
        <3>1. step - f \in rest
            OBVIOUS
        <3>2. ~(step - f < n)
            BY <2>3, <3>1
        <3>3. step \in Int /\ f \in Int /\ g \in Int
            BY <2>1 DEF Positive
        <3> QED
            BY <2>4, <3>2, <3>3
    <2> QED
        BY <2>5 DEF Max
<1>4. Grain(step) \in {Min(Grains)} \/ (shown # {} /\ Grain(step) = Max(shown))
    BY DEF Grain
<1> QED
    BY <1>1, <1>2, <1>3, <1>4

(* What has no more places is not rounded.                                    *)
LEMMA RoundedExact ==
    ASSUME NEW n \in Int, NEW g \in Positive, n % g = 0
    PROVE  Rounded(n, g) = n
<1>1. PICK k \in Int : n = k * g
    BY StepsWhole
<1> QED
    BY <1>1, NearestWhole DEF Rounded

(* A whole number of steps above a lower bound has no more places than both.  *)
LEMMA StepsHavePlaces ==
    ASSUME NEW lo \in Int, NEW step \in Int, NEW g \in Positive, NEW k \in Int,
           lo % g = 0, step % g = 0
    PROVE  (lo + k * step) % g = 0
<1>1. PICK a \in Int : lo = a * g
    BY StepsWhole
<1>2. PICK b \in Int : step = b * g
    BY StepsWhole
<1>3. lo + k * step = (a + k * b) * g
    BY <1>1, <1>2, SMTT(30) DEF Positive
<1>4. k * b \in Int
    OBVIOUS
<1>5. a + k * b \in Int
    BY <1>4
<1> HIDE DEF Positive
<1> DEFINE m == a + k * b
<1>6. (m * g) % g = 0
    BY <1>5, WholeSteps
<1> QED
    BY <1>3, <1>6

(* step_align gives a number.                                                 *)
LEMMA AlignedIsInt ==
    ASSUME NEW num \in Int, NEW den \in Positive, NEW lo \in Int, NEW step \in Nat
    PROVE  Aligned(num, den, lo, step) \in Int
<1>1. CASE step = 0
    <2>1. lo * den + num \in Int
        BY DEF Positive
    <2> QED
        BY <1>1, <2>1, NearestIsInt DEF Aligned
<1>2. CASE step # 0
    <2> DEFINE k == Nearest(num, den * step, IndexUp)
               n == lo + k * step
    <2>1. den * step \in Positive /\ Grain(step) \in Positive
        BY <1>2, GrainIsPlace DEF Positive
    <2>2. k \in Int
        BY <2>1, NearestIsInt
    <2> HIDE DEF k
    <2>3. n \in Int
        BY <2>2
    <2>4. Aligned(num, den, lo, step) = Nearest(n, Grain(step), PlacesUp) * Grain(step)
        BY <1>2 DEF Aligned, Rounded, k
    <2> HIDE DEF n
    <2>5. Nearest(n, Grain(step), PlacesUp) \in Int
        BY <2>1, <2>3, NearestIsInt
    <2> QED
        BY <2>1, <2>4, <2>5 DEF Positive
<1> QED
    BY <1>1, <1>2

OnTheGrid(n, r) == r.step = 0 \/ \E k \in Int : n = r.lo + k * r.step

(* Where the lower bound and the step have the places step_align keeps, what  *)
(* it returns is the whole number of steps it rounded to.                     *)
LEMMA AlignedExact ==
    ASSUME NEW num \in Int, NEW den \in Positive, NEW r \in Rows, OnGrid(r), r.step # 0
    PROVE  LET k == Nearest(num, den * r.step, IndexUp)
           IN  k \in Int /\ Aligned(num, den, r.lo, r.step) = r.lo + k * r.step
<1> DEFINE k == Nearest(num, den * r.step, IndexUp)
<1>1. r.lo \in Int /\ r.step \in Positive /\ r.step \in Int
    BY DEF Rows, Positive
<1>2. den * r.step \in Positive /\ Grain(r.step) \in Positive
    BY <1>1, GrainIsPlace DEF Positive
<1>3. k \in Int
    BY <1>2, NearestIsInt
<1> HIDE DEF k
<1>4. (r.lo + k * r.step) % Grain(r.step) = 0
    BY <1>1, <1>2, <1>3, StepsHavePlaces DEF OnGrid
<1>5. r.lo + k * r.step \in Int
    BY <1>1, <1>3
<1>6. Rounded(r.lo + k * r.step, Grain(r.step)) = r.lo + k * r.step
    BY <1>2, <1>4, <1>5, RoundedExact
<1> QED
    BY <1>3, <1>6 DEF Aligned, k

(* Clipping keeps a value on the grid, since both ends of the domain are on   *)
(* it.                                                                        *)
LEMMA ClippedOnGrid ==
    ASSUME NEW r \in Rows, InOrder(r), OnGrid(r), NEW n \in Int, OnTheGrid(n, r)
    PROVE  r.step # 0 => \E k \in Int : Clip(n, r) = r.lo + k * r.step
<1>1. r.lo \in Int /\ r.hi \in Int /\ r.step \in Nat
    BY DEF Rows
<1> SUFFICES ASSUME r.step # 0 PROVE \E k \in Int : Clip(n, r) = r.lo + k * r.step
    OBVIOUS
<1>2. r.step \in Positive
    BY <1>1 DEF Positive
<1>3. Clip(n, r) \in {r.lo, r.hi, n}
    BY DEF Clip
<1>4. CASE Clip(n, r) = r.lo
    <2>1. r.lo = r.lo + 0 * r.step
        BY <1>1
    <2> QED
        BY <1>4, <2>1
<1>5. CASE Clip(n, r) = r.hi
    <2>1. PICK k \in Int : r.hi - r.lo = k * r.step
        <3>1. r.hi - r.lo \in Int /\ (r.hi - r.lo) % r.step = 0
            BY <1>1 DEF OnGrid
        <3> QED
            BY <1>2, <3>1, StepsWhole
    <2>2. PICK m : m = k * r.step
        OBVIOUS
    <2>3. r.hi = r.lo + m
        BY <1>1, <2>1, <2>2
    <2> QED
        BY <1>5, <2>2, <2>3
<1>6. CASE Clip(n, r) = n
    BY <1>6 DEF OnTheGrid
<1> QED
    BY <1>3, <1>4, <1>5, <1>6

(* What Tier 0 owes the domain of a number, spelled out.                      *)
LEMMA NumberAssured ==
    ASSUME NEW r, r.type \in {"Number", "Integer"}, NEW n \in Int,
           r.type = "Integer" => n % One = 0,
           r.type = "Number" \/ OnGrid(r) => r.lo <= n /\ n <= r.hi,
           OnGrid(r) /\ r.step # 0 => (n - r.lo) % r.step = 0
    PROVE  Assured(Number(n), r)
<1>1. Number(n).kind = "number" /\ Number(n).n = n
    BY DEF Number
<1>2. r.type # "Boolean"
    OBVIOUS
<1>3. CASE OnGrid(r)
    <2>1. Fits(Number(n), r)
        BY <1>1, <1>2, <1>3 DEF Fits
    <2> QED
        BY <1>3, <2>1 DEF Assured
<1>4. CASE ~OnGrid(r)
    BY <1>1, <1>2, <1>4 DEF Assured
<1> QED
    BY <1>3, <1>4

(* What is aligned, clipped and, for an Integer, rounded once more is all that *)
(* Tier 0 owes its domain; s is the step it was aligned to.                    *)
LEMMA AlignedAssured ==
    ASSUME NEW r \in Rows, InOrder(r), r.type # "Boolean", NEW s \in Nat, r.step # 0 => s = r.step,
           NEW num \in Int, NEW den \in Positive
    PROVE  LET w == Whole(Clip(Aligned(num, den, r.lo, s), r), r)
           IN  w \in Int /\ Assured(Number(w), r)
<1> DEFINE n == Aligned(num, den, r.lo, s)
           c == Clip(n, r)
           w == Whole(c, r)
<1> SUFFICES w \in Int /\ Assured(Number(w), r)
    OBVIOUS
<1>1. /\ r.lo \in Int /\ r.hi \in Int /\ r.step \in Nat /\ r.lo <= r.hi
      /\ r.type \in {"Number", "Integer"} /\ One \in Positive
    BY UnitAssumption DEF Rows, Type, InOrder, Positive
<1>2. n \in Int
    BY <1>1, AlignedIsInt
<1>3. OnGrid(r) => OnTheGrid(n, r)
    <2> SUFFICES ASSUME OnGrid(r), r.step # 0 PROVE \E k \in Int : n = r.lo + k * r.step
        BY DEF OnTheGrid
    <2> QED
        BY AlignedExact
<1> HIDE DEF n
<1>4. c \in Int /\ r.lo <= c /\ c <= r.hi
    BY <1>1, <1>2 DEF Clip
<1>5. OnGrid(r) /\ r.step # 0 => \E k \in Int : c = r.lo + k * r.step
    BY <1>2, <1>3, ClippedOnGrid
<1> HIDE DEF c
<1>6. ASSUME OnGrid(r), r.step # 0 PROVE (c - r.lo) % r.step = 0
    <2>1. PICK k \in Int : c = r.lo + k * r.step
        BY <1>5, <1>6
    <2>2. PICK m : m = k * r.step
        OBVIOUS
    <2>3. m \in Int /\ c - r.lo = m
        BY <1>1, <2>1, <2>2
    <2>4. r.step \in Positive
        BY <1>1, <1>6 DEF Positive
    <2> QED
        BY <2>2, <2>3, <2>4, WholeSteps
<1>7. CASE r.type = "Number"
    <2>1. w = c
        BY <1>7 DEF Whole
    <2> QED
        BY <1>4, <1>6, <1>7, <2>1, NumberAssured
<1>8. CASE r.type = "Integer"
    <2> DEFINE q == Nearest(c, One, PlacesUp)
    <2>1. q \in Int /\ w = q * One
        BY <1>1, <1>4, <1>8, NearestIsInt DEF Whole, Rounded
    <2> HIDE DEF q
    <2>2. w \in Int /\ w % One = 0
        BY <1>1, <2>1, WholeSteps DEF Positive
    <2>3. CASE ~OnGrid(r)
        BY <1>8, <2>2, <2>3, NumberAssured
    <2>4. CASE OnGrid(r) /\ r.step # 0
        <3>1. PICK k \in Int : c = r.lo + k * r.step
            BY <1>5, <2>4
        <3>2. r.lo % One = 0 /\ r.step % One = 0 /\ r.step \in Int
            BY <1>1, <1>8, <2>4 DEF OnGrid
        <3>3. (r.lo + k * r.step) % One = 0
            BY <1>1, <3>2, StepsHavePlaces
        <3>4. w = c
            BY <1>1, <1>4, <1>8, <3>1, <3>3, RoundedExact DEF Whole
        <3> QED
            BY <1>4, <1>6, <1>8, <2>2, <2>4, <3>4, NumberAssured
    <2>5. CASE OnGrid(r) /\ r.step = 0
        <3>1. r.lo % One = 0 /\ r.hi % One = 0
            BY <1>8, <2>5 DEF OnGrid
        <3>2. PICK a \in Int : r.lo = a * One
            BY <1>1, <3>1, StepsWhole
        <3>3. PICK b \in Int : r.hi = b * One
            BY <1>1, <3>1, StepsWhole
        <3>4. a <= q /\ q <= b
            BY <1>1, <1>4, <3>2, <3>3, NearestWithin DEF q
        <3>5. a * One <= q * One /\ q * One <= b * One
            BY <1>1, <2>1, <3>4, SMTT(30) DEF Positive
        <3>6. r.lo <= w /\ w <= r.hi
            BY <2>1, <3>2, <3>3, <3>5
        <3> QED
            BY <1>8, <2>2, <2>5, <3>6, NumberAssured
    <2> QED
        BY <2>3, <2>4, <2>5
<1> QED
    BY <1>1, <1>7, <1>8

(* Every strategy aims at a fraction with a positive denominator.             *)
LEMMA AimIsFraction ==
    ASSUME NEW strategy \in Range(Strategies), NEW bound, IsFiniteSet(bound),
           NEW r \in Rows, r \in bound, NEW limit \in Limit
    PROVE  LET aim == Aim(strategy, r, bound, limit)
           IN  aim[1] \in Int /\ aim[2] \in Positive
<1>1. r.lo \in Int /\ r.hi \in Int /\ limit.value \in Int
    BY DEF Rows, Limit
<1>2. strategy \in {"conservative", "balanced", "exploratory", "near-limit"}
    BY DEF Strategies, Range
<1>3. CASE strategy = "conservative"
    BY <1>1, <1>3 DEF Aim, Conservative, Positive
<1>4. CASE strategy = "balanced"
    BY <1>1, <1>4 DEF Aim, Balanced, Positive
<1>5. CASE strategy = "exploratory"
    <2>1. Cardinality(bound) \in Nat /\ Cardinality(bound) # 0
        BY FS_CardinalityType, FS_EmptySet
    <2>2. Index(r, bound) \in Nat
        BY FS_Subset, FS_CardinalityType DEF Index
    <2>3. (2 * Index(r, bound) + 1) * (r.hi - r.lo) \in Int
        BY <1>1, <2>2
    <2>4. Aim(strategy, r, bound, limit)
              = <<(2 * Index(r, bound) + 1) * (r.hi - r.lo), 2 * Cardinality(bound)>>
        BY <1>5 DEF Aim, Exploratory
    <2> QED
        BY <2>1, <2>3, <2>4 DEF Positive
<1>6. CASE strategy = "near-limit"
    BY <1>1, <1>6 DEF Aim, NearLimit, Clip, Positive
<1> QED
    BY <1>2, <1>3, <1>4, <1>5, <1>6

------------------------------------------------------------------------------
(* Of the rows with one id, one is the last                                   *)

(* Before is a strict order.                                                  *)
LEMMA BeforeIsOrder ==
    ASSUME NEW r \in Rows, NEW s \in Rows, NEW t \in Rows
    PROVE  /\ ~Before(r, r)
           /\ Before(r, s) /\ Before(s, t) => Before(r, t)
<1>1. \A x \in Rows : x.name \in Nat /\ x.cg \in Nat
    BY ParameterAssumption DEF Rows
<1> QED
    BY <1>1 DEF Before

(* RowOf chooses a row: however the names are ordered, a bound id has a last  *)
(* row.                                                                       *)
LEMMA RowOfBound ==
    ASSUME NEW bound, bound \subseteq Rows, IsFiniteSet(bound), NEW id \in Ids(bound)
    PROVE  RowOf(id, bound) \in bound /\ RowOf(id, bound).id = id
<1> DEFINE Same == {r \in bound : r.id = id}
           After(r) == {s \in bound : Before(r, s)}
           Numbers == {Cardinality(After(r)) : r \in Same}
<1>1. \A r \in bound : IsFiniteSet(After(r)) /\ Cardinality(After(r)) \in Nat
    BY FS_Subset, FS_CardinalityType
<1>2. Same # {} /\ Same \subseteq bound
    BY DEF Ids
<1>3. Numbers \subseteq Nat /\ Numbers # {}
    BY <1>1, <1>2
<1>4. PICK n \in Numbers : \A m \in Numbers : ~(m < n)
    BY <1>3, LeastNumber
<1>5. PICK r \in Same : n = Cardinality(After(r))
    BY <1>4
<1>6. ASSUME NEW s \in Same, Before(r, s) PROVE FALSE
    <2>1. After(s) \subseteq After(r)
        BY <1>6, <1>2, BeforeIsOrder
    <2>2. s \in After(r) /\ s \notin After(s)
        BY <1>6, <1>2, BeforeIsOrder
    <2>3. /\ IsFiniteSet(After(r)) /\ After(s) \in SUBSET After(r) /\ After(s) # After(r)
          /\ Cardinality(After(r)) \in Nat /\ Cardinality(After(s)) \in Nat
        BY <1>1, <1>2, <2>1, <2>2
    <2> HIDE DEF After
    <2>4. Cardinality(After(s)) < Cardinality(After(r))
        BY <2>3, FS_Subset
    <2> QED
        BY <2>4, <1>4, <1>5
<1>7. r \in bound /\ r.id = id /\ \A s \in bound : s.id = id => ~Before(r, s)
    BY <1>5, <1>6
<1> QED
    BY <1>7 DEF RowOf

------------------------------------------------------------------------------
(* The floor                                                                  *)

(* What the sampler is given: rows that are eligible, finitely many.          *)
Bound(bound) ==
    /\ bound \subseteq Rows /\ IsFiniteSet(bound)
    /\ \A r \in bound : InOrder(r)

(* A truth value is all that a Boolean asks for.                              *)
LEMMA TruthAssured ==
    ASSUME NEW r, r.type = "Boolean", NEW b \in BOOLEAN
    PROVE  Truth(b) \in Value /\ Assured(Truth(b), r)
BY DEF Truth, Assured, Fits, Value

(* sample_tier0, one parameter.                                               *)
LEMMA SampleAssured ==
    ASSUME NEW bound, Bound(bound), NEW r \in bound, NEW limit \in Limit,
           NEW strategy \in Range(Strategies)
    PROVE  /\ Sample(strategy, r, bound, limit) \in Value
           /\ Assured(Sample(strategy, r, bound, limit), r)
<1>1. r \in Rows /\ InOrder(r) /\ IsFiniteSet(bound) /\ r.step \in Nat
    BY DEF Bound, Rows
<1>2. CASE r.type = "Boolean"
    <2>1. PICK b \in BOOLEAN : b <=> strategy \in {"exploratory", "near-limit"}
        OBVIOUS
    <2>2. Sample(strategy, r, bound, limit) = Truth(b)
        BY <1>2, <2>1 DEF Sample, Truth
    <2> QED
        BY <1>2, <2>2, TruthAssured
<1>3. CASE r.type # "Boolean"
    <2> DEFINE aim == Aim(strategy, r, bound, limit)
               w == Whole(Clip(Aligned(aim[1], aim[2], r.lo, r.step), r), r)
    <2>1. aim[1] \in Int /\ aim[2] \in Positive
        BY <1>1, AimIsFraction
    <2>2. w \in Int /\ Assured(Number(w), r)
        BY <1>1, <1>3, <2>1, AlignedAssured
    <2>3. Sample(strategy, r, bound, limit) = Number(w)
        BY <1>3 DEF Sample
    <2> QED
        BY <2>2, <2>3 DEF Number, Value
<1> QED
    BY <1>2, <1>3

(* _perturb, one parameter: a shifted value is aligned and clipped like it.   *)
LEMMA PerturbedAssured ==
    ASSUME NEW r \in Rows, InOrder(r), NEW v \in Value, Assured(v, r), NEW cycle \in Nat
    PROVE  Perturbed(v, r, cycle) \in Value /\ Assured(Perturbed(v, r, cycle), r)
<1>1. CASE r.type = "Boolean"
    BY <1>1 DEF Perturbed
<1>2. CASE r.type # "Boolean"
    <2>1. r.lo \in Int /\ r.hi \in Int /\ r.step \in Nat /\ r.lo <= r.hi /\ v.n \in Int
        BY DEF Rows, InOrder, Value
    <2> DEFINE s == Shift(r)
               num == v.n - r.lo + cycle * s
               w == Whole(Clip(Aligned(num, 1, r.lo, s), r), r)
    <2>2. s \in Nat /\ (r.step # 0 => s = r.step)
        BY <2>1, UnitAssumption DEF Shift
    <2>3. Perturbed(v, r, cycle) = Number(w)
        BY <1>2 DEF Perturbed
    <2> HIDE DEF s
    <2>4. num \in Int /\ 1 \in Positive
        BY <2>1, <2>2 DEF Positive
    <2> HIDE DEF num
    <2>5. w \in Int /\ Assured(Number(w), r)
        BY <1>2, <2>2, <2>4, AlignedAssured
    <2> QED
        BY <2>3, <2>5 DEF Number, Value
<1> QED
    BY <1>1, <1>2

(* The four strategies are strategies.                                        *)
LEMMA StrategyNames ==
    \A k \in 1 .. 4 : Strategies[k] \in Strategy /\ Strategies[k] \in Range(Strategies)
<1> SUFFICES ASSUME NEW k \in 1 .. 4
             PROVE  Strategies[k] \in Strategy /\ Strategies[k] \in Range(Strategies)
    OBVIOUS
<1>1. k = 1 \/ k = 2 \/ k = 3 \/ k = 4
    OBVIOUS
<1>2. k \in DOMAIN Strategies
    BY <1>1 DEF Strategies
<1>3. Strategies[k] \in Range(Strategies)
    BY <1>2 DEF Range
<1> QED
    BY <1>3 DEF Strategy

(* sample_candidate_set: every candidate of the floor is a whole assignment,  *)
(* and a valid one where the domains are on their grids.                      *)
THEOREM FloorIsAssured ==
    ASSUME NEW bound, Bound(bound), NEW limit \in Limit, NEW i \in Positive
    PROVE  /\ Tier0(bound, limit, i) \in Candidates
           /\ AllAssured(Tier0(bound, limit, i).values, bound)
           /\ (\A r \in bound : OnGrid(r)) => Valid(Tier0(bound, limit, i).values, bound)
<1> DEFINE strategy == Strategies[((i - 1) % 4) + 1]
           cycle == (i - 1) \div 4
           values == Tier0(bound, limit, i).values
           value(id) == LET v == Sample(strategy, RowOf(id, bound), bound, limit)
                        IN  IF id \notin Ids(bound) THEN Absent
                            ELSE IF cycle = 0 THEN v ELSE Perturbed(v, RowOf(id, bound), cycle)
<1>1. strategy \in Range(Strategies) /\ strategy \in Strategy /\ cycle \in Nat
    <2>1. ((i - 1) % 4) + 1 \in 1 .. 4 /\ cycle \in Nat
        BY DEF Positive
    <2> QED
        BY <2>1, StrategyNames
<1>2. Tier0(bound, limit, i).strategy = strategy
    BY DEF Tier0
<1>3. ASSUME NEW id \in Ids(bound)
      PROVE  values[id] \in Value /\ Assured(values[id], RowOf(id, bound))
    <2> DEFINE r == RowOf(id, bound)
               v == Sample(strategy, r, bound, limit)
    <2>1. r \in bound /\ r \in Rows /\ InOrder(r) /\ id \in Id
        BY RowOfBound DEF Bound, Ids, Rows
    <2>2. v \in Value /\ Assured(v, r)
        BY <1>1, <2>1, SampleAssured
    <2>3. values[id] = IF cycle = 0 THEN v ELSE Perturbed(v, r, cycle)
        BY <2>1 DEF Tier0
    <2> QED
        BY <1>1, <2>1, <2>2, <2>3, PerturbedAssured
<1>4. ASSUME NEW id \in Id, id \notin Ids(bound) PROVE values[id] = Absent /\ Absent \in Value
    BY <1>4 DEF Tier0, Absent, Value
<1>5. values \in Assignments
    <2>1. values = [id \in Id |-> value(id)]
        BY DEF Tier0
    <2>2. \A id \in Id : values[id] \in Value
        BY <1>3, <1>4
    <2> HIDE DEF value
    <2> QED
        BY <2>1, <2>2 DEF Assignments
<1>6. AllAssured(values, bound)
    BY <1>3, <1>4 DEF AllAssured
<1>7. ASSUME \A r \in bound : OnGrid(r) PROVE Valid(values, bound)
    <2>1. \A id \in Ids(bound) : RowOf(id, bound) \in bound
        BY RowOfBound DEF Bound
    <2> HIDE DEF values
    <2> QED
        BY <1>6, <1>7, <2>1 DEF AllAssured, Valid, Assured
<1>8. Tier0(bound, limit, i) = [strategy |-> strategy, values |-> values]
    BY DEF Tier0
<1> QED
    BY <1>1, <1>5, <1>6, <1>7, <1>8 DEF Candidates

(* Both ends of a domain on its grid are aligned and rounded already.         *)
LEMMA EndsAligned ==
    ASSUME NEW r \in Rows, InOrder(r), OnGrid(r), r.type # "Boolean"
    PROVE  /\ Whole(Clip(Aligned(0, 1, r.lo, r.step), r), r) = r.lo
           /\ Whole(Clip(Aligned(r.hi - r.lo, 1, r.lo, r.step), r), r) = r.hi
<1>1. r.lo \in Int /\ r.hi \in Int /\ r.step \in Nat /\ r.lo <= r.hi /\ One \in Positive
    BY UnitAssumption DEF Rows, InOrder, Positive
<1>2. Aligned(0, 1, r.lo, r.step) = r.lo /\ Aligned(r.hi - r.lo, 1, r.lo, r.step) = r.hi
    <2>1. CASE r.step = 0
        <3>1. /\ r.lo * 1 + 0 = r.lo * 1 /\ r.lo * 1 + (r.hi - r.lo) = r.hi * 1
              /\ 1 \in Positive
            BY <1>1 DEF Positive
        <3>2. Nearest(r.lo * 1, 1, PlacesUp) = r.lo /\ Nearest(r.hi * 1, 1, PlacesUp) = r.hi
            BY <1>1, <3>1, NearestWhole
        <3> QED
            BY <2>1, <3>1, <3>2 DEF Aligned
    <2>2. CASE r.step # 0
        <3>1. /\ r.step \in Positive /\ 1 * r.step = r.step /\ 1 \in Positive
              /\ 0 = 0 * r.step /\ r.hi - r.lo \in Int
            BY <1>1, <2>2 DEF Positive
        <3>2. PICK k \in Int : r.hi - r.lo = k * r.step
            BY <2>2, <3>1, StepsWhole DEF OnGrid
        <3>3. /\ Nearest(0, 1 * r.step, IndexUp) = 0
              /\ Nearest(r.hi - r.lo, 1 * r.step, IndexUp) = k
            BY <3>1, <3>2, NearestWhole
        <3>4. /\ Aligned(0, 1, r.lo, r.step) = r.lo + 0 * r.step
              /\ Aligned(r.hi - r.lo, 1, r.lo, r.step) = r.lo + k * r.step
            BY <2>2, <3>1, <3>3, AlignedExact
        <3>5. r.lo + 0 * r.step = r.lo /\ r.lo + k * r.step = r.hi
            <4> PICK m : m = k * r.step
                OBVIOUS
            <4>1. m = r.hi - r.lo
                BY <3>2
            <4>2. r.lo + m = r.hi
                BY <1>1, <4>1
            <4> QED
                BY <1>1, <3>1, <4>2
        <3> QED
            BY <3>4, <3>5
    <2> QED
        BY <2>1, <2>2
<1>3. Clip(r.lo, r) = r.lo /\ Clip(r.hi, r) = r.hi
    BY <1>1 DEF Clip
<1>4. Whole(r.lo, r) = r.lo /\ Whole(r.hi, r) = r.hi
    BY <1>1, RoundedExact DEF Whole, OnGrid
<1> QED
    BY <1>2, <1>3, <1>4

(* If any number of the domain is within a one-sided limit, the end that the  *)
(* conservative strategy takes is (_conservative_value).                      *)
LEMMA ConservativeEnd ==
    ASSUME NEW bound, NEW r \in Rows, InOrder(r), OnGrid(r), r.type # "Boolean",
           NEW limit \in Limit, limit.op \in {"<=", "<", ">=", ">"},
           NEW n \in r.lo .. r.hi, Satisfies(n, limit)
    PROVE  Satisfies(Sample("conservative", r, bound, limit).n, limit)
<1>1. r.lo \in Int /\ r.hi \in Int /\ r.lo <= r.hi /\ limit.value \in Int
    BY DEF Rows, InOrder, Limit
<1>2. Aim("conservative", r, bound, limit) = Conservative(r, limit)
    BY DEF Aim
<1>3. CASE limit.op \in {">=", ">"}
    <2>1. Conservative(r, limit) = <<r.hi - r.lo, 1>>
        BY <1>3 DEF Conservative
    <2>2. Sample("conservative", r, bound, limit) = Number(r.hi)
        BY <1>2, <2>1, EndsAligned DEF Sample
    <2>3. Sample("conservative", r, bound, limit).n = r.hi
        BY <2>2 DEF Number
    <2>4. n \in Int /\ n <= r.hi
        BY <1>1
    <2>5. CASE limit.op = ">="
        <3>1. Satisfies(n, limit) <=> n >= limit.value
            BY <2>5 DEF Satisfies
        <3>2. Satisfies(r.hi, limit) <=> r.hi >= limit.value
            BY <2>5 DEF Satisfies
        <3> QED
            BY <1>1, <2>3, <2>4, <3>1, <3>2
    <2>6. CASE limit.op = ">"
        <3>1. Satisfies(n, limit) <=> n > limit.value
            BY <2>6 DEF Satisfies
        <3>2. Satisfies(r.hi, limit) <=> r.hi > limit.value
            BY <2>6 DEF Satisfies
        <3> QED
            BY <1>1, <2>3, <2>4, <3>1, <3>2
    <2> QED
        BY <1>3, <2>5, <2>6
<1>4. CASE limit.op \in {"<=", "<"}
    <2>1. Conservative(r, limit) = <<0, 1>>
        BY <1>4 DEF Conservative
    <2>2. Sample("conservative", r, bound, limit) = Number(r.lo)
        BY <1>2, <2>1, EndsAligned DEF Sample
    <2>3. Sample("conservative", r, bound, limit).n = r.lo
        BY <2>2 DEF Number
    <2>4. n \in Int /\ r.lo <= n
        BY <1>1
    <2>5. CASE limit.op = "<="
        <3>1. Satisfies(n, limit) <=> n <= limit.value
            BY <2>5 DEF Satisfies
        <3>2. Satisfies(r.lo, limit) <=> r.lo <= limit.value
            BY <2>5 DEF Satisfies
        <3> QED
            BY <1>1, <2>3, <2>4, <3>1, <3>2
    <2>6. CASE limit.op = "<"
        <3>1. Satisfies(n, limit) <=> n < limit.value
            BY <2>6 DEF Satisfies
        <3>2. Satisfies(r.lo, limit) <=> r.lo < limit.value
            BY <2>6 DEF Satisfies
        <3> QED
            BY <1>1, <2>3, <2>4, <3>1, <3>2
    <2> QED
        BY <1>4, <2>5, <2>6
<1> QED
    BY <1>3, <1>4

(* Hence the first candidate of a floor satisfies the limit wherever any      *)
(* value of a domain on its grid could (sample_candidate_set).                *)
LEMMA FloorConservative ==
    ASSUME NEW bound, Bound(bound), NEW limit \in Limit, limit.op \in {"<=", "<", ">=", ">"},
           NEW count \in Positive, NEW id \in Ids(bound), id \in Id,
           RowOf(id, bound).type # "Boolean", OnGrid(RowOf(id, bound)),
           NEW n \in RowOf(id, bound).lo .. RowOf(id, bound).hi, Satisfies(n, limit)
    PROVE  Satisfies(Floor(bound, limit, count)[1].values[id].n, limit)
<1>1. RowOf(id, bound) \in Rows /\ InOrder(RowOf(id, bound))
    BY RowOfBound DEF Bound
<1>2. Floor(bound, limit, count)[1] = Tier0(bound, limit, 1)
    <2>1. 1 \in 1 .. count
        BY DEF Positive
    <2> QED
        BY <2>1 DEF Floor
<1>3. Tier0(bound, limit, 1).values[id] = Sample("conservative", RowOf(id, bound), bound, limit)
    <2>1. ((1 - 1) % 4) + 1 = 1 /\ (1 - 1) \div 4 = 0 /\ Strategies[1] = "conservative"
        BY DEF Strategies
    <2> QED
        BY <2>1 DEF Tier0
<1> QED
    BY <1>1, <1>2, <1>3, ConservativeEnd

(* sample_candidate_set: the floor is as long as asked for and assured.       *)
LEMMA FloorIsOffer ==
    ASSUME NEW bound, Bound(bound), NEW limit \in Limit, NEW count \in Nat
    PROVE  /\ Floor(bound, limit, count) \in Offers
           /\ Len(Floor(bound, limit, count)) = count
           /\ \A i \in DOMAIN Floor(bound, limit, count) :
                  AllAssured(Floor(bound, limit, count)[i].values, bound)
<1>1. \A i \in 1 .. count : /\ Tier0(bound, limit, i) \in Candidates
                           /\ AllAssured(Tier0(bound, limit, i).values, bound)
    BY FloorIsAssured DEF Positive
<1> DEFINE floor == Floor(bound, limit, count)
<1>2. floor \in Seq(Candidates) /\ Len(floor) = count
    BY <1>1 DEF Floor
<1>3. \A i \in DOMAIN floor : i \in 1 .. count /\ floor[i] = Tier0(bound, limit, i)
    BY DEF Floor
<1> QED
    BY <1>1, <1>2, <1>3 DEF Offers

------------------------------------------------------------------------------
(* The invariant                                                              *)

GoodRows(rows) ==
    /\ rows \subseteq Rows /\ IsFiniteSet(rows)
    /\ \A r \in rows : r.eligible => InOrder(r)

GoodEditions ==
    /\ editions \in Seq(Editions) /\ editions # <<>>
    /\ \A k \in DOMAIN editions : GoodRows(editions[k])

Fitting(cs, bound) == \A i \in DOMAIN cs : AllAssured(cs[i].values, bound)

(* A valid assignment is an assured one.                                      *)
LEMMA ValidIsAssured ==
    ASSUME NEW values, NEW bound, Bound(bound), Valid(values, bound)
    PROVE  AllAssured(values, bound)
<1>1. \A id \in Ids(bound) : RowOf(id, bound) \in Rows
    BY RowOfBound DEF Bound
<1>2. ASSUME NEW r \in Rows, NEW v, Fits(v, r) PROVE Assured(v, r)
    <2>1. r.type \in {"Boolean", "Number", "Integer"}
        BY DEF Rows, Type
    <2> QED
        BY <1>2, <2>1 DEF Fits, Assured
<1> QED
    BY <1>1, <1>2 DEF Valid, AllAssured

(* A request: its floor is whole and assured, and while it runs on, a call is *)
(* left.                                                                      *)
GoodRequest(q) ==
    /\ q \in Generations
    /\ Bound(q.bound) /\ Fitting(q.floor, q.bound)
    /\ q.pc \in {"sampled", "asking"} => Len(q.floor) = q.count
    /\ q.pc \in {"idle", "classified", "sampled", "asking"} =>
           q.attempts <= MaxRetries /\ q.tier = 0
    /\ q.pc = "offered" =>
           /\ Len(q.offer) = q.count /\ Fitting(q.offer, q.bound)
           /\ q.tier = 1 => /\ InDomain(q.offer, q.bound)
                            /\ Distinct(q.offer) /\ Diverse(q.offer, q.bound)
           /\ q.tier = 0 => q.attempts = MaxRetries + 1 \/ q.answer.kind = "truncated"

Offered(candidate, at) == \E g \in Generation :
    gen[g].pc = "offered" /\ gen[g].at = at /\ candidate \in Range(gen[g].offer)

(* An acceptance: it looks at rows that were published, and its candidate was *)
(* offered.                                                                   *)
GoodAcceptance(q) ==
    /\ q \in Acceptances
    /\ q.pc \in {"read", "valid"} =>
           /\ q.since \in DOMAIN editions /\ q.rows = editions[q.since]
           /\ Offered(q.candidate, q.at)
    /\ q.pc = "valid" => Valid(q.candidate.values, Select(q.names, q.rows))

GoodState(s) ==
    /\ s \in States
    /\ s.since \in DOMAIN editions /\ Valid(s.values, Select(s.names, editions[s.since]))
    /\ Offered([strategy |-> s.strategy, values |-> s.values], s.at)

RequestsGood == /\ gen \in [Generation -> Generations]
                /\ \A g \in Generation : GoodRequest(gen[g])
AcceptancesGood == /\ acc \in [Acceptance -> Acceptances]
                   /\ \A a \in Acceptance : GoodAcceptance(acc[a])
StatesGood == \A s \in stored : GoodState(s)

Inv == GoodEditions /\ RequestsGood /\ AcceptancesGood /\ StatesGood

(* The parameters in scope of good rows are what the sampler is given.        *)
LEMMA SelectIsBound ==
    ASSUME NEW rows, GoodRows(rows), NEW names
    PROVE  Bound(Select(names, rows))
<1>1. Select(names, rows) \in SUBSET rows
    BY DEF Select
<1>2. IsFiniteSet(Select(names, rows))
    BY <1>1, FS_Subset DEF GoodRows
<1> QED
    BY <1>2 DEF Bound, GoodRows, Select

(* What is published now is one of the publications.                          *)
LEMMA PublishedIsGood ==
    ASSUME GoodEditions
    PROVE  GoodRows(Published) /\ Len(editions) \in DOMAIN editions /\ Len(editions) \in Nat
<1>1. Len(editions) \in Nat /\ Len(editions) # 0
    BY DEF GoodEditions
<1> QED
    BY <1>1 DEF GoodEditions, Published

(* No request was made, nothing was stored.                                   *)
LEMMA InitGood == Init => Inv
<1> SUFFICES ASSUME Init PROVE Inv
    OBVIOUS
<1>1. GoodEditions
    <2>1. PICK e \in Envelope : editions = <<e>>
        BY DEF Init
    <2>2. GoodRows(e) /\ e \in Editions
        BY EnvelopeAssumption DEF GoodRows, Editions
    <2> QED
        BY <2>1, <2>2 DEF GoodEditions
<1>2. Nobody \in Candidates /\ NoAnswer \in Responses
    <2>1. Absent \in Value
        BY DEF Absent, Value
    <2> QED
        BY <2>1 DEF Nobody, NoAnswer, Candidates, Responses, Assignments, Strategy
<1>3. GoodRequest(IdleGeneration) /\ IdleGeneration \in Generations
    <2>1. IdleGeneration \in Generations
        BY <1>2, BoundsAssumption
        DEF IdleGeneration, Generations, NoLimit, Limit, Editions, Offers
    <2>2. Bound({})
        BY FS_EmptySet DEF Bound
    <2> QED
        BY <2>1, <2>2, BoundsAssumption DEF GoodRequest, IdleGeneration, Fitting
<1>4. GoodAcceptance(IdleAcceptance) /\ IdleAcceptance \in Acceptances
    BY <1>2 DEF GoodAcceptance, IdleAcceptance, Acceptances, Editions
<1> QED
    BY <1>1, <1>3, <1>4 DEF Init, Inv, RequestsGood, AcceptancesGood, StatesGood

------------------------------------------------------------------------------
(* Steps of a request                                                         *)

(* An offer is final: what was offered stays offered while another request,   *)
(* or this one before its offer, takes a step.                                *)
LEMMA RequestStep ==
    ASSUME Inv, NEW g \in Generation, gen[g].pc # "offered",
           NEW q, GoodRequest(q), gen' = [gen EXCEPT ![g] = q],
           UNCHANGED <<editions, acc, stored>>
    PROVE  Inv'
<1>1. RequestsGood'
    BY DEF Inv, RequestsGood, GoodRequest
<1>2. ASSUME NEW candidate, NEW at, Offered(candidate, at)
      PROVE  Offered(candidate, at)'
    <2>1. PICK h \in Generation :
              gen[h].pc = "offered" /\ gen[h].at = at /\ candidate \in Range(gen[h].offer)
        BY <1>2 DEF Offered
    <2>2. gen'[h] = gen[h]
        BY <2>1 DEF Inv, RequestsGood
    <2> QED
        BY <2>1, <2>2 DEF Offered
<1>3. AcceptancesGood'
    BY <1>2 DEF Inv, AcceptancesGood, GoodAcceptance
<1>4. StatesGood'
    BY <1>2 DEF Inv, StatesGood, GoodState
<1>5. GoodEditions'
    BY DEF Inv, GoodEditions
<1> QED
    BY <1>1, <1>3, <1>4, <1>5 DEF Inv

(* A step of generate_inputs keeps the invariant if its request stays good.   *)
LEMMA StepOfRequest ==
    ASSUME Inv, NEW g \in Generation, NEW from, NEW to, NEW change, from # "offered",
           Step(g, from, to, change), GoodRequest([change EXCEPT !.pc = to])
    PROVE  Inv'
BY RequestStep DEF Step

(* classify_rule, and the limit it reads, keep the invariant.                 *)
LEMMA ClassifyGood == ASSUME Inv, NEW g \in Generation, Classify(g) PROVE Inv'
<1>1. PICK n \in Count, o \in Override, l \in RuleLimit :
          Step(g, "idle", "classified",
               [gen[g] EXCEPT !.count = n, !.names = Scope(o),
                              !.limit = IF Named = {} THEN NoLimit ELSE l])
    BY DEF Classify
<1>2. n \in Int /\ Scope(o) \in SUBSET Nat /\ (IF Named = {} THEN NoLimit ELSE l) \in Limit
    BY RequestAssumption DEF Scope, NoLimit, Limit
<1>3. gen[g] \in Generations /\ GoodRequest(gen[g]) /\ gen[g].pc = "idle"
    BY <1>1 DEF Inv, RequestsGood, Step
<1> DEFINE q == [[gen[g] EXCEPT !.count = n, !.names = Scope(o),
                                !.limit = IF Named = {} THEN NoLimit ELSE l]
                 EXCEPT !.pc = "classified"]
<1>4. q \in Generations
    BY <1>2, <1>3 DEF Generations
<1>5. GoodRequest(q)
    BY <1>3, <1>4 DEF GoodRequest, Generations
<1> QED
    BY <1>1, <1>5, StepOfRequest

(* The refusal of a rule that is gone keeps the invariant.                    *)
LEMMA RuleMissingGood == ASSUME Inv, NEW g \in Generation, RuleMissing(g) PROVE Inv'
<1>1. gen[g] \in Generations /\ GoodRequest(gen[g])
    BY DEF Inv, RequestsGood
<1>2. GoodRequest([gen[g] EXCEPT !.pc = "refused"])
    BY <1>1 DEF GoodRequest, Generations
<1> QED
    BY <1>2, StepOfRequest DEF RuleMissing

(* The refusal of a count, or for want of parameters, keeps the invariant.    *)
LEMMA RefuseGood == ASSUME Inv, NEW g \in Generation, Refuse(g) PROVE Inv'
<1>1. gen[g] \in Generations /\ GoodRequest(gen[g])
    BY DEF Inv, RequestsGood
<1>2. GoodRequest([gen[g] EXCEPT !.pc = "refused"])
    BY <1>1 DEF GoodRequest, Generations
<1> QED
    BY <1>2, StepOfRequest DEF Refuse

(* sample_candidate_set makes a floor for the parameters just read.           *)
LEMMA SampleFloorGood == ASSUME Inv, NEW g \in Generation, SampleFloor(g) PROVE Inv'
<1> DEFINE bound == Select(gen[g].names, Published)
           floor == Floor(bound, gen[g].limit, gen[g].count)
           change == [gen[g] EXCEPT !.bound = bound, !.floor = floor]
           q == [change EXCEPT !.pc = "sampled"]
<1>1. Step(g, "classified", "sampled", change) /\ gen[g].count \in 1 .. MaxCandidates
    BY DEF SampleFloor, Countable
<1>2. gen[g] \in Generations /\ GoodRequest(gen[g]) /\ gen[g].pc = "classified"
    BY <1>1 DEF Inv, RequestsGood, Step
<1>3. gen[g].limit \in Limit /\ gen[g].count \in Nat
    BY <1>1, <1>2 DEF Generations, MaxCandidates
<1>4. Bound(bound)
    BY PublishedIsGood, SelectIsBound DEF Inv
<1>5. floor \in Offers /\ Len(floor) = gen[g].count /\ Fitting(floor, bound)
    BY <1>3, <1>4, FloorIsOffer DEF Fitting
<1>6. bound \in Editions
    BY <1>4 DEF Bound, Editions
<1> HIDE DEF bound, floor
<1>7. q \in Generations /\ q.bound = bound /\ q.floor = floor /\ q.count = gen[g].count
      /\ q.pc = "sampled" /\ q.attempts = gen[g].attempts /\ q.tier = gen[g].tier
    BY <1>2, <1>5, <1>6 DEF Generations
<1>8. GoodRequest(q)
    BY <1>2, <1>4, <1>5, <1>7 DEF GoodRequest
<1> QED
    BY <1>1, <1>8, StepOfRequest

(* fetch_published_at keeps the invariant.                                    *)
LEMMA StampGood == ASSUME Inv, NEW g \in Generation, Stamp(g) PROVE Inv'
<1> DEFINE change == [gen[g] EXCEPT !.at = Len(editions)]
<1>1. Step(g, "sampled", "asking", change)
    BY DEF Stamp
<1>2. gen[g] \in Generations /\ GoodRequest(gen[g]) /\ gen[g].pc = "sampled"
    BY <1>1 DEF Inv, RequestsGood, Step
<1>3. Len(editions) \in Nat
    BY PublishedIsGood DEF Inv
<1>4. GoodRequest([change EXCEPT !.pc = "asking"])
    BY <1>2, <1>3 DEF GoodRequest, Generations
<1> QED
    BY <1>1, <1>4, StepOfRequest

(* One call of the model, whatever it answers: what is offered is within the  *)
(* domains, and the floor only when no call is left or none would help.       *)
LEMMA AskGood == ASSUME Inv, NEW g \in Generation, Ask(g) PROVE Inv'
<1>1. PICK r \in Response : OfferModel(g, r) \/ OfferFloor(g, r) \/ Retry(g, r) \/ ProviderFails(g, r)
    BY DEF Ask
<1>2. gen[g].pc = "asking"
    BY <1>1 DEF OfferModel, OfferFloor, Retry, ProviderFails, Step
<1>3. gen[g] \in Generations /\ GoodRequest(gen[g]) /\ gen[g].attempts \in 0 .. MaxRetries
    BY <1>2 DEF Inv, RequestsGood, GoodRequest, Generations
<1>4. r \in Responses /\ r.candidates \in Offers
    BY RequestAssumption DEF Responses, Offers
<1> DEFINE q == Asked(g, r)
<1>5. /\ q \in Generations /\ q.attempts = gen[g].attempts + 1 /\ q.answer = r
      /\ q.bound = gen[g].bound /\ q.floor = gen[g].floor /\ q.count = gen[g].count
      /\ q.tier = gen[g].tier /\ q.offer = gen[g].offer
    <2>1. gen[g] \in Generations /\ r \in Responses
        BY <1>3, <1>4
    <2>2. gen[g].attempts + 1 \in 0 .. MaxRetries + 1
        BY <1>3, BoundsAssumption
    <2> QED
        BY <2>1, <2>2 DEF Asked, Generations
<1> HIDE DEF q
<1>6. CASE OfferModel(g, r)
    <2> DEFINE change == [q EXCEPT !.offer = r.candidates, !.tier = 1]
               p == [change EXCEPT !.pc = "offered"]
    <2>1. Step(g, "asking", "offered", change)
        BY <1>6 DEF OfferModel, q
    <2>2. /\ p \in Generations /\ p.pc = "offered" /\ p.tier = 1 /\ p.offer = r.candidates
          /\ p.bound = gen[g].bound /\ p.floor = gen[g].floor /\ p.count = gen[g].count
        BY <1>4, <1>5 DEF Generations
    <2>3. /\ Len(r.candidates) = gen[g].count /\ Fitting(r.candidates, gen[g].bound)
          /\ InDomain(r.candidates, gen[g].bound)
          /\ Distinct(r.candidates) /\ Diverse(r.candidates, gen[g].bound)
        BY <1>3, <1>6, ValidIsAssured DEF OfferModel, Usable, InDomain, Fitting, GoodRequest
    <2> HIDE DEF p
    <2>4. GoodRequest(p)
        BY <1>3, <2>2, <2>3 DEF GoodRequest
    <2> QED
        BY <2>1, <2>4, StepOfRequest DEF p
<1>7. CASE OfferFloor(g, r)
    <2> DEFINE change == [q EXCEPT !.offer = gen[g].floor, !.tier = 0]
               p == [change EXCEPT !.pc = "offered"]
    <2>1. Step(g, "asking", "offered", change)
        BY <1>7 DEF OfferFloor, q
    <2>2. /\ p \in Generations /\ p.pc = "offered" /\ p.tier = 0 /\ p.offer = gen[g].floor
          /\ p.bound = gen[g].bound /\ p.floor = gen[g].floor /\ p.count = gen[g].count
          /\ p.attempts = gen[g].attempts + 1 /\ p.answer = r
        BY <1>3, <1>5 DEF Generations
    <2>3. p.attempts = MaxRetries + 1 \/ p.answer.kind = "truncated"
        BY <1>7, <2>2 DEF OfferFloor, LastAttempt
    <2> HIDE DEF p
    <2>4. GoodRequest(p)
        BY <1>2, <1>3, <2>2, <2>3 DEF GoodRequest
    <2> QED
        BY <2>1, <2>4, StepOfRequest DEF p
<1>8. CASE Retry(g, r)
    <2> DEFINE p == [q EXCEPT !.pc = "asking"]
    <2>1. Step(g, "asking", "asking", q) /\ gen[g].attempts # MaxRetries
        BY <1>8 DEF Retry, LastAttempt, q
    <2>2. /\ p \in Generations /\ p.pc = "asking" /\ p.tier = gen[g].tier
          /\ p.bound = gen[g].bound /\ p.floor = gen[g].floor /\ p.count = gen[g].count
          /\ p.attempts = gen[g].attempts + 1
        BY <1>5 DEF Generations
    <2>3. p.attempts <= MaxRetries
        BY <1>3, <2>1, <2>2, BoundsAssumption
    <2> HIDE DEF p
    <2>4. GoodRequest(p)
        BY <1>2, <1>3, <2>2, <2>3 DEF GoodRequest
    <2> QED
        BY <2>1, <2>4, StepOfRequest DEF p
<1>9. CASE ProviderFails(g, r)
    <2> DEFINE p == [q EXCEPT !.pc = "failed"]
    <2>1. Step(g, "asking", "failed", q)
        BY <1>9 DEF ProviderFails, q
    <2>2. /\ p \in Generations /\ p.pc = "failed"
          /\ p.bound = gen[g].bound /\ p.floor = gen[g].floor
        BY <1>5 DEF Generations
    <2> HIDE DEF p
    <2>3. GoodRequest(p)
        BY <1>3, <2>2 DEF GoodRequest
    <2> QED
        BY <2>1, <2>3, StepOfRequest DEF p
<1> QED
    BY <1>1, <1>6, <1>7, <1>8, <1>9

------------------------------------------------------------------------------
(* Publications                                                               *)

(* publish_structure adds a publication and alters none before it.            *)
LEMMA PublishGood == ASSUME Inv, NEW e \in Envelope, Publish(e) PROVE Inv'
<1> DEFINE rows == Merged(Published, e)
<1>1. GoodRows(Published) /\ GoodRows(e)
    BY PublishedIsGood, EnvelopeAssumption DEF Inv, GoodRows
<1>2. GoodRows(rows)
    <2>1. {r \in Published : \A s \in e : s.cg # r.cg} \in SUBSET Published
        OBVIOUS
    <2>2. IsFiniteSet({r \in Published : \A s \in e : s.cg # r.cg}) /\ IsFiniteSet(e)
        BY <1>1, <2>1, FS_Subset DEF GoodRows
    <2>3. IsFiniteSet(rows)
        BY <2>2, FS_Union DEF Merged
    <2> QED
        BY <1>1, <2>3 DEF GoodRows, Merged
<1> HIDE DEF rows
<1>3. rows \in Editions /\ editions \in Seq(Editions) /\ editions' = Append(editions, rows)
    BY <1>2 DEF GoodRows, Editions, Publish, rows, Inv, GoodEditions
<1>4. \A k \in DOMAIN editions : k \in DOMAIN editions' /\ editions'[k] = editions[k]
    BY <1>3
<1>5. GoodEditions'
    <2>1. editions' \in Seq(Editions) /\ editions' # <<>>
        BY <1>3
    <2>2. \A k \in DOMAIN editions' : k \in DOMAIN editions \/ editions'[k] = rows
        BY <1>3
    <2> QED
        BY <1>2, <1>4, <2>1, <2>2 DEF Inv, GoodEditions
<1>6. gen' = gen /\ acc' = acc /\ stored' = stored
    BY DEF Publish
<1>7. RequestsGood'
    BY <1>6 DEF Inv, RequestsGood
<1>8. AcceptancesGood'
    BY <1>4, <1>6 DEF Inv, AcceptancesGood, GoodAcceptance, Offered
<1>9. StatesGood'
    BY <1>4, <1>6 DEF Inv, StatesGood, GoodState, Offered
<1> QED
    BY <1>5, <1>7, <1>8, <1>9 DEF Inv

------------------------------------------------------------------------------
(* Steps of an acceptance                                                     *)

(* A step of accept_candidate leaves publications and requests alone; the     *)
(* acceptances stay good if the one that moves does.                          *)
LEMMA StepOfAcceptance ==
    ASSUME Inv, NEW a \in Acceptance, NEW from, NEW to, NEW change,
           AcceptStep(a, from, to, change), GoodAcceptance([change EXCEPT !.pc = to])
    PROVE  /\ GoodEditions' /\ RequestsGood' /\ AcceptancesGood'
           /\ \A s \in stored : GoodState(s)'
<1>1. editions' = editions /\ gen' = gen /\ acc' = [acc EXCEPT ![a] = [change EXCEPT !.pc = to]]
    BY DEF AcceptStep
<1>2. GoodEditions' /\ RequestsGood'
    BY <1>1 DEF Inv, GoodEditions, RequestsGood
<1>3. \A candidate, at : Offered(candidate, at) => Offered(candidate, at)'
    BY <1>1 DEF Offered
<1>4. \A b \in Acceptance : acc'[b] \in Acceptances /\ GoodAcceptance(acc[b])
    BY <1>1 DEF Inv, AcceptancesGood, GoodAcceptance
<1>5. AcceptancesGood'
    BY <1>1, <1>3 DEF Inv, AcceptancesGood, GoodAcceptance
<1>6. \A s \in stored : GoodState(s)'
    BY <1>1, <1>3 DEF Inv, StatesGood, GoodState
<1> QED
    BY <1>2, <1>5, <1>6

(* What comes back was offered; the rows read are those published now.        *)
LEMMA ReceiveGood == ASSUME Inv, NEW a \in Acceptance, Receive(a) PROVE Inv'
<1>1. PICK g \in Generation, o \in Override :
          /\ gen[g].pc = "offered"
          /\ \E i \in DOMAIN gen[g].offer :
                AcceptStep(a, "idle", "read",
                           [acc[a] EXCEPT !.candidate = gen[g].offer[i], !.at = gen[g].at,
                                          !.names = Scope(o), !.rows = Published,
                                          !.since = Len(editions)])
          /\ UNCHANGED stored
    BY DEF Receive
<1>2. PICK i \in DOMAIN gen[g].offer :
          AcceptStep(a, "idle", "read",
                     [acc[a] EXCEPT !.candidate = gen[g].offer[i], !.at = gen[g].at,
                                    !.names = Scope(o), !.rows = Published,
                                    !.since = Len(editions)])
    BY <1>1
<1>3. gen[g] \in Generations /\ acc[a] \in Acceptances
    BY DEF Inv, RequestsGood, AcceptancesGood
<1>4. gen[g].offer[i] \in Candidates /\ gen[g].at \in Nat /\ Scope(o) \in SUBSET Nat
    <2>1. gen[g].offer \in Seq(Candidates) /\ gen[g].at \in Nat
        BY <1>3 DEF Generations, Offers
    <2> QED
        BY <2>1, RequestAssumption DEF Scope
<1>5. /\ Published \in Editions /\ Published = editions[Len(editions)]
      /\ Len(editions) \in Nat /\ Len(editions) \in DOMAIN editions
    BY PublishedIsGood DEF Inv, GoodRows, Editions, Published
<1>6. Offered(gen[g].offer[i], gen[g].at)
    BY <1>1 DEF Offered, Range
<1> DEFINE q == [[acc[a] EXCEPT !.candidate = gen[g].offer[i], !.at = gen[g].at,
                                !.names = Scope(o), !.rows = Published,
                                !.since = Len(editions)] EXCEPT !.pc = "read"]
<1>7. /\ q \in Acceptances /\ q.pc = "read" /\ q.since = Len(editions) /\ q.rows = Published
      /\ q.candidate = gen[g].offer[i] /\ q.at = gen[g].at
    BY <1>3, <1>4, <1>5 DEF Acceptances
<1> HIDE DEF q
<1>8. GoodAcceptance(q)
    BY <1>5, <1>6, <1>7 DEF GoodAcceptance
<1> QED
    BY <1>1, <1>2, <1>8, StepOfAcceptance DEF Inv, StatesGood, q

(* validate_candidate admits what fits the rows read.                         *)
LEMMA AdmitGood == ASSUME Inv, NEW a \in Acceptance, Admit(a) PROVE Inv'
<1>1. AcceptStep(a, "read", "valid", acc[a]) /\ UNCHANGED stored /\ acc[a].pc = "read"
    BY DEF Admit, AcceptStep
<1>2. GoodAcceptance(acc[a]) /\ acc[a] \in Acceptances
    BY DEF Inv, AcceptancesGood
<1> DEFINE q == [acc[a] EXCEPT !.pc = "valid"]
<1>3. /\ q \in Acceptances /\ q.since = acc[a].since /\ q.rows = acc[a].rows
      /\ q.candidate = acc[a].candidate /\ q.at = acc[a].at /\ q.names = acc[a].names
    BY <1>2 DEF Acceptances
<1>4. Valid(acc[a].candidate.values, Select(acc[a].names, acc[a].rows))
    BY DEF Admit
<1> HIDE DEF q
<1>5. GoodAcceptance(q)
    BY <1>1, <1>2, <1>3, <1>4 DEF GoodAcceptance
<1> QED
    BY <1>1, <1>5, StepOfAcceptance DEF Inv, StatesGood, q

(* A rejection stores nothing.                                                *)
LEMMA RejectGood == ASSUME Inv, NEW a \in Acceptance, Reject(a) PROVE Inv'
<1>1. AcceptStep(a, "read", "rejected", acc[a]) /\ UNCHANGED stored
    BY DEF Reject
<1>2. acc[a] \in Acceptances
    BY DEF Inv, AcceptancesGood
<1>3. GoodAcceptance([acc[a] EXCEPT !.pc = "rejected"])
    BY <1>2 DEF GoodAcceptance, Acceptances
<1> QED
    BY <1>1, <1>3, StepOfAcceptance DEF Inv, StatesGood

(* The state stored is the candidate checked, as of the rows it was checked   *)
(* against, whatever was published since.                                     *)
LEMMA StoreGood == ASSUME Inv, NEW a \in Acceptance, Store(a) PROVE Inv'
<1>1. /\ AcceptStep(a, "valid", "stored", acc[a]) /\ acc[a].pc = "valid"
      /\ stored' = Kept(State(a)) \cup {State(a)} /\ editions' = editions /\ gen' = gen
    BY DEF Store, AcceptStep
<1>2. GoodAcceptance(acc[a]) /\ acc[a] \in Acceptances
    BY DEF Inv, AcceptancesGood
<1>3. GoodAcceptance([acc[a] EXCEPT !.pc = "stored"])
    BY <1>2 DEF GoodAcceptance, Acceptances
<1>4. GoodState(State(a))
    <2> DEFINE c == acc[a].candidate
               s == State(a)
    <2>1. c \in Candidates
        BY <1>2 DEF Acceptances
    <2>2. /\ s \in States /\ s.values = c.values /\ s.strategy = c.strategy
          /\ s.at = acc[a].at /\ s.names = acc[a].names /\ s.since = acc[a].since
        BY <1>2, <2>1 DEF State, States, Acceptances, Candidates
    <2>3. [strategy |-> c.strategy, values |-> c.values] = c
        BY <2>1 DEF Candidates
    <2> HIDE DEF s
    <2>4. Valid(s.values, Select(s.names, editions[s.since])) /\ s.since \in DOMAIN editions
        BY <1>1, <1>2, <2>2 DEF GoodAcceptance
    <2>5. Offered([strategy |-> s.strategy, values |-> s.values], s.at)
        BY <1>1, <1>2, <2>2, <2>3 DEF GoodAcceptance
    <2>6. GoodState(s)
        BY <2>2, <2>4, <2>5 DEF GoodState
    <2> QED
        BY <2>6 DEF s
<1>5. GoodState(State(a))'
    <2>1. UNCHANGED <<acc[a].candidate, acc[a].at, acc[a].names, acc[a].since>>
        BY <1>1, <1>2 DEF AcceptStep, Inv, AcceptancesGood, Acceptances
    <2>2. State(a)' = State(a)
        BY <2>1 DEF State
    <2> QED
        BY <1>1, <1>4, <2>2 DEF GoodState, Offered
<1>6. GoodEditions' /\ RequestsGood' /\ AcceptancesGood' /\ \A s \in stored : GoodState(s)'
    BY <1>1, <1>3, StepOfAcceptance
<1>7. StatesGood'
    <2>1. State(a)' = State(a)
        BY <1>1, <1>2 DEF AcceptStep, Inv, AcceptancesGood, Acceptances, State
    <2> QED
        BY <1>1, <1>5, <1>6, <2>1 DEF StatesGood, Kept
<1> QED
    BY <1>6, <1>7 DEF Inv

------------------------------------------------------------------------------
(* The theorems                                                               *)

(* Whatever is published while requests run, floors suit what was bound, what *)
(* is offered is what was asked for, and what is stored was checked and       *)
(* offered (generate_inputs, accept_candidate, publish_structure).            *)
THEOREM Invariant == Spec => []Inv
<1>1. Inv /\ [Next]_vars => Inv'
    <2> SUFFICES ASSUME Inv, [Next]_vars PROVE Inv'
        OBVIOUS
    <2>1. ASSUME NEW e \in Envelope, Publish(e) PROVE Inv'
        BY <2>1, PublishGood
    <2>2. ASSUME NEW g \in Generation, Generate(g) PROVE Inv'
        BY <2>2, ClassifyGood, RuleMissingGood, RefuseGood, SampleFloorGood, StampGood, AskGood
        DEF Generate
    <2>3. ASSUME NEW a \in Acceptance, Accept(a) PROVE Inv'
        BY <2>3, ReceiveGood, AdmitGood, RejectGood, StoreGood DEF Accept
    <2>4. CASE UNCHANGED vars
        BY <2>4 DEF vars, Inv, GoodEditions, RequestsGood, AcceptancesGood, StatesGood,
                    GoodAcceptance, GoodState, Offered
    <2> QED
        BY <2>1, <2>2, <2>3, <2>4 DEF Next, Finished
<1> QED
    BY <1>1, InitGood, PTL DEF Spec

(* The type invariant, and with it the bound on the calls of the model (the   *)
(* retry loop of generate_inputs).                                            *)
THEOREM TypeCorrect == Spec => []TypeOK
<1>1. Inv => TypeOK
    BY DEF Inv, GoodEditions, RequestsGood, AcceptancesGood, StatesGood, GoodState, TypeOK
<1> QED
    BY <1>1, Invariant, PTL

(* The floor of every request is complete, and fits each parameter whose      *)
(* domain is on its grid, for all limits and counts, whichever way ties are   *)
(* rounded (sample_tier0, sample_candidate_set).                              *)
THEOREM FloorAlwaysFits == Spec => []FloorFits
<1>1. Inv => FloorFits
    BY DEF Inv, RequestsGood, GoodRequest, Fitting, FloorFits
<1> QED
    BY <1>1, Invariant, PTL

(* Whichever way a request ends in an offer, the offer is what was asked for  *)
(* (the guardrails of generate_inputs).                                       *)
THEOREM OffersFit == Spec => []OfferFits
<1>1. Inv => OfferFits
    BY DEF Inv, RequestsGood, GoodRequest, Fitting, OfferFits
<1> QED
    BY <1>1, Invariant, PTL

(* The floor is offered only when the retries are spent or would not help     *)
(* (generate_inputs), whatever MaxRetries is.                                 *)
THEOREM FloorLastResort == Spec => []FloorIsLastResort
<1>1. Inv => FloorIsLastResort
    BY DEF Inv, RequestsGood, GoodRequest, FloorIsLastResort
<1> QED
    BY <1>1, Invariant, PTL

(* What accept_candidate stores was a valid assignment of the parameters that *)
(* were published when it was checked.                                        *)
THEOREM StoredStatesFit == Spec => []StoredFits
<1>1. Inv => StoredFits
    BY DEF Inv, StatesGood, GoodState, StoredFits
<1> QED
    BY <1>1, Invariant, PTL

(* What accept_candidate stores is one candidate that was offered, with the   *)
(* strategy and the time of publication it was offered with.                  *)
THEOREM StoredStatesAttributed == Spec => []StoredAsOffered
<1>1. Inv => StoredAsOffered
    BY DEF Inv, StatesGood, GoodState, Offered, StoredAsOffered
<1> QED
    BY <1>1, Invariant, PTL

------------------------------------------------------------------------------
(* The conservative candidate                                                 *)

(* Where a request has a floor, it is the one for its bound parameters, its   *)
(* limit and its count, and none of these changes any more.                   *)
MadeFor(q) ==
    /\ q.pc \in {"idle", "classified"} => q.floor = <<>>
    /\ q.floor # <<>> =>
           q.count \in 1 .. MaxCandidates /\ q.floor = Floor(q.bound, q.limit, q.count)

FloorsMade == \A g \in Generation : MadeFor(gen[g])

(* A step of generate_inputs keeps it if its own request does.                *)
LEMMA StepMade ==
    ASSUME Inv, FloorsMade, NEW g \in Generation, NEW from, NEW to, NEW change,
           Step(g, from, to, change), MadeFor([change EXCEPT !.pc = to])
    PROVE  FloorsMade'
BY DEF Inv, RequestsGood, FloorsMade, Step

(* Every step of generate_inputs keeps it.                                    *)
LEMMA GenerateMade ==
    ASSUME Inv, FloorsMade, NEW g \in Generation, Generate(g)
    PROVE  FloorsMade'
<1>1. gen[g] \in Generations /\ MadeFor(gen[g])
    BY DEF Inv, RequestsGood, FloorsMade
<1>2. CASE Classify(g)
    <2>1. PICK n \in Count, o \in Override, l \in RuleLimit :
              Step(g, "idle", "classified",
                   [gen[g] EXCEPT !.count = n, !.names = Scope(o),
                                  !.limit = IF Named = {} THEN NoLimit ELSE l])
        BY <1>2 DEF Classify
    <2>2. gen[g].floor = <<>>
        BY <1>1, <2>1 DEF Step, MadeFor
    <2>3. MadeFor([[gen[g] EXCEPT !.count = n, !.names = Scope(o),
                                  !.limit = IF Named = {} THEN NoLimit ELSE l]
                   EXCEPT !.pc = "classified"])
        BY <1>1, <2>2 DEF MadeFor, Generations
    <2> QED
        BY <2>1, <2>3, StepMade
<1>3. CASE RuleMissing(g) \/ Refuse(g)
    <2>1. \E from : Step(g, from, "refused", gen[g])
        BY <1>3 DEF RuleMissing, Refuse
    <2>2. MadeFor([gen[g] EXCEPT !.pc = "refused"])
        BY <1>1 DEF MadeFor, Generations
    <2> QED
        BY <2>1, <2>2, StepMade
<1>4. CASE SampleFloor(g)
    <2> DEFINE bound == Select(gen[g].names, Published)
               floor == Floor(bound, gen[g].limit, gen[g].count)
               change == [gen[g] EXCEPT !.bound = bound, !.floor = floor]
               q == [change EXCEPT !.pc = "sampled"]
    <2>1. Step(g, "classified", "sampled", change) /\ gen[g].count \in 1 .. MaxCandidates
        BY <1>4 DEF SampleFloor, Countable
    <2> HIDE DEF bound, floor
    <2>2. /\ q.pc = "sampled" /\ q.floor = floor /\ q.bound = bound
          /\ q.limit = gen[g].limit /\ q.count = gen[g].count
        BY <1>1 DEF Generations
    <2> HIDE DEF q
    <2>3. MadeFor(q)
        BY <2>1, <2>2 DEF MadeFor, floor
    <2> QED
        BY <2>1, <2>3, StepMade DEF q
<1>5. CASE Stamp(g)
    <2>1. gen[g].pc = "sampled" /\ Step(g, "sampled", "asking", [gen[g] EXCEPT !.at = Len(editions)])
        BY <1>5 DEF Stamp, Step
    <2>2. MadeFor([[gen[g] EXCEPT !.at = Len(editions)] EXCEPT !.pc = "asking"])
        BY <1>1 DEF MadeFor, Generations
    <2> QED
        BY <2>1, <2>2, StepMade
<1>6. CASE Ask(g)
    <2>1. PICK r \in Response :
              OfferModel(g, r) \/ OfferFloor(g, r) \/ Retry(g, r) \/ ProviderFails(g, r)
        BY <1>6 DEF Ask
    <2> DEFINE q == Asked(g, r)
    <2>2. \E offer, tier, to :
              /\ to \in {"offered", "asking", "failed"}
              /\ \/ Step(g, "asking", to, q)
                 \/ Step(g, "asking", to, [q EXCEPT !.offer = offer, !.tier = tier])
        BY <2>1 DEF OfferModel, OfferFloor, Retry, ProviderFails
    <2>3. PICK offer, tier, to :
              /\ to \in {"offered", "asking", "failed"}
              /\ \/ Step(g, "asking", to, q)
                 \/ Step(g, "asking", to, [q EXCEPT !.offer = offer, !.tier = tier])
        BY <2>2
    <2>4. MadeFor([q EXCEPT !.pc = to])
        BY <1>1, <2>3 DEF MadeFor, Generations, Asked
    <2>5. MadeFor([[q EXCEPT !.offer = offer, !.tier = tier] EXCEPT !.pc = to])
        BY <1>1, <2>3 DEF MadeFor, Generations, Asked
    <2> HIDE DEF q
    <2> QED
        BY <2>3, <2>4, <2>5, StepMade
<1> QED
    BY <1>2, <1>3, <1>4, <1>5, <1>6 DEF Generate

(* The floor's first candidate is on the safe side of a one-sided limit for   *)
(* each domain on its grid, whatever the steps and limits are, whichever way  *)
(* ties are rounded and whatever was published meanwhile                      *)
(* (_conservative_value: "furthest inside the constraint").                   *)
THEOREM ConservativeIsSafe == Spec => []ConservativeSatisfies
<1>1. Init => FloorsMade
    BY DEF Init, FloorsMade, MadeFor, IdleGeneration
<1>2. Inv /\ FloorsMade /\ [Next]_vars => FloorsMade'
    <2> SUFFICES ASSUME Inv, FloorsMade, [Next]_vars PROVE FloorsMade'
        OBVIOUS
    <2>1. CASE \E g \in Generation : Generate(g)
        BY <2>1, GenerateMade
    <2>2. CASE UNCHANGED gen
        BY <2>2 DEF FloorsMade
    <2> QED
        BY <2>1, <2>2
        DEF Next, vars, Publish, Accept, Receive, Admit, Reject, Store, AcceptStep, Finished
<1>3. Inv /\ FloorsMade => ConservativeSatisfies
    <2> SUFFICES ASSUME Inv, FloorsMade, NEW g \in Generation, gen[g].floor # <<>>,
                        gen[g].limit.op \in {"<=", "<", ">=", ">"},
                        NEW id \in Ids(gen[g].bound),
                        RowOf(id, gen[g].bound).type # "Boolean",
                        OnGrid(RowOf(id, gen[g].bound)),
                        NEW n \in RowOf(id, gen[g].bound).lo .. RowOf(id, gen[g].bound).hi,
                        Satisfies(n, gen[g].limit)
                 PROVE  Satisfies(gen[g].floor[1].values[id].n, gen[g].limit)
        BY DEF ConservativeSatisfies
    <2>1. gen[g] \in Generations /\ Bound(gen[g].bound) /\ MadeFor(gen[g])
        BY DEF Inv, RequestsGood, GoodRequest, FloorsMade
    <2>2. gen[g].limit \in Limit /\ id \in Id
        BY <2>1 DEF Generations, Bound, Ids, Rows
    <2>3. gen[g].count \in Positive /\ gen[g].floor = Floor(gen[g].bound, gen[g].limit, gen[g].count)
        BY <2>1 DEF MadeFor, Positive
    <2> QED
        BY <2>1, <2>2, <2>3, FloorConservative
<1> QED
    BY <1>1, <1>2, <1>3, Invariant, PTL DEF Spec
================================================================================
