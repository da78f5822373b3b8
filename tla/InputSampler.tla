------------------------------ MODULE InputSampler ------------------------------
(***************************************************************************)
(* The arithmetic of generated inputs (cg_input_sampler.py): which values  *)
(* a published parameter admits, and the deterministic candidates of Tier  *)
(* 0 that are to lie within them.                                          *)
(*                                                                         *)
(* Numbers are counted in a unit that divides every bound, step and limit, *)
(* every decimal place round() may keep, and a twentieth of the extent of  *)
(* a row without a step, so a value is an integer; step 0 is "no step",    *)
(* where a number is not aligned and the nearest unit stands for it.       *)
(* Floats are exact in that unit, except that their binary digits decide   *)
(* where a tie is rounded to. A row is a published :Parameter; cg and name *)
(* stand for their places in the order of cgId and of parameterName, id    *)
(* for its reinstateParameterId.                                           *)
(***************************************************************************)
EXTENDS Integers, FiniteSets, FiniteSetsExt, Functions

CONSTANTS
    Parameter, \* cgIds, numbered in their order
    Id,        \* ids PARAMETER REINSTATE matches on
    One,       \* the number 1, in units
    Grains,    \* the decimal places round() may keep, 10^-1 to 10^-10, in units
    IndexUp,   \* the ties <<num, den>> rounded up where a step's index is rounded,
    PlacesUp   \*   and where a value is

ASSUME ParameterAssumption == Parameter \subseteq Nat
ASSUME UnitAssumption ==
    One \in Nat \ {0} /\ Grains \subseteq Nat \ {0} /\ Grains # {}

Type == {"Number", "Integer", "Boolean"}

(* eligible: no _exclusion_reason applies (a Variable of a supported type     *)
(* with a domain and an id).                                                  *)
Rows == [cg : Parameter, name : Nat, id : Id, type : Type, lo : Int, hi : Int, step : Nat,
         eligible : BOOLEAN]

(* A slider's minimum is not above its maximum; and the unit is as fine as    *)
(* said above.                                                                *)
InOrder(r) == r.lo <= r.hi /\ (r.step = 0 => (r.hi - r.lo) % 20 = 0)

(* _decimals_for_step: the places that repr() shows of the step, at least one *)
(* and at most ten; all ten for a step that it writes with an exponent.       *)
Grain(step) ==
    LET shown == {g \in Grains : step % g = 0}
    IN  IF shown = {} \/ 10000 * step < One THEN Min(Grains) ELSE Max(shown)

(* The bounds are a whole number of steps apart and have no more decimal      *)
(* places than the step is written with; of an Integer they are whole. Nobody *)
(* checks this of a slider: CanvasContextExtractor.cs takes its bounds as     *)
(* they are and the step from the decimals it shows.                          *)
OnGrid(r) ==
    /\ r.step # 0 => /\ (r.hi - r.lo) % r.step = 0
                     /\ r.lo % Grain(r.step) = 0 /\ r.step % Grain(r.step) = 0
    /\ r.type = "Integer" => r.lo % One = 0 /\ r.hi % One = 0 /\ r.step % One = 0

(* A value of a JSON slot: a number, a truth value or null; an assignment has *)
(* one for each id it names.                                                  *)
Value == [kind : {"number", "boolean", "null", "absent"}, n : Int]
Absent == [kind |-> "absent", n |-> 0]
Assignments == [Id -> Value]
Number(n) == [kind |-> "number", n |-> n]
Truth(b) == [kind |-> "boolean", n |-> IF b THEN 1 ELSE 0]

------------------------------------------------------------------------------
(* The bound parameters of a request: a set of rows, in the order of          *)
(* select_parameters. Where two rows have one id, dictionaries keep the last. *)

Before(r, s) == r.name < s.name \/ (r.name = s.name /\ r.cg < s.cg)

Index(r, bound) == Cardinality({s \in bound : Before(s, r)})

Ids(bound) == {r.id : r \in bound}

RowOf(id, bound) ==
    CHOOSE r \in bound : r.id = id /\ \A s \in bound : s.id = id => ~Before(r, s)

------------------------------------------------------------------------------
(* validate_candidate                                                         *)

Fits(v, r) ==
    IF r.type = "Boolean" THEN v.kind = "boolean"
    ELSE /\ v.kind = "number"
         /\ r.type = "Integer" => v.n % One = 0
         /\ r.lo <= v.n /\ v.n <= r.hi
         /\ r.step # 0 => (v.n - r.lo) % r.step = 0

Valid(values, bound) ==
    \A id \in Id :
        IF id \in Ids(bound) THEN Fits(values[id], RowOf(id, bound)) ELSE values[id] = Absent

------------------------------------------------------------------------------
(* sample_tier0                                                               *)

Strategies == <<"conservative", "balanced", "exploratory", "near-limit">>
MaxCandidates == 8

(* What a candidate may say: one of them, another word, or no candidate.      *)
Strategy == Range(Strategies) \cup {"other", "none"}

(* A rule's limit; "none" where it cannot be read or is not checkable.        *)
Limit == [op : {"<=", "<", ">=", ">", "==", "none"}, value : Int]
NoLimit == [op |-> "none", value |-> 0]

Satisfies(n, limit) ==
    CASE limit.op = "<=" -> n <= limit.value
      [] limit.op = "<" -> n < limit.value
      [] limit.op = ">=" -> n >= limit.value
      [] limit.op = ">" -> n > limit.value
      [] limit.op = "==" -> n = limit.value

(* round() of num / den: a tie goes to the even neighbour or where the binary *)
(* digits of the quotient lie; up are those that go up.                       *)
Nearest(num, den, up) ==
    LET q == num \div den
        r == 2 * (num % den)
    IN  IF r < den \/ (r = den /\ <<num, den>> \notin up) THEN q ELSE q + 1

(* round() to places of g units.                                              *)
Rounded(n, g) == Nearest(n, g, PlacesUp) * g

Clip(n, r) == IF n < r.lo THEN r.lo ELSE IF n > r.hi THEN r.hi ELSE n

(* step_align of lo + num / den: the index of the step is rounded, and the    *)
(* value then to the places the step is written with.                         *)
Aligned(num, den, lo, step) ==
    IF step = 0 THEN Nearest(lo * den + num, den, PlacesUp)
    ELSE Rounded(lo + Nearest(num, den * step, IndexUp) * step, Grain(step))

(* A defect: an Integer is left as it was aligned and clipped.                *)
Unrounded(n, r) == n

Whole(n, r) == IF r.type = "Integer" THEN Rounded(n, One) ELSE n

(* A defect: the two sides of a limit are exchanged.                          *)
LowEndFirst(r, limit) ==
    IF limit.op \in {"<=", "<"} THEN <<r.hi - r.lo, 1>> ELSE <<0, 1>>

(* Where a strategy aims: num / den above r.lo.                               *)
Conservative(r, limit) ==
    IF limit.op \in {">=", ">"} THEN <<r.hi - r.lo, 1>> ELSE <<0, 1>>

Balanced(r) == <<r.hi - r.lo, 2>>

Exploratory(r, bound) ==
    <<(2 * Index(r, bound) + 1) * (r.hi - r.lo), 2 * Cardinality(bound)>>

NearLimit(r, limit) ==
    IF limit.op = "none" THEN <<9 * (r.hi - r.lo), 10>> ELSE <<Clip(limit.value, r) - r.lo, 1>>

Aim(strategy, r, bound, limit) ==
    CASE strategy = "conservative" -> Conservative(r, limit)
      [] strategy = "balanced" -> Balanced(r)
      [] strategy = "exploratory" -> Exploratory(r, bound)
      [] strategy = "near-limit" -> NearLimit(r, limit)

Sample(strategy, r, bound, limit) ==
    IF r.type = "Boolean" THEN Truth(strategy \in {"exploratory", "near-limit"})
    ELSE LET aim == Aim(strategy, r, bound, limit)
         IN  Number(Whole(Clip(Aligned(aim[1], aim[2], r.lo, r.step), r), r))

(* _perturb: cycle more steps; where there is no step, of a twentieth of the  *)
(* extent, or of 1 where there is no extent.                                  *)
Shift(r) ==
    IF r.step # 0 THEN r.step ELSE IF r.lo = r.hi THEN One ELSE (r.hi - r.lo) \div 20

Perturbed(v, r, cycle) ==
    IF r.type = "Boolean" THEN v
    ELSE Number(Whole(Clip(Aligned(v.n - r.lo + cycle * Shift(r), 1, r.lo, Shift(r)), r), r))

(* sample_candidate_set: the strategies in turn, a later round shifted.       *)
Tier0(bound, limit, i) ==
    LET strategy == Strategies[((i - 1) % 4) + 1]
        cycle == (i - 1) \div 4
        value(id) == Sample(strategy, RowOf(id, bound), bound, limit)
    IN  [strategy |-> strategy,
         values |-> [id \in Id |->
                        IF id \notin Ids(bound) THEN Absent
                        ELSE IF cycle = 0 THEN value(id)
                        ELSE Perturbed(value(id), RowOf(id, bound), cycle)]]

Floor(bound, limit, count) == [i \in 1 .. count |-> Tier0(bound, limit, i)]

(* What Tier 0 keeps of the contract of sample_tier0: a value passes its      *)
(* check where the domain is on its grid; elsewhere aligning and rounding may *)
(* leave the grid, but a number stays within its bounds and an integer whole. *)
Assured(v, r) ==
    IF r.type = "Boolean" \/ OnGrid(r) THEN Fits(v, r)
    ELSE /\ v.kind = "number"
         /\ IF r.type = "Integer" THEN v.n % One = 0 ELSE r.lo <= v.n /\ v.n <= r.hi

AllAssured(values, bound) ==
    \A id \in Id :
        IF id \in Ids(bound) THEN Assured(values[id], RowOf(id, bound)) ELSE values[id] = Absent

------------------------------------------------------------------------------
(* is_near_duplicate: the mean distance, each parameter scaled to its domain, *)
(* is below a tenth. A parameter without extent counts as equal.              *)

Extent(r) == IF r.type = "Boolean" THEN 1 ELSE r.hi - r.lo

NearDuplicate(a, b, bound) ==
    LET wide == {r \in bound : Extent(r) # 0}
        common == MapThenFoldSet(LAMBDA x, y : x * y, 1, Extent,
                                 LAMBDA S : CHOOSE x \in S : TRUE, wide)
        gap(r) == LET d == a[r.id].n - b[r.id].n IN IF d < 0 THEN -d ELSE d
        total == MapThenSumSet(LAMBDA r : gap(r) * (common \div Extent(r)), wide)
    IN  10 * total < Cardinality(bound) * common
================================================================================
