--------------------------- MODULE MCInputGeneration ---------------------------
(***************************************************************************)
(* Instances of InputGeneration: a height h and a switch w; the slider of  *)
(* the height is narrowed by a second envelope, a third holds an integer   *)
(* in its place and a parameter that is not eligible, and a fourth has a   *)
(* slider whose bounds have more decimal places than its step. The unit is *)
(* a hundredth.                                                            *)
(***************************************************************************)
EXTENDS InputGeneration, TLC

CONSTANTS g1, a1, h, w

MCId == {h, w}

Slider(cg, type, lo, hi, step) ==
    [cg |-> cg, type |-> type, lo |-> lo, hi |-> hi, step |-> step, name |-> cg % 3, id |-> h,
     eligible |-> TRUE]

Switch(eligible) ==
    [cg |-> 2, type |-> "Boolean", lo |-> 0, hi |-> 0, step |-> 0, name |-> 2, id |-> w,
     eligible |-> eligible]

MCEnvelope ==
    {{Slider(1, "Number", 0, 80, 20), Switch(TRUE)},
     {Slider(1, "Number", 0, 40, 10)},
     {Slider(4, "Integer", -300, 500, 0), Switch(FALSE)},
     {Slider(1, "Number", 5, 105, 10)}}

(* 0.05 + k * 0.1 in floats: all of these are rounded up but 0.25; the index  *)
(* of a value half way between two of them is rounded down.                   *)
MCPlacesUp == {<<5 + 10 * k, 10>> : k \in (0 .. 10) \ {2}}

MCLimits == {NoLimit, [op |-> ">=", value |-> 60], [op |-> "<", value |-> 10]}

OnlyHeight(strategy, height) ==
    [strategy |-> strategy, values |-> h :> Number(height) @@ w :> Absent]

Both(strategy, height, on) ==
    [strategy |-> strategy, values |-> h :> Number(height) @@ w :> Truth(on)]

Typed(cs) == [kind |-> "typed", candidates |-> cs]
Untyped(kind) == [kind |-> kind, candidates |-> <<>>]

(* Of two candidates: good ones; one far outside; one of another strategy;    *)
(* two nearly alike; two of one strategy; good ones for the height alone.     *)
MCResponse ==
    {Untyped("failed"), Untyped("truncated"), Untyped("garbled"),
     Typed(<<Both("conservative", 0, FALSE), Both("near-limit", 80, TRUE)>>),
     Typed(<<Both("conservative", 0, FALSE), Both("near-limit", 120, TRUE)>>),
     Typed(<<Both("balanced", 0, FALSE), Both("other", 80, TRUE)>>),
     Typed(<<Both("conservative", 20, FALSE), Both("balanced", 20, FALSE)>>),
     Typed(<<OnlyHeight("balanced", 0), OnlyHeight("balanced", 40)>>),
     Typed(<<OnlyHeight("balanced", 10), OnlyHeight("exploratory", 30)>>)}

================================================================================
