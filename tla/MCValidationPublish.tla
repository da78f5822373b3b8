------------------------- MODULE MCValidationPublish -------------------------
(* Instances of ValidationPublish for TLC.                                    *)
EXTENDS ValidationPublish, TLC

CONSTANTS m1, a1, d1, d2, s1, s2, g1, g2, g3

OneManualOneAuto == {m1, a1}
OneManual  == {m1}
OneAuto    == {a1}
NoAuto     == {}
TwoDeletes == {d1, d2}
OneDelete  == {d1}
TwoTargets == {s1, s2}
ThreeModels == {g1, g2, g3}
BareSaves == {[target |-> t, model |-> None] : t \in TwoTargets}

(* With s2 also any model, whether it is there, elsewhere, or nowhere.        *)
FreeSaves ==
    BareSaves \cup {[target |-> s2, model |-> m] : m \in ThreeModels}

Symmetry == Permutations(ThreeModels) \cup Permutations(TwoDeletes)
==============================================================================
