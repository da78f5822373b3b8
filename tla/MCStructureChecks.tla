--------------------------- MODULE MCStructureChecks ---------------------------
(***************************************************************************)
(* Model-checking instances of StructureChecks: one definition published   *)
(* in several shapes and another that makes the definition ambiguous.      *)
(***************************************************************************)
EXTENDS StructureChecks, TLC

CONSTANTS r1, r2

MCKey == {"d1", "d2", "obj:o", "a1", "a2", "p1", "p2", "t1", "t2", "v1", "v2", "i1", "i2",
          "m", "n", "w", "s1", "s2", "s3", "s4", "s5", "s6", "float", "text", "in", "out"}

Proc(id, as) == [id |-> id, alg |-> "a1", as |-> as]
Row(id, proc, as, members) == [id |-> id, proc |-> proc, as |-> as, members |-> members]
Typed(id, proc, as, members, typed) ==
    [id |-> id, proc |-> proc, as |-> as, members |-> members, typed |-> typed]

(* A parameter and an interface under the first of two procedures, wired.     *)
Whole ==
    [def |-> "d1", object |-> "obj:o", algs |-> {"a1"},
     procs |-> <<Proc("p1", "p1"), Proc("p2", "p2")>>,
     patterns |-> {[id |-> "t1", proc |-> "p1", host |-> None],
                   [id |-> "t2", proc |-> "p2", host |-> "t1"]},
     params |-> <<Typed("v1", "p1", "float", {"m"}, TRUE)>>,
     ifaces |-> <<Row("i1", "p1", "in", {"n"}), Row("i2", "p2", "in", {})>>,
     wires |-> {<<"n", "m">>}, warnings |-> {}]

(* The parameter is tagged under the other procedure, which its id names; its *)
(* wire stays, or is removed. An interface has become an output.              *)
Crossing ==
    [Whole EXCEPT !.params = <<Typed("v2", "p2", "float", {"m"}, TRUE)>>, !.patterns = {},
                  !.ifaces = <<Row("i1", "p1", "out", {"n"}), Row("i2", "p2", "in", {})>>]
Unlinked == [Crossing EXCEPT !.wires = {}]

(* No object, an interface missing, an empty algorithm, a normalized tag; a   *)
(* procedure under another name, a parameter of two types.                    *)
Sparse ==
    [Whole EXCEPT !.object = None, !.algs = {"a1", "a2"}, !.patterns = {},
                  !.procs = <<Proc("p1", "p2"), Proc("p2", "p1")>>,
                  !.params = <<Typed("v1", "p1", "float", {"m"}, TRUE),
                               Typed("v1", "p1", "text", {}, TRUE)>>,
                  !.ifaces = <<Row("i1", "p1", "in", {"n"})>>, !.warnings = {"w"}]

Other ==
    [def |-> "d2", object |-> "obj:o", algs |-> {}, procs |-> <<>>, patterns |-> {},
     params |-> <<>>, ifaces |-> <<>>, wires |-> {}, warnings |-> {}]

Untyped == [Whole EXCEPT !.params = <<Typed("v1", "p1", "float", {"m"}, FALSE)>>]
Nameless == [Whole EXCEPT !.def = None]

MCEnvelope == {Whole, Crossing, Sparse, Other, Untyped, Nameless}
Corrected == {Crossing, Unlinked}

Mapped(rule, operation, named, label, threshold) ==
    [rule |-> rule, operation |-> operation, named |-> named, label |-> label,
     threshold |-> threshold]

MCMapping ==
    {Mapped("s1", "requiresInterface", None, None, FALSE),
     Mapped("s2", "forbidsOrphan", None, "Algorithm", FALSE),
     Mapped("s3", "requiresParameter", {<<"v1", "float">>}, None, FALSE),
     Mapped("s4", "requiresProcedure", {<<"p2", "p2">>}, None, FALSE),
     Mapped("s5", "requiresProcedure", {<<"p2", "p2">>}, None, TRUE),
     Mapped("s6", "requiresInterface", {"i1", "i2"} \X {"in"}, None, FALSE)}

(* Requests are interchangeable.                                              *)
Symmetry == Permutations(Request)
================================================================================
