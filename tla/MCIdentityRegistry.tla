-------------------------- MODULE MCIdentityRegistry --------------------------
(***************************************************************************)
(* Model-checking instance of IdentityRegistry: two entities, one native   *)
(* id they contend for, one shared property.                               *)
(***************************************************************************)
EXTENDS IdentityRegistry, TLC

CONSTANTS a, b, n, u, v1, v2, r1, r2, r3, r4

Asks(op, cg) == [op |-> op, cg |-> cg, native |-> None, name |-> None, value |-> None]

MCJob ==
    {Asks("mint", a), Asks("mint", b), Asks("publish", a)}
        \cup {[Asks(op, cg) EXCEPT !.native = n] : op \in {"bind", "detach"}, cg \in {a, b}}
        \cup {[Asks("write", a) EXCEPT !.name = u, !.value = x] : x \in {v1, v2}}

Symmetry == Permutations(Request) \cup Permutations(Value)
===============================================================================
