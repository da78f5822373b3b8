--------------------------- MODULE MCKnowledgeNotes ---------------------------
(***************************************************************************)
(* Model-checking instance of KnowledgeNotes: two notes, three requests.   *)
(***************************************************************************)
EXTENDS KnowledgeNotes, TLC

CONSTANTS n1, n2, r1, r2, r3

Asks(kind, notes) == [kind |-> kind, notes |-> notes, large |-> FALSE]

MCJob ==
    {Asks("ingest", <<n1, n2>>), Asks("update", <<n1, n2>>),
     [Asks("update", <<n1>>) EXCEPT !.large = TRUE], Asks("update", <<n1, n1>>)}
        \cup {Asks(kind, <<n>>) : kind \in {"edit", "delete"}, n \in {n1, n2}}

Symmetry == Permutations(Request)
===============================================================================
