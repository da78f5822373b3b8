-------------------------- MODULE MCStructurePreview --------------------------
(***************************************************************************)
(* Model-checking instance of StructurePreview: two documents that share   *)
(* the registry, previews of one proposal at a time.                       *)
(***************************************************************************)
EXTENDS StructurePreview, TLC

CONSTANTS d1, d2, p0, o1, o2, o3, c1

(* Bounds: three records to undo in one document (a preview, a confirmation,  *)
(* another preview), one in the other.                                        *)
UnevenHistory == [d \in Doc |-> IF d = d1 THEN 3 ELSE 1]

(* GUIDs are interchangeable; no property is a liveness one.                  *)
Symmetry == Permutations(Object)
==============================================================================
