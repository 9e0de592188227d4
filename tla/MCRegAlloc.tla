----------------------------- MODULE MCRegAlloc -----------------------------
(* Instances of RegAlloc for TLC. *)
EXTENDS RegAlloc, TLC

CONSTANTS v1, v2, w

\* one register bank
NumParts1 == [v \in AllVals |-> 1]
NumParts2 == [v \in AllVals |-> IF v = v1 THEN 2 ELSE 1]
Bank0     == [v \in AllVals |-> 0]
NumFixed1 == [b \in {0} |-> 1]
Symmetry == Permutations(VRefs) \cup Permutations(PRefs)
SymmetryV == Symmetry \cup Permutations(Values)
====
