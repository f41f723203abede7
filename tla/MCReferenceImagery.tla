------------------------ MODULE MCReferenceImagery -------------------------
(* ReferenceImagery with two projects and three areas, the first two of which *)
(* have the same tiles.  Operations, projects and these two are alike.        *)
EXTENDS ReferenceImagery, TLC

CONSTANTS a1, a2, a3, b1, b2

MCBoundsOf == [a \in Areas |-> IF a = a3 THEN b2 ELSE b1]

MCSymmetry == Permutations(Operations) \cup Permutations(Projects) \cup Permutations({a1, a2})

\* The properties say nothing once two operations on a project have met.
NotMet == ~met
=============================================================================
