------------------------- MODULE MCProjectRecords --------------------------
(* ProjectRecords with operations of every kind, which are alike. *)
EXTENDS ProjectRecords, TLC

MCSymmetry == Permutations(Operations)
=============================================================================
