------------------------- MODULE MCTemporalProject -------------------------
(* Instances of TemporalProject for TLC. *)
EXTENDS TemporalProject, TLC

MCAllFaults   == FaultKinds
MCOverlap     == {"overlap"}
MCInterrupt   == {"interrupt"}
MCPairFailure == {"pair_failure"}
=============================================================================
