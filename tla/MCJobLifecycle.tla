--------------------------- MODULE MCJobLifecycle ---------------------------
(* Instances of JobLifecycle for TLC: the fault sets of the runs. *)
EXTENDS JobLifecycle, TLC

MCCallbackProgress == {40}
MCNoFaults         == {}
MCCrashes          == {"api_crash", "worker_crash", "database"}
MCRedelivery       == {"visibility_timeout", "ambiguous_send"}

MCSymmetry == Permutations(Workers)
=============================================================================
