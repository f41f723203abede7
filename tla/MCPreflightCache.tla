------------------------- MODULE MCPreflightCache --------------------------
EXTENDS PreflightCache

MCAllFaults == FaultKinds
=============================================================================
