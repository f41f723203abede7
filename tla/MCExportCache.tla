-------------------------- MODULE MCExportCache ---------------------------
EXTENDS ExportCache, TLC

MCAllFaults == FaultKinds
MCSymmetry  == Permutations(Builders)
=============================================================================
