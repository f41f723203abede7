--------------------------- MODULE MCExportJobs ----------------------------
EXTENDS ExportJobs, TLC

MCBuildErrors == {"build_error"}
=============================================================================
