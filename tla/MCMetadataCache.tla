-------------------------- MODULE MCMetadataCache --------------------------
(* An instance of MetadataCache for TLC: everything may go wrong but a read *)
(* of a good file.                                                          *)
EXTENDS MetadataCache

MCFaults == {"crash", "stall", "expire", "write_error"}
=============================================================================
