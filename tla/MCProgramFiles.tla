--------------------------- MODULE MCProgramFiles ---------------------------
(* Two markers, one process that reads and one compiler.                   *)
EXTENDS ProgramFiles
=============================================================================
