------------------------------ MODULE MCPPipe -------------------------------
(***************************************************************************)
(* Small instances of PPipe for TLC.                                       *)
(***************************************************************************)
EXTENDS PPipeProperties

CONSTANTS a, b
=============================================================================
