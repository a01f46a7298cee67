----------------------------- MODULE MCDebugger -----------------------------
(***************************************************************************)
(* The test programs of the debugger as an instance for TLC.               *)
(***************************************************************************)
EXTENDS DebuggerTests

TestFns == {F1, F2, F3}
Known == {"T1_03", "T2_12", "T2_19", "T2_26", "T2_28", "T4_05"}
OtherTests == DOMAIN Tests \ Known
RemoveTest == {"T2_26"}
=============================================================================
