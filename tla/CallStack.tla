------------------------------ MODULE CallStack ------------------------------
(***************************************************************************)
(* What the debuggee does when nobody debugs it: functions call each       *)
(* other and return to where they were called from.                        *)
(***************************************************************************)
EXTENDS Sequences, SequencesExt

CONSTANTS Fns, Sites, Main

VARIABLES running,  \* the function that executes
          chain     \* the return addresses, innermost first

Init == running = Main /\ chain = <<>>

Call(g, s) == running' = g /\ chain' = <<<<running, s>>>> \o chain

Return == chain # <<>> /\ running' = chain[1][1] /\ chain' = Tail(chain)

Next == Return \/ \E g \in Fns, s \in Sites : Call(g, s)

Spec == Init /\ [][Next]_<<running, chain>>
=============================================================================
