------------------------------- MODULE MCPipe -------------------------------
(***************************************************************************)
(* Small instances of Pipe for TLC.                                        *)
(***************************************************************************)
EXTENDS PipeProperties, TLC

CONSTANTS f1, f2, f3, f4, x1, x2, a, b

\* Pages are interchangeable: the allocator may return any of them.
Pages == Permutations({f1, f2, f3, f4} \cap FileIds) \cup
         Permutations({x1, x2} \cap PipeIds)

Fds2 == 3..4
Fds3 == 3..5
=============================================================================
