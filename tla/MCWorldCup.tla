----------------------------- MODULE MCWorldCup -----------------------------
(***************************************************************************)
(* Files and leftovers for TLC.  A file is one of a few patterns: runs in  *)
(* groups of two and three, so that balls of two teams agree now and then, *)
(* in long files; and a file that ends in the first match.                 *)
(***************************************************************************)
EXTENDS WorldCupProperties

Long == N * (1 + 2 * BALLS)

Patterns == <<[i \in 1 .. Long |-> (i \div 2) % 2],
              [i \in 1 .. Long |-> (i \div 3) % 3],
              [i \in 1 .. Long |-> i % 3],
              [i \in 1 .. 3 |-> 1]>>

\* Two teams of the first group have any pattern.
SmallFiles ==
    {[t \in Teams |-> Patterns[IF t < 2 THEN c[t] ELSE 1 + (t % 3)]] : c \in [0 .. 1 -> 1 .. 4]}

\* No leftovers, a team with some, a group with some.
SmallLeftover ==
    {[teams |-> {}, runners |-> {}], [teams |-> {1}, runners |-> {}],
     [teams |-> {}, runners |-> {1}]}
=============================================================================
