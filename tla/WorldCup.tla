------------------------------ MODULE WorldCup ------------------------------
(***************************************************************************)
(* The processes of the cricket world cup (Assignment1/190547/Part3): one  *)
(* per team, one per group and the host, with two Unix pipes per team and  *)
(* one per group.  A process that runs matches asks two teams for a score  *)
(* each, first for the toss and then ball by ball, and waits for both.     *)
(*                                                                         *)
(* Every process holds both ends of every pipe, so a read of an empty pipe *)
(* waits for ever and never sees an end of file.  At most two bytes are in *)
(* a pipe, so that writes do not wait; writes in a row to pipes whose      *)
(* readers do not tell the order apart are one step.                       *)
(***************************************************************************)
EXTENDS Naturals, Sequences, FiniteSetsExt

CONSTANTS N,        \* teams of a group (4)
          BALLS,    \* balls of an innings (120)
          WICKETS,  \* wickets of an innings (10)
          Files,    \* the contents the teams' files can have: one file per team
          Leftover  \* what the stack can hold: sets of processes whose buffers
                    \* of two bytes, one of them read, do not end in 0

Teams == 0 .. 2 * N - 1
Groups == {0, 1}
Host == 2
Runners == Groups \cup {Host}     \* the processes that run matches

ASSUME WorldCupAssumption ==
    /\ N \in Nat \ {0, 1} /\ BALLS \in Nat \ {0} /\ WICKETS \in Nat \ {0}
    /\ Files \subseteq [Teams -> Seq(Nat)]
    /\ Leftover \subseteq [teams : SUBSET Teams, runners : SUBSET Runners]

VARIABLES file,       \* the scores of each team, never changed
          offset,     \* bytes each team has read of its file
          listens,    \* the teams that are in their loop
          commpipe,   \* per team: "1", send a score, or "0", end
          matchpipe,  \* per team: the scores sent
          run,        \* the position of each runner in its match
          points,     \* the points table
          grppipe,    \* per group: the winner, if written
          left        \* the member of Leftover that is the case

vars == <<file, offset, listens, commpipe, matchpipe, run, points, grppipe, left>>

Member(g) == N * g .. N * g + N - 1

\* The pair of teams that follows in the two nested loops; none after the last.
NextPair(a, b, g) ==
    IF b < Max(Member(g)) THEN <<a, b + 1>>
    ELSE IF a + 1 < b THEN <<a + 1, a + 2>> ELSE <<>>

NewMatch(a, b) ==
    [at |-> "ask", first |-> a, second |-> b, team1 |-> a, team2 |-> b, innings |-> 0,
     i |-> 1, curWkt |-> 0, totalRuns1 |-> 0, totalRuns2 |-> 0, s1 |-> 0]

\* The teams are spawned and the groups are forked.
Init ==
    /\ file \in Files
    /\ left \in Leftover
    /\ offset = [t \in Teams |-> 0] /\ listens = Teams
    /\ commpipe = [t \in Teams |-> <<>>] /\ matchpipe = [t \in Teams |-> <<>>]
    /\ points = [t \in Teams |-> 0] /\ grppipe = [g \in Groups |-> <<>>]
    /\ run = [r \in Runners |-> IF r = Host THEN [NewMatch(0, 0) EXCEPT !.at = "waitpid"]
                                ELSE NewMatch(N * r, N * r + 1)]

Send(t, msg) == commpipe' = [u \in Teams |-> IF u \in t THEN Append(commpipe[u], msg)
                                                        ELSE commpipe[u]]

-----------------------------------------------------------------------------
\* A team: one message, one score.

\* A message that is not the string "1", for what it says or for what the stack
\* left behind it, ends the team, and so does the end of its file.
teamPlay(t) ==
    /\ t \in listens /\ commpipe[t] # <<>>
    /\ LET playing == Head(commpipe[t]) = "1" /\ t \notin left.teams /\ offset[t] < Len(file[t])
       IN /\ offset' = [offset EXCEPT ![t] = IF playing THEN @ + 1 ELSE @]
          /\ matchpipe' = [matchpipe EXCEPT ![t] =
                             IF playing THEN Append(@, file[t][offset[t] + 1]) ELSE @]
          /\ listens' = IF playing THEN listens ELSE listens \ {t}
    /\ commpipe' = [commpipe EXCEPT ![t] = Tail(@)]
    /\ UNCHANGED <<file, run, points, grppipe, left>>

-----------------------------------------------------------------------------
\* A match.

\* A runner asks both teams for a score.
Ask(r) ==
    /\ run[r].at = "ask"
    /\ Send({run[r].team1, run[r].team2}, "1")
    /\ run' = [run EXCEPT ![r].at = "read1"]
    /\ UNCHANGED <<file, offset, listens, matchpipe, points, grppipe, left>>

\* The number a digit and the byte behind it spell; the byte may be a digit too.
Atoi(r, byte) == IF r \in left.runners THEN 10 * byte + 1 ELSE byte

ReadScore1(r) ==
    /\ run[r].at = "read1" /\ matchpipe[run[r].team1] # <<>>
    /\ run' = [run EXCEPT ![r].at = "read2",
                          ![r].s1 = Atoi(r, Head(matchpipe[run[r].team1]))]
    /\ matchpipe' = [matchpipe EXCEPT ![run[r].team1] = Tail(@)]
    /\ UNCHANGED <<file, offset, listens, commpipe, points, grppipe, left>>

\* The toss: an even sum sends the second team in to bat first.
Tossed(m, s2) ==
    LET swap == (m.s1 + s2) % 2 = 0
    IN [m EXCEPT !.at = "open", !.s1 = 0,
                 !.team1 = IF swap THEN m.team2 ELSE m.team1,
                 !.team2 = IF swap THEN m.team1 ELSE m.team2]

\* The score of a ball is that of the batting side, or a wicket.
Batted(m, s2) ==
    LET wicket == m.s1 = s2
    IN [m EXCEPT !.at = "ask", !.s1 = 0, !.i = @ + 1,
                 !.curWkt = IF wicket THEN @ + 1 ELSE @,
                 !.totalRuns1 = IF m.innings = 1 /\ ~wicket THEN @ + m.s1 ELSE @,
                 !.totalRuns2 = IF m.innings = 2 /\ ~wicket THEN @ + s2 ELSE @]

InningsOver(m) ==
    \/ m.curWkt = WICKETS \/ m.i > BALLS
    \/ m.innings = 2 /\ m.totalRuns2 > m.totalRuns1

Scored(m, s2) ==
    IF m.innings = 0 THEN Tossed(m, s2)
    ELSE LET b == Batted(m, s2)
         IN IF ~InningsOver(b) THEN b
            ELSE IF b.innings = 1 THEN [b EXCEPT !.innings = 2, !.i = 1, !.curWkt = 0]
                                  ELSE [b EXCEPT !.at = "over"]

ReadScore2(r) ==
    /\ run[r].at = "read2" /\ matchpipe[run[r].team2] # <<>>
    /\ run' = [run EXCEPT ![r] = Scored(@, Atoi(r, Head(matchpipe[run[r].team2])))]
    /\ matchpipe' = [matchpipe EXCEPT ![run[r].team2] = Tail(@)]
    /\ UNCHANGED <<file, offset, listens, commpipe, points, grppipe, left>>

\* The output file; a runner that cannot open it exits with -1.
OpenOutput(r) ==
    /\ run[r].at = "open"
    /\ \/ run' = [run EXCEPT ![r].at = "ask", ![r].innings = 1]
       \/ run' = [run EXCEPT ![r].at = "failed"]
    /\ UNCHANGED <<file, offset, listens, commpipe, matchpipe, points, grppipe, left>>

\* Mutant: a tie goes to the team that batted first.
X_Winner(m) == IF m.totalRuns2 > m.totalRuns1 THEN m.team2 ELSE m.team1

\* A tie goes to the team with the lower index.
Winner(m) == IF m.totalRuns2 > m.totalRuns1 THEN m.team2
             ELSE IF m.totalRuns2 < m.totalRuns1 THEN m.team1
             ELSE Min({m.team1, m.team2})

-----------------------------------------------------------------------------
\* A group and the host.

Leader(table, g) ==
    Min({t \in Member(g) : \A u \in Member(g) : table[u] <= table[t]})

MatchOver(g) ==
    /\ run[g].at = "over"
    /\ points' = [points EXCEPT ![Winner(run[g])] = @ + 1]
    /\ LET pair == NextPair(run[g].first, run[g].second, g)
       IN run' = [run EXCEPT ![g] = IF pair = <<>> THEN [@ EXCEPT !.at = "elect"]
                                    ELSE NewMatch(pair[1], pair[2])]
    /\ UNCHANGED <<file, offset, listens, commpipe, matchpipe, grppipe, left>>

\* Mutant: all teams of the group are ended.
X_Losers(g) == Member(g)

Losers(g) == Member(g) \ {Leader(points, g)}

\* The group ends its losers, tells the host its leader and exits.
EndGroup(g) ==
    /\ run[g].at = "elect"
    /\ Send(Losers(g), "0")
    /\ grppipe' = [grppipe EXCEPT ![g] = <<Leader(points, g)>>]
    /\ run' = [run EXCEPT ![g].at = "exited"]
    /\ UNCHANGED <<file, offset, listens, matchpipe, points, left>>

\* The host waits for both groups, then reads the winners.  It compares the
\* status of waitpid with -1, which the status of exit(-1) is not: a group that
\* failed is not noticed, and the read of its pipe does not return.
conductGroupMatches ==
    /\ run[Host].at = "waitpid"
    /\ \A g \in Groups : run[g].at \in {"exited", "failed"} /\ grppipe[g] # <<>>
    /\ run' = [run EXCEPT ![Host] = NewMatch(grppipe[0][1], grppipe[1][1])]
    /\ grppipe' = [g \in Groups |-> <<>>]
    /\ UNCHANGED <<file, offset, listens, commpipe, matchpipe, points, left>>

\* Mutant: the winner of the final plays on.
X_Finalists == {run[Host].team1, run[Host].team2} \ {Winner(run[Host])}

Finalists == {run[Host].team1, run[Host].team2}

\* After the final the host ends both finalists and itself.
main ==
    /\ run[Host].at = "over"
    /\ Send(Finalists, "0")
    /\ run' = [run EXCEPT ![Host].at = "exited"]
    /\ UNCHANGED <<file, offset, listens, matchpipe, points, grppipe, left>>

-----------------------------------------------------------------------------
Match(r) == Ask(r) \/ ReadScore1(r) \/ ReadScore2(r) \/ OpenOutput(r)

Group(g) == Match(g) \/ MatchOver(g) \/ EndGroup(g)

HostStep == Match(Host) \/ conductGroupMatches \/ main

Next ==
    \/ \E t \in Teams : teamPlay(t)
    \/ \E g \in Groups : Group(g)
    \/ HostStep

\* Every process that is not waiting in a read or a waitpid gets on.
Fairness ==
    /\ \A t \in Teams : WF_vars(teamPlay(t))
    /\ \A g \in Groups : WF_vars(Group(g))
    /\ WF_vars(HostStep)

Spec == Init /\ [][Next]_vars /\ Fairness
=============================================================================
