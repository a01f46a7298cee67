------------------------- MODULE WorldCupProperties -------------------------
(***************************************************************************)
(* What the processes of the world cup promise together.  The result is    *)
(* stated as a function of the teams' files alone: an innings by sets of   *)
(* balls, the matches of a group one after the other.                      *)
(***************************************************************************)
EXTENDS WorldCup, FiniteSets

Clean == left.teams = {} /\ left.runners = {}

-----------------------------------------------------------------------------
\* The result as a function of the files f; x[t] is what t has read so far.

\* The scores of an innings of team t that has read x before it.
BallScores(f, t, x) == [k \in 1 .. BALLS |-> f[t][x + k]]

Outs(bat, bowl, n) == {k \in 1 .. n : bat[k] = bowl[k]}

Runs(bat, bowl, n) == SumFunctionOnSet(bat, (1 .. n) \ Outs(bat, bowl, n))

\* Whether an innings is over after n balls; no side has a target of 0 runs.
Ends(bat, bowl, target, n) ==
    \/ n = BALLS
    \/ Cardinality(Outs(bat, bowl, n)) = WICKETS
    \/ target # 0 /\ Runs(bat, bowl, n) >= target

Innings(bat, bowl, target) ==
    LET n == Min({k \in 1 .. BALLS : Ends(bat, bowl, target, k)})
    IN [balls |-> n, runs |-> Runs(bat, bowl, n)]

\* The winner of a match of a and b, and the bytes all have read after it.
Result(f, a, b, x) ==
    LET swap == (f[a][x[a] + 1] + f[b][x[b] + 1]) % 2 = 0
        t1 == IF swap THEN b ELSE a
        t2 == IF swap THEN a ELSE b
        one == Innings(BallScores(f, t1, x[t1] + 1), BallScores(f, t2, x[t2] + 1), 0)
        two == Innings(BallScores(f, t2, x[t2] + 1 + one.balls),
                       BallScores(f, t1, x[t1] + 1 + one.balls), one.runs + 1)
        read == 1 + one.balls + two.balls
    IN [winner |-> IF one.runs > two.runs THEN t1 ELSE IF two.runs > one.runs THEN t2
                   ELSE IF a < b THEN a ELSE b,
        x |-> [x EXCEPT ![a] = @ + read, ![b] = @ + read]]

\* The points table and the bytes read after a match of a and b.
Played(f, a, b, table) ==
    LET r == Result(f, a, b, table.x)
    IN [x |-> r.x, points |-> [table.points EXCEPT ![r.winner] = @ + 1]]

\* After the matches of team a with the teams up to b, for b \in a .. hi.
Row(f, a, hi, table) ==
    LET after[b \in a .. hi] == IF b = a THEN table ELSE Played(f, a, b, after[b - 1])
    IN after

\* Before the matches of team a with those behind it, for a \in lo .. hi.
Rows(f, lo, hi) ==
    LET before[a \in lo .. hi] ==
          IF a = lo THEN [x |-> [t \in Teams |-> 0], points |-> [t \in Teams |-> 0]]
          ELSE Row(f, a - 1, hi, before[a - 1])[hi]
    IN before

GroupTable(f, g) == Rows(f, N * g, N * g + N - 1)[N * g + N - 1]

GroupWinner(f, g) == Leader(GroupTable(f, g).points, g)

\* The final goes on where the groups of the finalists a and b stopped.
FinalStart(f) == [t \in Teams |-> GroupTable(f, IF t < N THEN 0 ELSE 1).x[t]]

FinalWinner(f, a, b) == Result(f, a, b, FinalStart(f)).winner

\* Whatever the order in which teams, groups and host run, the winners of the
\* groups, which are the finalists, and the winner of the final are those the
\* files determine (utils.c:72-297).
ResultExact ==
    Clean =>
       /\ \A g \in Groups :
            grppipe[g] # <<>> \/ run[Host].at = "over" =>
               \E w \in {GroupWinner(file, g)} :
                  /\ grppipe[g] \in {<<>>, <<w>>}
                  /\ run[Host].at = "over" =>
                       w = IF g = 0 THEN run[Host].first ELSE run[Host].second
       /\ run[Host].at = "over" =>
            Winner(run[Host]) = FinalWinner(file, run[Host].first, run[Host].second)

-----------------------------------------------------------------------------
\* Runner r waits for a score of team t.
Awaits(r, t) == \/ run[r].at = "read1" /\ t \in {run[r].team1, run[r].team2}
                \/ run[r].at = "read2" /\ t = run[r].team2

\* A team has one message to answer, or one answer to be read, exactly while a
\* match waits for it, and it is told to end only when no match needs it: no
\* score is left for a later ball or match to take, no team listens to a match
\* that is over, even if other processes fail.
InStep ==
    \A t \in listens :
       \/ commpipe[t] = <<"0">> /\ matchpipe[t] = <<>> /\ \A r \in Runners : ~Awaits(r, t)
       \/ Len(commpipe[t]) + Len(matchpipe[t]) =
             IF \E r \in Runners : Awaits(r, t) THEN 1 ELSE 0

\* If the files are long enough, the output files can be opened and no buffer
\* holds leftovers, every process ends, and no message is left over.
EveryoneEnds ==
    (Clean /\ \A t \in Teams : Len(file[t]) >= N * (1 + 2 * BALLS)) ~>
       \/ \E r \in Runners : run[r].at = "failed"
       \/ /\ listens = {} /\ \A r \in Runners : run[r].at = "exited"
          /\ \A t \in Teams : commpipe[t] = <<>> /\ matchpipe[t] = <<>>
=============================================================================
