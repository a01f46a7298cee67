--------------------------- MODULE WorldCup_proofs ---------------------------
(***************************************************************************)
(* Teams and matches stay in step (InStep), for any number of teams, balls *)
(* and wickets, any files and any leftovers, and whichever processes fail. *)
(* Where nothing is left over, the winners are those of the files          *)
(* (ResultExact): at every step groups, final and teams are where the      *)
(* scores taken so far put them (ResultInv).                               *)
(***************************************************************************)
EXTENDS WorldCupProperties, WellFoundedInduction, SequenceTheorems, FiniteSetTheorems,
        TLAPS

Stages == {"ask", "read1", "read2", "open", "over", "elect", "exited", "failed", "waitpid"}
Idle == {"exited", "failed", "waitpid"}

MatchState == [at : Stages, first : Teams, second : Teams, team1 : Teams, team2 : Teams,
               innings : Nat, i : Nat, curWkt : Nat, totalRuns1 : Nat,
               totalRuns2 : Nat, s1 : Nat]

\* Types of the state.
TypeInv ==
  /\ file \in [Teams -> Seq(Nat)] /\ offset \in [Teams -> Nat]
  /\ listens \subseteq Teams
  /\ commpipe \in [Teams -> Seq({"0", "1"})] /\ matchpipe \in [Teams -> Seq(Nat)]
  /\ run \in [Runners -> MatchState]
  /\ points \in [Teams -> Nat] /\ \E most \in Nat : \A t \in Teams : points[t] <= most
  /\ grppipe \in [Groups -> Seq(Teams)]

\* The team has not been told to end, or does not listen any more.
Retained(t) == t \in listens => commpipe[t] # <<"0">>

\* A group matches two different teams of its own, and has ended none of its
\* teams until it exits.
GroupInv(g) ==
  /\ run[g].at # "waitpid"
  /\ run[g].first \in Member(g) /\ run[g].second \in Member(g)
  /\ run[g].first < run[g].second
  /\ run[g].team1 \in Member(g) /\ run[g].team2 \in Member(g)
  /\ run[g].team1 # run[g].team2
  /\ run[g].at # "exited" => /\ \A t \in Member(g) : Retained(t)
                             /\ grppipe[g] = <<>> /\ run[Host].at = "waitpid"
  /\ grppipe[g] # <<>> => /\ grppipe[g][1] \in Member(g) /\ Retained(grppipe[g][1])
                          /\ run[Host].at = "waitpid"

\* The host matches the winner of one group with that of the other.
HostInv ==
  run[Host].at \notin Idle =>
    \E a \in Member(0), b \in Member(1) :
      /\ {run[Host].team1, run[Host].team2} = {a, b}
      /\ Retained(a) /\ Retained(b)

Awaited(t) == \E r \in Runners : Awaits(r, t)

\* InStep with the messages that there can be.
TeamInv(t) ==
  t \in listens =>
    \/ commpipe[t] = <<"0">> /\ matchpipe[t] = <<>> /\ ~Awaited(t)
    \/ commpipe[t] = <<"1">> /\ matchpipe[t] = <<>> /\ Awaited(t)
    \/ commpipe[t] = <<>> /\ Len(matchpipe[t]) = 1 /\ Awaited(t)
    \/ commpipe[t] = <<>> /\ matchpipe[t] = <<>> /\ ~Awaited(t)

Inv == /\ TypeInv
       /\ \A g \in Groups : GroupInv(g)
       /\ HostInv
       /\ \A t \in Teams : TeamInv(t)

-----------------------------------------------------------------------------
LEMMA LeastNumber ==
  ASSUME NEW S \in SUBSET Nat, S # {}
  PROVE  \E n \in S : \A m \in S : n <= m
<1>1. \E n \in S : \A m \in S : ~(m < n)
  <2>1. \E n \in S : \A m \in S : <<m, n>> \notin OpToRel(<, Nat)
    BY NatLessThanWellFounded, WFMin
  <2> QED BY <2>1 DEF OpToRel
<1> QED BY <1>1

\* Queues of at most one message.
LEMMA Queues ==
  /\ \A x : /\ Append(<<>>, x) = <<x>> /\ Tail(<<x>>) = <<>> /\ Head(<<x>>) = x
            /\ Len(<<x>>) = 1 /\ <<x>> # <<>>
  /\ \A q \in Seq(Nat) : Len(q) = 1 => q # <<>> /\ Tail(q) = <<>> /\ Head(q) \in Nat
  /\ Len(<<>>) = 0 /\ <<"0">> # <<"1">>
<1>1. ASSUME NEW x PROVE Append(<<>>, x) = <<x>> /\ Tail(<<x>>) = <<>> /\ Head(<<x>>) = x
                         /\ Len(<<x>>) = 1 /\ <<x>> # <<>>
  OBVIOUS
<1>2. ASSUME NEW q \in Seq(Nat), Len(q) = 1
      PROVE  q # <<>> /\ Tail(q) = <<>> /\ Head(q) \in Nat
  <2>1. q # <<>>
    <3>1. Len(q) # Len(<<>>)
      BY <1>2, EmptySeq
    <3> QED BY <3>1
  <2>2. Head(q) \in Nat /\ Tail(q) \in Seq(Nat) /\ Len(Tail(q)) = 0
    BY <1>2, <2>1, HeadTailProperties
  <2> QED BY <2>1, <2>2, EmptySeq
<1>3. <<"0">>[1] # <<"1">>[1]
  OBVIOUS
<1> QED BY <1>1, <1>2, <1>3

\* The two groups have no team in common.
LEMMA Members ==
  /\ Member(0) = 0 .. N - 1 /\ Member(1) = N .. 2 * N - 1
  /\ \A g \in Groups : /\ Member(g) \subseteq Teams /\ Member(g) # {}
                       /\ Max(Member(g)) \in Member(g)
                       /\ \A t \in Member(g) : t <= Max(Member(g))
  /\ Member(0) \cap Member(1) = {}
  /\ Runners = {0, 1, 2} /\ Groups \subseteq Runners /\ Host \in Runners /\ Host \notin Groups
<1>1. Member(0) = 0 .. N - 1 /\ Member(1) = N .. 2 * N - 1
  BY WorldCupAssumption DEF Member
<1>2. \A g \in Groups : Member(g) \subseteq Teams /\ Member(g) # {}
  <2>1. \A g \in Groups : g = 0 \/ g = 1
    BY DEF Groups
  <2>2. 0 \in Member(0) /\ N \in Member(1)
    BY <1>1, WorldCupAssumption
  <2>3. Member(0) \subseteq Teams /\ Member(1) \subseteq Teams
    BY <1>1, WorldCupAssumption DEF Teams
  <2> QED BY <2>1, <2>2, <2>3
<1>3. \A g \in Groups : \E x \in Member(g) : \A y \in Member(g) : x >= y
  <2>1. N - 1 \in Member(0) /\ \A y \in Member(0) : N - 1 >= y
    BY <1>1, WorldCupAssumption
  <2>2. 2 * N - 1 \in Member(1) /\ \A y \in Member(1) : 2 * N - 1 >= y
    BY <1>1, WorldCupAssumption
  <2> QED BY <2>1, <2>2 DEF Groups
<1>4. \A g \in Groups : Max(Member(g)) \in Member(g) /\ \A t \in Member(g) : Max(Member(g)) >= t
  BY <1>3 DEF Max
<1>5. \A g \in Groups : \A t \in Member(g) : t <= Max(Member(g))
  BY <1>2, <1>4, WorldCupAssumption DEF Teams
<1>6. Member(0) \cap Member(1) = {}
  BY <1>1, WorldCupAssumption
<1> QED BY <1>1, <1>2, <1>4, <1>5, <1>6 DEF Runners, Groups, Host

\* The nested loops pair two different teams of the group.
LEMMA Pairs ==
  ASSUME NEW g \in Groups, NEW a \in Member(g), NEW b \in Member(g), a < b,
         NextPair(a, b, g) # <<>>
  PROVE  LET p == NextPair(a, b, g)
         IN p[1] \in Member(g) /\ p[2] \in Member(g) /\ p[1] < p[2]
<1> DEFINE m == Max(Member(g))
<1>1. /\ m \in Member(g) /\ b <= m
      /\ \E lo \in Nat, hi \in Nat : Member(g) = lo .. hi
  <2>1. \E lo \in Nat, hi \in Nat : Member(g) = lo .. hi
    BY Members, WorldCupAssumption DEF Groups
  <2> QED BY <2>1, Members
<1> PICK lo \in Nat, hi \in Nat : Member(g) = lo .. hi
  BY <1>1
<1>2. NextPair(a, b, g) = IF b < m THEN <<a, b + 1>>
                          ELSE IF a + 1 < b THEN <<a + 1, a + 2>> ELSE <<>>
  BY DEF NextPair
<1> HIDE DEF m
<1>3. CASE b < m
  BY <1>1, <1>2, <1>3
<1>4. CASE ~(b < m)
  <2>1. a + 1 < b /\ NextPair(a, b, g) = <<a + 1, a + 2>>
    BY <1>2, <1>4
  <2> QED BY <2>1, <1>1
<1> QED BY <1>3, <1>4

\* The leader of a group is one of its teams: some team has the most points.
LEMMA Leaders ==
  ASSUME TypeInv, NEW g \in Groups
  PROVE  Leader(points, g) \in Member(g)
<1> DEFINE bounds == {n \in Nat : \A t \in Member(g) : points[t] <= n}
           best == {t \in Member(g) : \A u \in Member(g) : points[u] <= points[t]}
<1>1. \A t \in Member(g) : points[t] \in Nat
  BY Members DEF TypeInv
<1>2. bounds # {}
  BY Members DEF TypeInv
<1> PICK n \in bounds : \A k \in bounds : n <= k
  <2>1. bounds \in SUBSET Nat
    OBVIOUS
  <2> HIDE DEF bounds
  <2> QED BY <1>2, <2>1, LeastNumber
<1>3. \E t \in Member(g) : points[t] = n
  <2> SUFFICES ASSUME \A t \in Member(g) : points[t] # n PROVE FALSE
    OBVIOUS
  <2>1. \A t \in Member(g) : points[t] < n
    BY <1>1
  <2>2. PICK t \in Member(g) : points[t] < n
    BY <2>1, Members
  <2>3. n - 1 \in Nat /\ \A u \in Member(g) : points[u] <= n - 1
    BY <1>1, <2>1, <2>2
  <2>4. n - 1 \in bounds
    BY <2>3
  <2> QED BY <2>4
<1>4. best # {}
  BY <1>1, <1>3
<1>5. best \subseteq Nat
  BY Members, WorldCupAssumption DEF Teams
<1>6. \E x \in best : \A y \in best : x <= y
  <2> HIDE DEF best
  <2> QED BY <1>4, <1>5, LeastNumber
<1>7. Min(best) \in best
  BY <1>6 DEF Min
<1> QED BY <1>7 DEF Leader

-----------------------------------------------------------------------------
\* The teams of a match under way: nobody else waits for them, and none has
\* been told to end.
LEMMA Players ==
  ASSUME Inv, NEW r \in Runners, run[r].at \notin Idle,
         NEW t \in {run[r].team1, run[r].team2}
  PROVE  /\ t \in Teams /\ Retained(t) /\ run[r].team1 # run[r].team2
         /\ \A s \in Runners \ {r} : ~Awaits(s, t)
<1>1. CASE r \in Groups
  <2>1. /\ t \in Member(r) /\ Retained(t) /\ run[r].team1 # run[r].team2
        /\ run[Host].at = "waitpid"
    BY <1>1 DEF Inv, GroupInv, Idle
  <2>2. ASSUME NEW s \in Runners \ {r}, Awaits(s, t) PROVE FALSE
    <3>1. s # Host
      BY <2>1, <2>2 DEF Awaits
    <3>2. s \in Groups
      BY <3>1 DEF Runners
    <3>3. t \in Member(s)
      BY <2>2, <3>2 DEF Awaits, Inv, GroupInv
    <3> QED BY <1>1, <2>1, <3>2, <3>3, Members DEF Groups
  <2> QED BY <1>1, <2>1, <2>2, Members
<1>2. CASE r = Host
  <2> PICK a \in Member(0), b \in Member(1) :
        {run[Host].team1, run[Host].team2} = {a, b} /\ Retained(a) /\ Retained(b)
    BY <1>2 DEF Inv, HostInv
  <2>1. t \in Teams /\ Retained(t) /\ run[r].team1 # run[r].team2
    BY <1>2, Members DEF Groups
  <2>2. \A s \in Groups : run[s].at = "exited"
    BY <1>2 DEF Inv, GroupInv, Idle
  <2> QED BY <1>2, <2>1, <2>2 DEF Awaits, Runners
<1> QED BY <1>1, <1>2 DEF Runners

\* What is waited for after a step of runner r alone.
LEMMA AwaitedAfter ==
  ASSUME TypeInv, NEW r \in Runners, NEW m, run' = [run EXCEPT ![r] = m]
  PROVE  /\ run'[r] = m /\ \A s \in Runners \ {r} : run'[s] = run[s]
         /\ \A s \in Runners \ {r} : \A t : Awaits(s, t)' <=> Awaits(s, t)
         /\ \A t : Awaits(r, t)' <=> \/ m.at = "read1" /\ t \in {m.team1, m.team2}
                                     \/ m.at = "read2" /\ t = m.team2
<1>1. run'[r] = m /\ \A s \in Runners \ {r} : run'[s] = run[s]
  BY DEF TypeInv
<1> QED BY <1>1 DEF Awaits

\* A step of a match that is under way, with the teams it has.
LEMMA MatchGoesOn ==
  ASSUME Inv, NEW r \in Runners, run[r].at \notin Idle, NEW m \in MatchState,
         run' = [run EXCEPT ![r] = m],
         {m.team1, m.team2} = {run[r].team1, run[r].team2},
         m.first = run[r].first, m.second = run[r].second,
         m.at \notin {"exited", "waitpid"}, UNCHANGED grppipe,
         \A t : Retained(t) => Retained(t)'
  PROVE  run' \in [Runners -> MatchState] /\ (\A g \in Groups : GroupInv(g)') /\ HostInv'
<1>1. run'[r] = m /\ \A s \in Runners \ {r} : run'[s] = run[s]
  BY AwaitedAfter DEF Inv
<1>2. run' \in [Runners -> MatchState]
  BY DEF Inv, TypeInv
<1>3. ASSUME NEW g \in Groups PROVE GroupInv(g)'
  <2>1. GroupInv(g) /\ g \in Runners /\ g # Host /\ Host \in Runners
    BY Members DEF Inv
  <2>2. CASE g = r
    <3>1. run'[Host] = run[Host] /\ run'[g] = m
      BY <1>1, <2>1, <2>2
    <3>2. /\ {m.team1, m.team2} = {run[g].team1, run[g].team2}
          /\ m.team1 \in Member(g) /\ m.team2 \in Member(g) /\ m.team1 # m.team2
      BY <2>1, <2>2 DEF GroupInv
    <3> QED BY <2>1, <2>2, <3>1, <3>2 DEF GroupInv, Idle
  <2>3. CASE g # r
    <3>1. run'[g] = run[g]
      BY <1>1, <2>1, <2>3
    <3>2. run[g].at # "exited" \/ grppipe[g] # <<>> => run'[Host].at = "waitpid"
      BY <1>1, <2>1, <2>3 DEF GroupInv, Idle
    <3> QED BY <2>1, <3>1, <3>2 DEF GroupInv
  <2> QED BY <2>2, <2>3
<1>4. HostInv'
  <2>1. CASE r = Host
    <3> PICK a \in Member(0), b \in Member(1) :
          {run[Host].team1, run[Host].team2} = {a, b} /\ Retained(a) /\ Retained(b)
      BY <2>1 DEF Inv, HostInv
    <3> QED BY <1>1, <2>1 DEF HostInv
  <2>2. CASE r # Host
    <3>1. run'[Host] = run[Host]
      BY <1>1, <2>2, Members
    <3> QED BY <3>1 DEF Inv, HostInv
  <2> QED BY <2>1, <2>2
<1> QED BY <1>2, <1>3, <1>4

LEMMA AskStep ==
  ASSUME Inv, NEW r \in Runners, Ask(r)
  PROVE  Inv'
<1> DEFINE m == [run[r] EXCEPT !.at = "read1"]
           asked == {run[r].team1, run[r].team2}
<1>1. /\ run[r].at = "ask" /\ run[r].at \notin Idle /\ run' = [run EXCEPT ![r] = m]
      /\ run[r] \in MatchState /\ run \in [Runners -> MatchState]
  BY DEF Ask, Inv, TypeInv, Idle
<1>2. /\ m \in MatchState /\ m.at = "read1" /\ m.team1 = run[r].team1 /\ m.team2 = run[r].team2
      /\ m.first = run[r].first /\ m.second = run[r].second
  BY <1>1 DEF MatchState, Stages
<1> HIDE DEF m
<1>3. /\ listens' = listens /\ matchpipe' = matchpipe /\ grppipe' = grppipe
      /\ \A t \in Teams : commpipe'[t] = IF t \in asked THEN Append(commpipe[t], "1")
                                                        ELSE commpipe[t]
  BY DEF Ask, Send
<1>4. \A t : /\ \A s \in Runners \ {r} : Awaits(s, t)' <=> Awaits(s, t)
             /\ Awaits(r, t)' <=> t \in asked
             /\ ~Awaits(r, t)
  BY <1>1, <1>2, AwaitedAfter DEF Inv, Awaits
<1>5. ASSUME NEW t \in asked
      PROVE  /\ t \in Teams /\ Awaited(t)'
             /\ t \in listens => commpipe'[t] = <<"1">> /\ matchpipe'[t] = <<>>
  <2>1. t \in Teams /\ Retained(t) /\ \A s \in Runners \ {r} : ~Awaits(s, t)
    BY <1>1, Players
  <2>2. ~Awaited(t) /\ Awaited(t)'
    BY <1>4, <2>1 DEF Awaited
  <2>3. t \in listens => commpipe[t] = <<>> /\ matchpipe[t] = <<>>
    BY <2>1, <2>2 DEF Inv, TeamInv, Retained
  <2> QED BY <1>3, <2>1, <2>2, <2>3, Queues
<1>6. \A t \in Teams \ asked : Awaited(t)' <=> Awaited(t)
  BY <1>4 DEF Awaited
<1>7. \A t \in Teams : TeamInv(t)'
  <2> TAKE t \in Teams
  <2>1. CASE t \in asked
    BY <1>3, <1>5, <2>1 DEF TeamInv
  <2>2. CASE t \notin asked
    BY <1>3, <1>6, <2>2 DEF TeamInv, Inv
  <2> QED BY <2>1, <2>2
<1>8. \A t : Retained(t) => Retained(t)'
  <2> TAKE t
  <2> SUFFICES ASSUME Retained(t), t \in listens PROVE commpipe'[t] # <<"0">>
    BY <1>3 DEF Retained
  <2>1. t \in Teams
    BY DEF Inv, TypeInv
  <2> QED BY <1>3, <1>5, <2>1, Queues DEF Retained
<1>9. TypeInv'
  <2>1. commpipe' \in [Teams -> Seq({"0", "1"})]
    BY DEF Ask, Send, Inv, TypeInv
  <2>2. run' \in [Runners -> MatchState]
    BY <1>1, <1>2
  <2> QED BY <2>1, <2>2 DEF Ask, Inv, TypeInv
<1>10. (\A g \in Groups : GroupInv(g)') /\ HostInv'
  BY <1>1, <1>2, <1>3, <1>8, MatchGoesOn
<1> QED BY <1>7, <1>9, <1>10 DEF Inv

\* A score that is read: what both reads do to pipes and waiting.
LEMMA ScoreRead ==
  ASSUME Inv, NEW r \in Runners, run[r].at \notin Idle, NEW m \in MatchState,
         run' = [run EXCEPT ![r] = m],
         NEW u \in {run[r].team1, run[r].team2}, Awaits(r, u), matchpipe[u] # <<>>,
         matchpipe' = [matchpipe EXCEPT ![u] = Tail(@)],
         ~Awaits(r, u)', \A t : t # u => (Awaits(r, t)' <=> Awaits(r, t)),
         UNCHANGED <<listens, commpipe>>
  PROVE  /\ \A t \in Teams : TeamInv(t)'
         /\ matchpipe' \in [Teams -> Seq(Nat)]
<1>1. \A s \in Runners \ {r} : \A t : Awaits(s, t)' <=> Awaits(s, t)
  BY AwaitedAfter DEF Inv
<1>2. u \in Teams /\ \A s \in Runners \ {r} : ~Awaits(s, u)
  BY Players
<1>3. Awaited(u) /\ ~Awaited(u)'
  BY <1>1, <1>2 DEF Awaited
<1>4. \A t : t # u => (Awaited(t)' <=> Awaited(t))
  BY <1>1 DEF Awaited
<1>5. matchpipe \in [Teams -> Seq(Nat)]
  BY DEF Inv, TypeInv
<1>6. u \in listens => commpipe[u] = <<>> /\ Tail(matchpipe[u]) = <<>>
  BY <1>2, <1>3, <1>5, Queues DEF Inv, TeamInv
<1>7. matchpipe[u] \in Seq(Nat) /\ Tail(matchpipe[u]) \in Seq(Nat)
  BY <1>2, <1>5, HeadTailProperties
<1>8. /\ matchpipe'[u] = Tail(matchpipe[u])
      /\ \A t \in Teams \ {u} : matchpipe'[t] = matchpipe[t]
      /\ matchpipe' \in [Teams -> Seq(Nat)]
  BY <1>2, <1>5, <1>7
<1>9. \A t \in Teams : TeamInv(t)'
  <2> TAKE t \in Teams
  <2>1. CASE t = u
    BY <1>3, <1>6, <1>8, <2>1 DEF TeamInv
  <2>2. CASE t # u
    BY <1>4, <1>8, <2>2 DEF TeamInv, Inv
  <2> QED BY <2>1, <2>2
<1> QED BY <1>8, <1>9

\* The value that is read.
LEMMA Scores ==
  ASSUME Inv, NEW r, NEW t \in Teams, matchpipe[t] # <<>>
  PROVE  Atoi(r, Head(matchpipe[t])) \in Nat
<1>1. Head(matchpipe[t]) \in Nat
  BY HeadTailProperties DEF Inv, TypeInv
<1> QED BY <1>1 DEF Atoi

LEMMA ReadScore1Step ==
  ASSUME Inv, NEW r \in Runners, ReadScore1(r)
  PROVE  Inv'
<1> PICK u : u = run[r].team1
  OBVIOUS
<1> DEFINE m == [run[r] EXCEPT !.at = "read2", !.s1 = Atoi(r, Head(matchpipe[u]))]
<1>1. /\ run[r].at = "read1" /\ run[r].at \notin Idle /\ run' = [run EXCEPT ![r] = m]
      /\ run[r] \in MatchState /\ run \in [Runners -> MatchState]
  BY DEF ReadScore1, Inv, TypeInv, Idle
<1>2. /\ matchpipe[u] # <<>> /\ matchpipe' = [matchpipe EXCEPT ![u] = Tail(@)]
      /\ UNCHANGED <<file, offset, listens, commpipe, points, grppipe>>
  BY DEF ReadScore1
<1>3. u \in Teams /\ run[r].team2 # u
  BY <1>1, Players
<1>4. Atoi(r, Head(matchpipe[u])) \in Nat
  BY <1>2, <1>3, Scores
<1>5. /\ m \in MatchState /\ m.at = "read2" /\ m.team1 = u /\ m.team2 = run[r].team2
      /\ m.first = run[r].first /\ m.second = run[r].second
  BY <1>1, <1>4 DEF MatchState, Stages
<1> HIDE DEF m
<1>6. Awaits(r, u) /\ ~Awaits(r, u)' /\ \A t : t # u => (Awaits(r, t)' <=> Awaits(r, t))
  BY <1>1, <1>3, <1>5, AwaitedAfter DEF Inv, Awaits
<1>7. (\A t \in Teams : TeamInv(t)') /\ matchpipe' \in [Teams -> Seq(Nat)]
  BY <1>1, <1>2, <1>5, <1>6, ScoreRead
<1>8. \A t : Retained(t) => Retained(t)'
  BY <1>2 DEF Retained
<1>9. run' \in [Runners -> MatchState] /\ (\A g \in Groups : GroupInv(g)') /\ HostInv'
  BY <1>1, <1>2, <1>5, <1>8, MatchGoesOn
<1>10. TypeInv'
  BY <1>2, <1>7, <1>9 DEF Inv, TypeInv
<1> QED BY <1>7, <1>9, <1>10 DEF Inv

\* A match state that goes on with the teams and the pair of match m.
Continues(n, m) == /\ n \in MatchState /\ {n.team1, n.team2} = {m.team1, m.team2}
                   /\ n.first = m.first /\ n.second = m.second

\* What the second score does to a match.
LEMMA Updates ==
  ASSUME NEW m \in MatchState
  PROVE  /\ \A n : \A x \in Teams, y \in Teams :
              n = [m EXCEPT !.at = "open", !.s1 = 0, !.team1 = x, !.team2 = y]
                /\ {x, y} = {m.team1, m.team2} => Continues(n, m) /\ n.at = "open"
         /\ \A n : \A i \in Nat, w \in Nat, t1 \in Nat, t2 \in Nat :
              n = [m EXCEPT !.at = "ask", !.s1 = 0, !.i = i, !.curWkt = w,
                            !.totalRuns1 = t1, !.totalRuns2 = t2] =>
                Continues(n, m) /\ n.at = "ask"
         /\ \A n : n = [m EXCEPT !.innings = 2, !.i = 1, !.curWkt = 0] =>
                Continues(n, m) /\ n.at = m.at
         /\ \A n : n = [m EXCEPT !.at = "over"] => Continues(n, m) /\ n.at = "over"
<1>1. ASSUME NEW n, NEW x \in Teams, NEW y \in Teams, {x, y} = {m.team1, m.team2},
             n = [m EXCEPT !.at = "open", !.s1 = 0, !.team1 = x, !.team2 = y]
      PROVE  Continues(n, m) /\ n.at = "open"
  <2>1. /\ n \in MatchState /\ n.at = "open" /\ n.team1 = x /\ n.team2 = y
        /\ n.first = m.first /\ n.second = m.second
    BY <1>1 DEF MatchState, Stages
  <2> QED BY <1>1, <2>1 DEF Continues
<1>2. ASSUME NEW n, NEW i \in Nat, NEW w \in Nat, NEW t1 \in Nat, NEW t2 \in Nat,
             n = [m EXCEPT !.at = "ask", !.s1 = 0, !.i = i, !.curWkt = w,
                           !.totalRuns1 = t1, !.totalRuns2 = t2]
      PROVE  Continues(n, m) /\ n.at = "ask"
  <2>1. /\ n \in MatchState /\ n.at = "ask" /\ n.team1 = m.team1 /\ n.team2 = m.team2
        /\ n.first = m.first /\ n.second = m.second
    BY <1>2 DEF MatchState, Stages
  <2> QED BY <2>1 DEF Continues
<1>3. ASSUME NEW n, n = [m EXCEPT !.innings = 2, !.i = 1, !.curWkt = 0]
      PROVE  Continues(n, m) /\ n.at = m.at
  <2>1. /\ n \in MatchState /\ n.at = m.at /\ n.team1 = m.team1 /\ n.team2 = m.team2
        /\ n.first = m.first /\ n.second = m.second
    BY <1>3 DEF MatchState, Stages
  <2> QED BY <2>1 DEF Continues
<1>4. ASSUME NEW n, n = [m EXCEPT !.at = "over"]
      PROVE  Continues(n, m) /\ n.at = "over"
  <2>1. /\ n \in MatchState /\ n.at = "over" /\ n.team1 = m.team1 /\ n.team2 = m.team2
        /\ n.first = m.first /\ n.second = m.second
    BY <1>4 DEF MatchState, Stages
  <2> QED BY <2>1 DEF Continues
<1> QED BY <1>1, <1>2, <1>3, <1>4, Zenon

LEMMA AfterScore ==
  ASSUME NEW m \in MatchState, NEW s2 \in Nat
  PROVE  Continues(Scored(m, s2), m) /\ Scored(m, s2).at \in {"open", "ask", "over"}
<1>1. CASE m.innings = 0
  <2>1. m.team1 \in Teams /\ m.team2 \in Teams
    BY DEF MatchState
  <2>2. CASE (m.s1 + s2) % 2 = 0
    <3>1. Scored(m, s2) =
            [m EXCEPT !.at = "open", !.s1 = 0, !.team1 = m.team2, !.team2 = m.team1]
      BY <1>1, <2>2, Zenon DEF Scored, Tossed
    <3>2. {m.team2, m.team1} = {m.team1, m.team2}
      OBVIOUS
    <3>3. Continues(Scored(m, s2), m) /\ Scored(m, s2).at = "open"
      <4> PICK x \in Teams, y \in Teams : x = m.team2 /\ y = m.team1
        BY <2>1
      <4>1. Scored(m, s2) = [m EXCEPT !.at = "open", !.s1 = 0, !.team1 = x, !.team2 = y]
        BY <3>1, Zenon
      <4>0. PICK n : n = Scored(m, s2)
        OBVIOUS
      <4>2. n = [m EXCEPT !.at = "open", !.s1 = 0, !.team1 = x, !.team2 = y]
        BY <4>0, <4>1, Zenon
      <4>3. /\ n \in MatchState /\ n.at = "open" /\ n.team1 = x /\ n.team2 = y
            /\ n.first = m.first /\ n.second = m.second
        BY <4>2 DEF MatchState, Stages
      <4>4. {n.team1, n.team2} = {m.team1, m.team2}
        BY <4>3
      <4> QED BY <4>0, <4>3, <4>4 DEF Continues
    <3> QED BY <3>3, Zenon
  <2>3. CASE (m.s1 + s2) % 2 # 0
    <3>1. Scored(m, s2) =
            [m EXCEPT !.at = "open", !.s1 = 0, !.team1 = m.team1, !.team2 = m.team2]
      BY <1>1, <2>3, Zenon DEF Scored, Tossed
    <3>2. Continues(Scored(m, s2), m) /\ Scored(m, s2).at = "open"
      BY <2>1, <3>1, Updates, Zenon
    <3> QED BY <3>2, Zenon
  <2> QED BY <2>2, <2>3
<1>2. CASE m.innings # 0
  <2> DEFINE b == Batted(m, s2)
             wkt == IF m.s1 = s2 THEN m.curWkt + 1 ELSE m.curWkt
             total1 == IF m.innings = 1 /\ ~(m.s1 = s2) THEN m.totalRuns1 + m.s1
                                                        ELSE m.totalRuns1
             total2 == IF m.innings = 2 /\ ~(m.s1 = s2) THEN m.totalRuns2 + s2
                                                        ELSE m.totalRuns2
             ball == m.i + 1
  <2>1. wkt \in Nat /\ total1 \in Nat /\ total2 \in Nat /\ ball \in Nat
    BY DEF MatchState
  <2>2. b = [m EXCEPT !.at = "ask", !.s1 = 0, !.i = ball, !.curWkt = wkt,
                      !.totalRuns1 = total1, !.totalRuns2 = total2]
    BY DEF Batted, MatchState
  <2>3. \/ Scored(m, s2) = b
        \/ Scored(m, s2) = [b EXCEPT !.innings = 2, !.i = 1, !.curWkt = 0]
        \/ Scored(m, s2) = [b EXCEPT !.at = "over"]
    BY <1>2, Zenon DEF Scored
  <2> HIDE DEF b, wkt, total1, total2, ball
  <2>4. Continues(b, m) /\ b.at = "ask"
    <3> PICK i \in Nat, w \in Nat, t1 \in Nat, t2 \in Nat :
               i = ball /\ w = wkt /\ t1 = total1 /\ t2 = total2
      BY <2>1
    <3>1. b = [m EXCEPT !.at = "ask", !.s1 = 0, !.i = i, !.curWkt = w,
                        !.totalRuns1 = t1, !.totalRuns2 = t2]
      BY <2>2, Zenon
    <3>2. /\ b \in MatchState /\ b.at = "ask" /\ b.team1 = m.team1 /\ b.team2 = m.team2
          /\ b.first = m.first /\ b.second = m.second
      BY <3>1 DEF MatchState, Stages
    <3> QED BY <3>2 DEF Continues
  <2>5. \/ Continues(Scored(m, s2), b) /\ Scored(m, s2).at \in {b.at, "over"}
        \/ Scored(m, s2) = b
    <3>0. PICK n : n = Scored(m, s2)
      OBVIOUS
    <3>1. b \in MatchState
      BY <2>4 DEF Continues
    <3>2. CASE n = [b EXCEPT !.innings = 2, !.i = 1, !.curWkt = 0]
      BY <3>0, <3>1, <3>2, Updates, Zenon
    <3>3. CASE n = [b EXCEPT !.at = "over"]
      BY <3>0, <3>1, <3>3, Updates, Zenon
    <3> QED BY <2>3, <3>0, <3>2, <3>3, Zenon
  <2> QED BY <2>4, <2>5 DEF Continues
<1> QED BY <1>1, <1>2

LEMMA ReadScore2Step ==
  ASSUME Inv, NEW r \in Runners, ReadScore2(r)
  PROVE  Inv'
<1> PICK u : u = run[r].team2
  OBVIOUS
<1> DEFINE m == Scored(run[r], Atoi(r, Head(matchpipe[u])))
<1>1. /\ run[r].at = "read2" /\ run[r].at \notin Idle /\ run' = [run EXCEPT ![r] = m]
      /\ run[r] \in MatchState /\ run \in [Runners -> MatchState]
  BY DEF ReadScore2, Inv, TypeInv, Idle
<1>2. /\ matchpipe[u] # <<>> /\ matchpipe' = [matchpipe EXCEPT ![u] = Tail(@)]
      /\ UNCHANGED <<file, offset, listens, commpipe, points, grppipe>>
  BY DEF ReadScore2
<1>3. u \in Teams
  BY <1>1, Players
<1>4. Atoi(r, Head(matchpipe[u])) \in Nat
  BY <1>2, <1>3, Scores
<1>5. /\ m \in MatchState /\ m.at \in {"open", "ask", "over"}
      /\ {m.team1, m.team2} = {run[r].team1, run[r].team2}
      /\ m.first = run[r].first /\ m.second = run[r].second
  BY <1>1, <1>4, AfterScore DEF Continues
<1> HIDE DEF m
<1>6. Awaits(r, u) /\ ~Awaits(r, u)' /\ \A t : t # u => (Awaits(r, t)' <=> Awaits(r, t))
  BY <1>1, <1>5, AwaitedAfter DEF Inv, Awaits
<1>7. (\A t \in Teams : TeamInv(t)') /\ matchpipe' \in [Teams -> Seq(Nat)]
  BY <1>1, <1>2, <1>5, <1>6, ScoreRead
<1>8. \A t : Retained(t) => Retained(t)'
  BY <1>2 DEF Retained
<1>9. run' \in [Runners -> MatchState] /\ (\A g \in Groups : GroupInv(g)') /\ HostInv'
  BY <1>1, <1>2, <1>5, <1>8, MatchGoesOn
<1>10. TypeInv'
  BY <1>2, <1>7, <1>9 DEF Inv, TypeInv
<1> QED BY <1>7, <1>9, <1>10 DEF Inv

LEMMA OpenOutputStep ==
  ASSUME Inv, NEW r \in Runners, OpenOutput(r)
  PROVE  Inv'
<1>1. /\ run[r].at = "open" /\ run[r].at \notin Idle
      /\ run[r] \in MatchState /\ run \in [Runners -> MatchState]
      /\ UNCHANGED <<file, offset, listens, commpipe, matchpipe, points, grppipe>>
  BY DEF OpenOutput, Inv, TypeInv, Idle
<1>0. PICK m : /\ run' = [run EXCEPT ![r] = m]
               /\ \/ m = [run[r] EXCEPT !.at = "ask", !.innings = 1]
                  \/ m = [run[r] EXCEPT !.at = "failed"]
  BY DEF OpenOutput
<1>2. /\ m \in MatchState /\ m.at \in {"ask", "failed"}
      /\ m.team1 = run[r].team1 /\ m.team2 = run[r].team2
      /\ m.first = run[r].first /\ m.second = run[r].second
  <2>1. CASE m = [run[r] EXCEPT !.at = "ask", !.innings = 1]
    BY <1>1, <2>1 DEF MatchState, Stages
  <2>2. CASE m = [run[r] EXCEPT !.at = "failed"]
    BY <1>1, <2>2 DEF MatchState, Stages
  <2> QED BY <1>0, <2>1, <2>2
<1>3. \A s \in Runners, t \in Teams : Awaits(s, t)' <=> Awaits(s, t)
  BY <1>0, <1>1, <1>2, AwaitedAfter DEF Inv, Awaits
<1>4. \A t \in Teams : TeamInv(t)'
  BY <1>1, <1>3 DEF Inv, TeamInv, Awaited
<1>5. \A t : Retained(t) => Retained(t)'
  BY <1>1 DEF Retained
<1>6. run' \in [Runners -> MatchState] /\ (\A g \in Groups : GroupInv(g)') /\ HostInv'
  BY <1>0, <1>1, <1>2, <1>5, MatchGoesOn
<1>7. TypeInv'
  BY <1>1, <1>6 DEF Inv, TypeInv
<1> QED BY <1>4, <1>6, <1>7 DEF Inv

\* A team answers, or stops listening.
LEMMA TeamStep ==
  ASSUME Inv, NEW t \in Teams, teamPlay(t)
  PROVE  Inv'
<1>1. /\ t \in listens /\ commpipe[t] # <<>>
      /\ commpipe' = [commpipe EXCEPT ![t] = Tail(@)]
      /\ UNCHANGED <<file, run, points, grppipe>>
      /\ \/ /\ Head(commpipe[t]) = "1" /\ offset[t] < Len(file[t])
            /\ offset' = [offset EXCEPT ![t] = @ + 1]
            /\ matchpipe' = [matchpipe EXCEPT ![t] = Append(@, file[t][offset[t] + 1])]
            /\ listens' = listens
         \/ offset' = offset /\ matchpipe' = matchpipe /\ listens' = listens \ {t}
  <2>1. offset \in [Teams -> Nat] /\ matchpipe \in [Teams -> Seq(Nat)]
    BY DEF Inv, TypeInv
  <2> QED BY <2>1 DEF teamPlay
<1>2. /\ commpipe \in [Teams -> Seq({"0", "1"})] /\ matchpipe \in [Teams -> Seq(Nat)]
      /\ offset \in [Teams -> Nat] /\ file \in [Teams -> Seq(Nat)] /\ listens \subseteq Teams
  BY DEF Inv, TypeInv
<1>3. /\ commpipe[t] \in Seq({"0", "1"}) /\ Tail(commpipe[t]) \in Seq({"0", "1"})
      /\ commpipe' \in [Teams -> Seq({"0", "1"})]
      /\ commpipe'[t] = Tail(commpipe[t])
      /\ \A u \in Teams \ {t} : commpipe'[u] = commpipe[u]
  BY <1>1, <1>2, HeadTailProperties
<1>4. commpipe'[t] = <<>>
  BY <1>1, <1>3, Queues DEF Inv, TeamInv
<1>5. /\ offset' \in [Teams -> Nat] /\ matchpipe' \in [Teams -> Seq(Nat)]
      /\ listens' \subseteq listens
      /\ \A u \in Teams \ {t} : /\ matchpipe'[u] = matchpipe[u]
                                /\ u \in listens' <=> u \in listens
  <2>1. CASE /\ Head(commpipe[t]) = "1" /\ offset[t] < Len(file[t])
             /\ offset' = [offset EXCEPT ![t] = @ + 1]
             /\ matchpipe' = [matchpipe EXCEPT ![t] = Append(@, file[t][offset[t] + 1])]
             /\ listens' = listens
    <3>1. file[t][offset[t] + 1] \in Nat
      BY <1>2, <2>1
    <3>2. Append(matchpipe[t], file[t][offset[t] + 1]) \in Seq(Nat)
      BY <1>2, <3>1
    <3> QED BY <1>2, <2>1, <3>2
  <2>2. CASE offset' = offset /\ matchpipe' = matchpipe /\ listens' = listens \ {t}
    BY <1>2, <2>2
  <2> QED BY <1>1, <2>1, <2>2
<1>6. \A u : Retained(u) => Retained(u)'
  <2> TAKE u
  <2> SUFFICES ASSUME Retained(u), u \in listens' PROVE commpipe'[u] # <<"0">>
    BY DEF Retained
  <2>1. u \in listens /\ u \in Teams
    BY <1>2, <1>5
  <2> QED BY <1>3, <1>4, <2>1, Queues DEF Retained
<1>7. \A u : Awaited(u)' <=> Awaited(u)
  BY <1>1 DEF Awaited, Awaits
<1>8. TeamInv(t)'
  <2> SUFFICES ASSUME t \in listens' PROVE Len(matchpipe'[t]) = 1 /\ Awaited(t)'
    BY <1>4 DEF TeamInv
  <2>1. Head(commpipe[t]) = "1" /\ matchpipe'[t] = Append(matchpipe[t], file[t][offset[t] + 1])
    BY <1>1, <1>2
  <2>2. commpipe[t] = <<"1">> /\ matchpipe[t] = <<>> /\ Awaited(t)
    BY <1>1, <2>1, Queues DEF Inv, TeamInv
  <2> QED BY <1>7, <2>1, <2>2, Queues
<1>9. \A u \in Teams : TeamInv(u)'
  BY <1>3, <1>5, <1>7, <1>8 DEF Inv, TeamInv
<1>10. TypeInv'
  BY <1>1, <1>3, <1>5 DEF Inv, TypeInv
<1>11. \A g \in Groups : GroupInv(g)'
  BY <1>1, <1>6 DEF Inv, GroupInv
<1>12. HostInv'
  BY <1>1, <1>6 DEF Inv, HostInv
<1> QED BY <1>9, <1>10, <1>11, <1>12 DEF Inv

\* Steps of one runner that neither waits before nor after it.
LEMMA NotWaiting ==
  ASSUME Inv, NEW r \in Runners, NEW m, run' = [run EXCEPT ![r] = m],
         run[r].at \notin {"read1", "read2"}, m.at \notin {"read1", "read2"}
  PROVE  /\ \A t : Awaited(t)' <=> Awaited(t)
         /\ UNCHANGED <<listens, commpipe, matchpipe>> => \A t \in Teams : TeamInv(t)'
<1>1. \A s \in Runners : \A t : Awaits(s, t)' <=> Awaits(s, t)
  BY AwaitedAfter DEF Inv, Awaits
<1>2. \A t : Awaited(t)' <=> Awaited(t)
  BY <1>1 DEF Awaited
<1> QED BY <1>2 DEF TeamInv, Inv

LEMMA MatchOverStep ==
  ASSUME Inv, NEW g \in Groups, MatchOver(g)
  PROVE  Inv'
<1>1. /\ run[g].at = "over" /\ run \in [Runners -> MatchState] /\ run[g] \in MatchState
      /\ g \in Runners /\ g # Host /\ Host \in Runners
      /\ UNCHANGED <<file, offset, listens, commpipe, matchpipe, grppipe>>
  BY Members DEF MatchOver, Inv, TypeInv
<1>2. GroupInv(g) /\ run[Host].at = "waitpid"
  BY <1>1 DEF Inv, GroupInv
<1> DEFINE pair == NextPair(run[g].first, run[g].second, g)
<1>0. PICK m : m = IF pair = <<>> THEN [run[g] EXCEPT !.at = "elect"]
                                  ELSE NewMatch(pair[1], pair[2])
  OBVIOUS
<1>3. run' = [run EXCEPT ![g] = m]
  BY <1>0 DEF MatchOver
<1>4. /\ m \in MatchState /\ m.at \in {"elect", "ask"}
      /\ m.first \in Member(g) /\ m.second \in Member(g) /\ m.first < m.second
      /\ m.team1 \in Member(g) /\ m.team2 \in Member(g) /\ m.team1 # m.team2
  <2>1. CASE pair = <<>>
    <3>1. m = [run[g] EXCEPT !.at = "elect"]
      BY <1>0, <2>1
    <3>2. /\ m \in MatchState /\ m.at = "elect"
          /\ m.first = run[g].first /\ m.second = run[g].second
          /\ m.team1 = run[g].team1 /\ m.team2 = run[g].team2
      BY <1>1, <3>1 DEF MatchState, Stages
    <3> QED BY <1>2, <3>2 DEF GroupInv
  <2>2. CASE pair # <<>>
    <3>0. PICK a, b : a = pair[1] /\ b = pair[2]
      OBVIOUS
    <3>1. a \in Member(g) /\ b \in Member(g) /\ a < b
      BY <1>2, <2>2, <3>0, Pairs DEF GroupInv
    <3>2. a \in Teams /\ b \in Teams /\ a \in Nat /\ b \in Nat
      BY <3>1, Members, WorldCupAssumption DEF Teams
    <3>3. m = NewMatch(a, b)
      BY <1>0, <2>2, <3>0
    <3>4. /\ m \in MatchState /\ m.at = "ask" /\ m.first = a /\ m.second = b
          /\ m.team1 = a /\ m.team2 = b
      BY <3>2, <3>3 DEF NewMatch, MatchState, Stages
    <3> QED BY <3>1, <3>2, <3>4
  <2> QED BY <2>1, <2>2
<1>5. run'[g] = m /\ \A s \in Runners \ {g} : run'[s] = run[s]
  BY <1>1, <1>3
<1>6. \A t \in Teams : TeamInv(t)'
  BY <1>1, <1>3, <1>4, NotWaiting
<1>7. \A h \in Groups : GroupInv(h)'
  <2> TAKE h \in Groups
  <2>1. h \in Runners /\ run'[Host] = run[Host] /\ \A t : Retained(t) => Retained(t)'
    BY <1>1, <1>5, Members DEF Retained
  <2>2. CASE h = g
    BY <1>1, <1>2, <1>4, <1>5, <2>1, <2>2 DEF GroupInv
  <2>3. CASE h # g
    BY <1>1, <1>5, <2>1, <2>3 DEF GroupInv, Inv
  <2> QED BY <2>2, <2>3
<1>8. HostInv'
  BY <1>1, <1>2, <1>5 DEF HostInv, Idle
<1>9. points' \in [Teams -> Nat] /\ \E most \in Nat : \A t \in Teams : points'[t] <= most
  <2>1. points' = [points EXCEPT ![Winner(run[g])] = @ + 1]
    BY DEF MatchOver
  <2>2. PICK w : w = Winner(run[g])
    OBVIOUS
  <2>3. points' = [points EXCEPT ![w] = @ + 1] /\ points \in [Teams -> Nat]
    BY <2>1, <2>2 DEF Inv, TypeInv
  <2>4. PICK most \in Nat : \A t \in Teams : points[t] <= most
    BY DEF Inv, TypeInv
  <2>5. \A t \in Teams : points'[t] = IF t = w THEN points[t] + 1 ELSE points[t]
    BY <2>3
  <2>6. \A t \in Teams : points[t] \in Nat /\ points[t] <= most
    BY <2>3, <2>4
  <2>7. \A t \in Teams : points'[t] \in Nat /\ points'[t] <= most + 1
    BY <2>5, <2>6
  <2>8. points' \in [Teams -> Nat]
    BY <2>3, <2>7
  <2>9. most + 1 \in Nat
    OBVIOUS
  <2> QED BY <2>7, <2>8, <2>9
<1>10. TypeInv'
  <2>1. run' \in [Runners -> MatchState]
    BY <1>1, <1>3, <1>4
  <2> QED BY <1>1, <1>9, <2>1 DEF Inv, TypeInv
<1> QED BY <1>6, <1>7, <1>8, <1>10 DEF Inv

\* Teams that nobody waits for are told to end.
LEMMA Ended ==
  ASSUME Inv, NEW who, \A t \in who : t \in Teams /\ Retained(t) /\ ~Awaited(t),
         Send(who, "0"), UNCHANGED <<listens, matchpipe>>,
         \A t : Awaited(t)' <=> Awaited(t)
  PROVE  /\ commpipe' \in [Teams -> Seq({"0", "1"})]
         /\ \A t \in Teams : TeamInv(t)'
         /\ \A t : t \notin who /\ Retained(t) => Retained(t)'
<1>1. /\ commpipe' \in [Teams -> Seq({"0", "1"})]
      /\ \A t \in Teams : commpipe'[t] = IF t \in who THEN Append(commpipe[t], "0")
                                                     ELSE commpipe[t]
  BY DEF Send, Inv, TypeInv
<1>2. ASSUME NEW t \in Teams PROVE TeamInv(t)'
  <2>1. CASE t \in who
    <3>1. t \in listens => commpipe[t] = <<>> /\ matchpipe[t] = <<>>
      BY <2>1 DEF Inv, TeamInv, Retained
    <3>2. t \in listens => commpipe'[t] = <<"0">> /\ matchpipe'[t] = <<>> /\ ~Awaited(t)'
      BY <1>1, <2>1, <3>1, Queues
    <3> QED BY <3>2 DEF TeamInv
  <2>2. CASE t \notin who
    BY <1>1, <2>2 DEF TeamInv, Inv
  <2> QED BY <2>1, <2>2
<1>3. ASSUME NEW t, t \notin who, Retained(t) PROVE Retained(t)'
  <2>1. t \in listens => t \in Teams
    BY DEF Inv, TypeInv
  <2> QED BY <1>1, <1>3, <2>1 DEF Retained
<1> QED BY <1>1, <1>2, <1>3

LEMMA EndGroupStep ==
  ASSUME Inv, NEW g \in Groups, EndGroup(g)
  PROVE  Inv'
<1>1. /\ run[g].at = "elect" /\ run \in [Runners -> MatchState] /\ run[g] \in MatchState
      /\ g \in Runners /\ g # Host /\ Host \in Runners
      /\ UNCHANGED <<file, offset, listens, matchpipe, points>>
  BY Members DEF EndGroup, Inv, TypeInv
<1>2. GroupInv(g) /\ run[Host].at = "waitpid" /\ \A t \in Member(g) : Retained(t)
  BY <1>1 DEF Inv, GroupInv
<1>0. PICK m, w : m = [run[g] EXCEPT !.at = "exited"] /\ w = Leader(points, g)
  OBVIOUS
<1>3. /\ run' = [run EXCEPT ![g] = m] /\ m \in MatchState /\ m.at = "exited"
      /\ m.first = run[g].first /\ m.second = run[g].second
      /\ m.team1 = run[g].team1 /\ m.team2 = run[g].team2
  BY <1>0, <1>1 DEF EndGroup, MatchState, Stages
<1>4. /\ w \in Member(g) /\ Send(Member(g) \ {w}, "0")
      /\ grppipe' = [grppipe EXCEPT ![g] = <<w>>]
  BY <1>0, Leaders DEF EndGroup, Losers, Inv
<1>5. run'[g] = m /\ \A s \in Runners \ {g} : run'[s] = run[s]
  BY <1>1, <1>3
<1>6. \A t \in Member(g) : ~Awaited(t)
  <2> SUFFICES ASSUME NEW t \in Member(g), NEW s \in Runners, Awaits(s, t) PROVE FALSE
    BY DEF Awaited
  <2>1. s # g /\ s # Host
    BY <1>1, <1>2 DEF Awaits
  <2>2. s \in Groups
    BY <2>1 DEF Runners
  <2>3. t \in Member(s)
    BY <2>2 DEF Awaits, Inv, GroupInv
  <2> QED BY <2>1, <2>2, <2>3, Members DEF Groups
<1>7. \A t : Awaited(t)' <=> Awaited(t)
  BY <1>1, <1>3, NotWaiting
<1>8. /\ commpipe' \in [Teams -> Seq({"0", "1"})]
      /\ \A t \in Teams : TeamInv(t)'
      /\ \A t : t \notin Member(g) \ {w} /\ Retained(t) => Retained(t)'
  BY <1>1, <1>2, <1>4, <1>6, <1>7, Members, Ended
<1>9. /\ grppipe' \in [Groups -> Seq(Teams)] /\ grppipe'[g] = <<w>>
      /\ \A h \in Groups \ {g} : grppipe'[h] = grppipe[h]
  <2>1. <<w>> \in Seq(Teams)
    BY <1>4, Members
  <2> QED BY <1>4, <2>1 DEF Inv, TypeInv
<1>10. \A h \in Groups : GroupInv(h)'
  <2> TAKE h \in Groups
  <2>1. h \in Runners /\ run'[Host] = run[Host] /\ GroupInv(h)
    BY <1>1, <1>5, Members DEF Inv
  <2>2. CASE h = g
    <3>1. grppipe'[g][1] = w /\ Retained(w)'
      BY <1>2, <1>4, <1>8, <1>9
    <3> QED BY <1>2, <1>3, <1>4, <1>5, <2>1, <2>2, <3>1 DEF GroupInv
  <2>3. CASE h # g
    <3>1. \A t \in Member(h) : Retained(t) => Retained(t)'
      BY <1>8, <2>3, Members DEF Groups
    <3>2. run'[h] = run[h] /\ grppipe'[h] = grppipe[h]
      BY <1>5, <1>9, <2>1, <2>3
    <3> QED BY <2>1, <3>1, <3>2 DEF GroupInv
  <2> QED BY <2>2, <2>3
<1>11. HostInv'
  BY <1>1, <1>2, <1>5 DEF HostInv, Idle
<1>12. TypeInv'
  <2>1. run' \in [Runners -> MatchState]
    BY <1>1, <1>3
  <2> QED BY <1>1, <1>8, <1>9, <2>1 DEF Inv, TypeInv
<1> QED BY <1>8, <1>10, <1>11, <1>12 DEF Inv

LEMMA conductGroupMatchesStep ==
  ASSUME Inv, conductGroupMatches
  PROVE  Inv'
<1>1. /\ run[Host].at = "waitpid" /\ run \in [Runners -> MatchState]
      /\ UNCHANGED <<file, offset, listens, commpipe, matchpipe, points>>
      /\ grppipe' = [g \in Groups |-> <<>>]
      /\ \A g \in Groups : grppipe[g] # <<>> /\ run[g].at = "exited"
  <2>1. run \in [Runners -> MatchState] /\ \A g \in Groups : GroupInv(g)
    BY DEF Inv, TypeInv
  <2> QED BY <2>1 DEF conductGroupMatches, GroupInv
<1>0. PICK a, b : a = grppipe[0][1] /\ b = grppipe[1][1]
  OBVIOUS
<1>2. a \in Member(0) /\ b \in Member(1) /\ Retained(a) /\ Retained(b)
  BY <1>0, <1>1 DEF Inv, GroupInv, Groups
<1>3. a \in Teams /\ b \in Teams
  BY <1>2, Members DEF Groups
<1>4. PICK m : m = NewMatch(a, b)
  OBVIOUS
<1>5. run' = [run EXCEPT ![Host] = m]
  BY <1>0, <1>4 DEF conductGroupMatches
<1>6. m \in MatchState /\ m.at = "ask" /\ m.team1 = a /\ m.team2 = b
  BY <1>3, <1>4 DEF NewMatch, MatchState, Stages
<1>7. run'[Host] = m /\ \A g \in Groups : run'[g] = run[g]
  BY <1>1, <1>5, Members
<1>8. \A t \in Teams : TeamInv(t)'
  BY <1>1, <1>5, <1>6, Members, NotWaiting
<1>9. \A t : Retained(t) => Retained(t)'
  BY <1>1 DEF Retained
<1>10. \A g \in Groups : GroupInv(g)'
  <2> TAKE g \in Groups
  <2>1. run'[g] = run[g] /\ run[g].at = "exited" /\ grppipe'[g] = <<>>
    BY <1>1, <1>7
  <2> QED BY <2>1 DEF GroupInv, Inv
<1>11. HostInv'
  BY <1>2, <1>6, <1>7, <1>9 DEF HostInv
<1>12. TypeInv'
  <2>1. run' \in [Runners -> MatchState]
    BY <1>1, <1>5, <1>6
  <2>2. <<>> \in Seq(Teams)
    BY EmptySeq
  <2>3. grppipe' \in [Groups -> Seq(Teams)]
    BY <1>1, <2>2
  <2> QED BY <1>1, <2>1, <2>3 DEF Inv, TypeInv
<1> QED BY <1>8, <1>10, <1>11, <1>12 DEF Inv

LEMMA mainStep ==
  ASSUME Inv, main
  PROVE  Inv'
<1>1. /\ run[Host].at = "over" /\ run[Host].at \notin Idle
      /\ run \in [Runners -> MatchState] /\ run[Host] \in MatchState /\ Host \in Runners
      /\ UNCHANGED <<file, offset, listens, matchpipe, points, grppipe>>
  BY Members DEF main, Idle, Inv, TypeInv
<1>0. PICK m : m = [run[Host] EXCEPT !.at = "exited"]
  OBVIOUS
<1>2. run' = [run EXCEPT ![Host] = m] /\ m \in MatchState /\ m.at = "exited"
  BY <1>0, <1>1 DEF main, MatchState, Stages
<1>3. run'[Host] = m /\ \A g \in Groups : run'[g] = run[g]
  BY <1>1, <1>2, Members
<1>4. \A g \in Groups : run[g].at = "exited" /\ grppipe[g] = <<>>
  <2> TAKE g \in Groups
  <2>1. GroupInv(g) /\ grppipe[g] \in Seq(Teams) /\ run[Host].at # "waitpid"
    BY <1>1 DEF Inv, TypeInv
  <2> QED BY <2>1 DEF GroupInv
<1>5. \A t \in Finalists : t \in Teams /\ Retained(t) /\ ~Awaited(t)
  <2> TAKE t \in Finalists
  <2>1. t \in Teams /\ Retained(t) /\ \A s \in Runners \ {Host} : ~Awaits(s, t)
    BY <1>1, Players DEF Finalists
  <2>2. ~Awaits(Host, t)
    BY <1>1 DEF Awaits
  <2> QED BY <2>1, <2>2 DEF Awaited
<1>6. \A t : Awaited(t)' <=> Awaited(t)
  BY <1>1, <1>2, NotWaiting
<1>7. commpipe' \in [Teams -> Seq({"0", "1"})] /\ \A t \in Teams : TeamInv(t)'
  <2>1. Send(Finalists, "0")
    BY DEF main
  <2> QED BY <1>1, <1>5, <1>6, <2>1, Ended
<1>8. \A g \in Groups : GroupInv(g)'
  BY <1>1, <1>3, <1>4 DEF GroupInv, Inv
<1>9. HostInv'
  BY <1>2, <1>3 DEF HostInv, Idle
<1>10. TypeInv'
  <2>1. run' \in [Runners -> MatchState]
    BY <1>1, <1>2
  <2> QED BY <1>1, <1>7, <2>1 DEF Inv, TypeInv
<1> QED BY <1>7, <1>8, <1>9, <1>10 DEF Inv

-----------------------------------------------------------------------------
LEMMA InitInv == Init => Inv
<1> SUFFICES ASSUME Init PROVE Inv
  OBVIOUS
<1>1. /\ file \in [Teams -> Seq(Nat)] /\ listens = Teams
      /\ offset = [t \in Teams |-> 0] /\ points = [t \in Teams |-> 0]
      /\ commpipe = [t \in Teams |-> <<>>] /\ matchpipe = [t \in Teams |-> <<>>]
      /\ grppipe = [g \in Groups |-> <<>>]
      /\ run = [r \in Runners |-> IF r = Host THEN [NewMatch(0, 0) EXCEPT !.at = "waitpid"]
                                  ELSE NewMatch(N * r, N * r + 1)]
  BY WorldCupAssumption DEF Init
<1>2. /\ \A g \in Groups : N * g \in Member(g) /\ N * g + 1 \in Member(g) /\ N * g < N * g + 1
      /\ 0 \in Teams
  <2>1. N \in Nat /\ N > 1
    BY WorldCupAssumption
  <2>2. /\ N * 0 = 0 /\ N * 1 = N
    BY <2>1
  <2>3. 0 \in Member(0) /\ 1 \in Member(0) /\ N \in Member(1) /\ N + 1 \in Member(1) /\ 0 \in Teams
    BY <2>1, Members DEF Teams
  <2> QED BY <2>1, <2>2, <2>3 DEF Groups
<1>3. ASSUME NEW r \in Runners
      PROVE  /\ run[r] \in MatchState
             /\ run[r].at \notin {"read1", "read2"}
  <2>1. CASE r = Host
    <3>1. PICK m : m = NewMatch(0, 0)
      OBVIOUS
    <3>2. m \in MatchState
      BY <1>2, <3>1 DEF NewMatch, MatchState, Stages
    <3>3. run[r] = [m EXCEPT !.at = "waitpid"]
      BY <1>1, <2>1, <3>1
    <3> QED BY <3>2, <3>3 DEF MatchState, Stages
  <2>2. CASE r # Host
    <3>1. r \in Groups /\ run[r] = NewMatch(N * r, N * r + 1)
      BY <1>1, <2>2 DEF Runners
    <3>2. N * r \in Teams /\ N * r + 1 \in Teams
      BY <1>2, <3>1, Members
    <3> QED BY <3>1, <3>2 DEF NewMatch, MatchState, Stages
  <2> QED BY <2>1, <2>2
<1>4. run[Host].at = "waitpid"
  BY <1>1, Members DEF NewMatch
<1>5. \A g \in Groups : GroupInv(g)
  <2> TAKE g \in Groups
  <2>1. run[g] = NewMatch(N * g, N * g + 1) /\ grppipe[g] = <<>>
    BY <1>1, Members
  <2>2. /\ run[g].at = "ask" /\ run[g].first = N * g /\ run[g].second = N * g + 1
        /\ run[g].team1 = N * g /\ run[g].team2 = N * g + 1
    BY <2>1 DEF NewMatch
  <2>3. \A t \in Member(g) : Retained(t)
    BY <1>1, Members DEF Retained
  <2>4. N * g # N * g + 1
    BY WorldCupAssumption DEF Groups
  <2> QED BY <1>2, <1>4, <2>1, <2>2, <2>3, <2>4 DEF GroupInv
<1>6. \A t \in Teams : TeamInv(t)
  BY <1>1, <1>3 DEF TeamInv, Awaited, Awaits
<1>7. HostInv
  BY <1>4 DEF HostInv, Idle
<1>8. TypeInv
  <2>1. <<>> \in Seq(Teams) /\ <<>> \in Seq(Nat) /\ <<>> \in Seq({"0", "1"})
    BY EmptySeq
  <2>2. run \in [Runners -> MatchState]
    BY <1>1, <1>3
  <2>3. /\ commpipe \in [Teams -> Seq({"0", "1"})] /\ matchpipe \in [Teams -> Seq(Nat)]
        /\ grppipe \in [Groups -> Seq(Teams)]
    BY <1>1, <2>1
  <2>4. /\ points \in [Teams -> Nat] /\ offset \in [Teams -> Nat]
        /\ \A t \in Teams : points[t] <= 0
    BY <1>1
  <2> QED BY <1>1, <2>2, <2>3, <2>4 DEF TypeInv
<1> QED BY <1>5, <1>6, <1>7, <1>8 DEF Inv

LEMMA NextInv == Inv /\ [Next]_vars => Inv'
<1> SUFFICES ASSUME Inv, [Next]_vars PROVE Inv'
  OBVIOUS
<1>1. CASE \E t \in Teams : teamPlay(t)
  BY <1>1, TeamStep
<1>2. ASSUME NEW r \in Runners, Match(r) PROVE Inv'
  BY <1>2, AskStep, ReadScore1Step, ReadScore2Step, OpenOutputStep DEF Match
<1>3. CASE \E g \in Groups : Group(g)
  BY <1>2, <1>3, MatchOverStep, EndGroupStep, Members DEF Group
<1>4. CASE HostStep
  BY <1>2, <1>4, conductGroupMatchesStep, mainStep, Members DEF HostStep
<1>5. CASE UNCHANGED vars
  BY <1>5 DEF vars, Inv, TypeInv, GroupInv, HostInv, TeamInv, Retained, Awaited, Awaits
<1> QED BY <1>1, <1>3, <1>4, <1>5 DEF Next

\* A team has one message or one score under way exactly while a match waits
\* for it, and is told to end only when no match needs it (utils.c:72-297).
THEOREM TeamsInStep == Spec => []InStep
<1>1. Inv => InStep
  <2> SUFFICES ASSUME Inv, NEW t \in listens
               PROVE  \/ commpipe[t] = <<"0">> /\ matchpipe[t] = <<>> /\ ~Awaited(t)
                      \/ Len(commpipe[t]) + Len(matchpipe[t]) = IF Awaited(t) THEN 1 ELSE 0
    BY DEF InStep, Awaited
  <2>1. TeamInv(t)
    BY DEF Inv, TypeInv
  <2>2. Len(<<"0">>) = 1 /\ Len(<<"1">>) = 1 /\ Len(<<>>) = 0
    BY Queues
  <2>3. CASE commpipe[t] = <<"1">> /\ matchpipe[t] = <<>> /\ Awaited(t)
    BY <2>2, <2>3
  <2>4. CASE commpipe[t] = <<>> /\ Len(matchpipe[t]) = 1 /\ Awaited(t)
    BY <2>2, <2>4
  <2>5. CASE commpipe[t] = <<>> /\ matchpipe[t] = <<>> /\ ~Awaited(t)
    BY <2>2, <2>5
  <2> QED BY <2>1, <2>3, <2>4, <2>5 DEF TeamInv
<1> QED BY <1>1, InitInv, NextInv, PTL DEF Spec

-----------------------------------------------------------------------------
\* A value for each number from lo to hi, each from the one before it.
IsSteps(h, lo, hi, v, F) ==
  \A n \in lo .. hi : h[n] = IF n = lo THEN v ELSE F[<<n, h[n - 1]>>]

LEMMA StepsExist ==
  ASSUME NEW lo \in Nat, NEW hi \in Nat, lo <= hi, NEW V, NEW v \in V, NEW F \in [Nat \X V -> V]
  PROVE  \E h \in [lo .. hi -> V] : IsSteps(h, lo, hi, v, F)
<1> DEFINE bad == {k \in Nat : lo <= k /\ ~ \E h \in [lo .. k -> V] : IsSteps(h, lo, k, v, F)}
<1> SUFFICES ASSUME bad # {} PROVE FALSE
  OBVIOUS
<1>1. PICK n \in bad : \A m \in bad : n <= m
  <2>1. bad \in SUBSET Nat
    OBVIOUS
  <2> HIDE DEF bad
  <2> QED BY <2>1, LeastNumber
<1>2. n \in Nat /\ lo <= n /\ ~ \E h \in [lo .. n -> V] : IsSteps(h, lo, n, v, F)
  OBVIOUS
<1>3. CASE n = lo
  <2>1. PICK h : h = [k \in lo .. n |-> v]
    OBVIOUS
  <2>2. h \in [lo .. n -> V] /\ IsSteps(h, lo, n, v, F)
    BY <1>3, <2>1 DEF IsSteps
  <2> QED BY <1>2, <2>2
<1>4. CASE n # lo
  <2>1. n - 1 \in Nat /\ lo <= n - 1 /\ n - 1 \notin bad
    BY <1>1, <1>2, <1>4
  <2>2. PICK u \in [lo .. n - 1 -> V] : IsSteps(u, lo, n - 1, v, F)
    BY <2>1
  <2>3. PICK h : h = [k \in lo .. n |-> IF k = n THEN F[<<n, u[n - 1]>>] ELSE u[k]]
    OBVIOUS
  <2>4. u[n - 1] \in V /\ F[<<n, u[n - 1]>>] \in V
    BY <1>2, <2>1
  <2>5. h \in [lo .. n -> V]
    BY <1>2, <2>3, <2>4
  <2>6. IsSteps(h, lo, n, v, F)
    <3> SUFFICES ASSUME NEW k \in lo .. n
                 PROVE  h[k] = IF k = lo THEN v ELSE F[<<k, h[k - 1]>>]
      BY DEF IsSteps
    <3>1. CASE k = n
      <4>1. n - 1 \in lo .. n /\ h[n - 1] = u[n - 1] /\ h[n] = F[<<n, u[n - 1]>>]
        BY <1>2, <2>1, <2>3
      <4> QED BY <1>4, <3>1, <4>1
    <3>2. CASE k # n
      <4>1. k \in lo .. n - 1 /\ h[k] = u[k]
        BY <1>2, <2>3, <3>2
      <4>2. u[k] = IF k = lo THEN v ELSE F[<<k, u[k - 1]>>]
        BY <2>2, <4>1 DEF IsSteps
      <4>3. k # lo => k - 1 \in lo .. n - 1 /\ h[k - 1] = u[k - 1]
        BY <1>2, <2>3, <4>1
      <4> QED BY <4>1, <4>2, <4>3
    <3> QED BY <3>1, <3>2
  <2> QED BY <1>2, <2>5, <2>6
<1> QED BY <1>3, <1>4

-----------------------------------------------------------------------------
\* A set of finite sets has a member none of whose elements can be left out.
LEMMA LeastSet ==
  ASSUME NEW S, IsFiniteSet(S), NEW bad \in SUBSET SUBSET S, bad # {}
  PROVE  \E s \in bad : \A y \in s : s \ {y} \notin bad
<1>1. PICK sizes : sizes = {Cardinality(s) : s \in bad}
  OBVIOUS
<1>2. \A s \in bad : IsFiniteSet(s) /\ Cardinality(s) \in Nat
  BY FS_Subset, FS_CardinalityType
<1>3. sizes \in SUBSET Nat /\ sizes # {}
  BY <1>1, <1>2
<1>4. PICK n \in sizes : \A m \in sizes : n <= m
  BY <1>3, LeastNumber
<1>5. PICK s \in bad : n = Cardinality(s)
  BY <1>1
<1>6. ASSUME NEW y \in s, s \ {y} \in bad PROVE FALSE
  <2>1. Cardinality(s \ {y}) = Cardinality(s) - 1
    BY <1>2, FS_RemoveElement
  <2>2. Cardinality(s \ {y}) >= n
    BY <1>1, <1>4, <1>6
  <2> QED BY <1>2, <1>5, <2>1, <2>2
<1> QED BY <1>6

Picked(s) == CHOOSE y \in s : TRUE

\* The sums of fun over the subsets of S, as the library defines them.
IsSums(it, fun, S) ==
  it = [s \in SUBSET S |-> IF s = {} THEN 0 ELSE fun[Picked(s)] + it[s \ {Picked(s)}]]

LEMMA SumIs == ASSUME NEW fun, NEW S
               PROVE  SumFunctionOnSet(fun, S) = (CHOOSE it : IsSums(it, fun, S))[S]
  BY DEF SumFunctionOnSet, FoldFunctionOnSet, MapThenFoldSet, IsSums, Picked

LEMMA SumsExist ==
  ASSUME NEW S, IsFiniteSet(S), NEW fun, \A y \in S : fun[y] \in Nat
  PROVE  \E it : IsSums(it, fun, S)
<1>0. PICK V : V = [SUBSET S -> Nat]
  OBVIOUS
<1> DEFINE Longer(h) == [s \in SUBSET S |-> IF s = {} THEN 0
                                            ELSE fun[Picked(s)] + h[s \ {Picked(s)}]]
<1>1. \A s \in SUBSET S : s # {} => Picked(s) \in s /\ Picked(s) \in S
  BY DEF Picked
<1>2. ASSUME NEW h \in V PROVE Longer(h) \in V
  <2>1. ASSUME NEW s \in SUBSET S, s # {} PROVE fun[Picked(s)] + h[s \ {Picked(s)}] \in Nat
    <3>1. fun[Picked(s)] \in Nat /\ h[s \ {Picked(s)}] \in Nat
      BY <1>0, <1>1, <2>1
    <3> QED BY <3>1
  <2> QED BY <1>0, <2>1
<1>3. PICK F, zero : F = [p \in Nat \X V |-> Longer(p[2])] /\ zero = [s \in SUBSET S |-> 0]
  OBVIOUS
<1> HIDE DEF Longer
<1>4. F \in [Nat \X V -> V] /\ zero \in V
  <2>1. F \in [Nat \X V -> V]
    BY <1>2, <1>3
  <2> QED BY <1>0, <1>3, <2>1
<1>5. PICK size \in Nat : size = Cardinality(S)
  BY FS_CardinalityType
<1>9. \E u \in [0 .. size -> V] : IsSteps(u, 0, size, zero, F)
  <2>1. 0 \in Nat /\ 0 <= size
    OBVIOUS
  <2> QED BY <1>4, <2>1, StepsExist
<1>10. PICK u \in [0 .. size -> V] : IsSteps(u, 0, size, zero, F)
  BY <1>9
<1>11. u[0] = zero
  <2>1. 0 \in 0 .. size
    OBVIOUS
  <2> QED BY <1>10, <2>1 DEF IsSteps
<1>12. ASSUME NEW n \in 1 .. size PROVE u[n] = Longer(u[n - 1])
  <2>1. n \in 0 .. size /\ n # 0 /\ n - 1 \in 0 .. size /\ n \in Nat
    OBVIOUS
  <2>2. u[n] = F[<<n, u[n - 1]>>] /\ u[n - 1] \in V
    BY <1>10, <2>1 DEF IsSteps
  <2>3. <<n, u[n - 1]>> \in Nat \X V
    BY <2>1, <2>2
  <2> QED BY <1>3, <2>2, <2>3
<1>6. PICK it : it = [s \in SUBSET S |-> u[Cardinality(s)][s]]
  OBVIOUS
<1>7. ASSUME NEW s \in SUBSET S
      PROVE  it[s] = IF s = {} THEN 0 ELSE fun[Picked(s)] + it[s \ {Picked(s)}]
  <2>1. IsFiniteSet(s) /\ Cardinality(s) \in Nat /\ Cardinality(s) <= Cardinality(S)
    BY FS_Subset, FS_CardinalityType
  <2>2. CASE s = {}
    <3>1. Cardinality(s) = 0 /\ u[0] = zero
      BY <1>11, <2>2, FS_EmptySet
    <3> QED BY <1>3, <1>6, <2>2, <3>1
  <2>3. CASE s # {}
    <3>1. PICK y : y = Picked(s)
      OBVIOUS
    <3>2. PICK n : n = Cardinality(s)
      OBVIOUS
    <3>3. y \in s /\ s \ {y} \in SUBSET S /\ Cardinality(s \ {y}) = n - 1
      BY <1>1, <2>1, <2>3, <3>1, <3>2, FS_RemoveElement
    <3>4. n \in 1 .. size
      <4>1. n # 0
        BY <2>1, <2>3, <3>2, FS_EmptySet
      <4> QED BY <1>5, <2>1, <3>2, <4>1
    <3>8. u[n][s] = fun[y] + u[n - 1][s \ {y}]
      BY <1>12, <2>3, <3>1, <3>4 DEF Longer
    <3> QED BY <1>6, <2>3, <3>1, <3>2, <3>3, <3>8
  <2> QED BY <2>2, <2>3
<1>8. IsSums(it, fun, S)
  BY <1>6, <1>7 DEF IsSums
<1> QED BY <1>8

\* Sums are numbers, and any element can be the one that is added last.
LEMMA SumsOrder ==
  ASSUME NEW S, IsFiniteSet(S), NEW fun, \A y \in S : fun[y] \in Nat,
         NEW it, IsSums(it, fun, S)
  PROVE  /\ \A s \in SUBSET S : it[s] \in Nat
         /\ \A s \in SUBSET S : \A y \in s : it[s] = fun[y] + it[s \ {y}]
<1>1. /\ it[{}] = 0
      /\ \A s \in SUBSET S : s # {} => /\ Picked(s) \in s
                                       /\ it[s] = fun[Picked(s)] + it[s \ {Picked(s)}]
  BY DEF IsSums, Picked
<1>2. ASSUME NEW s0 \in SUBSET S, it[s0] \notin Nat PROVE FALSE
  <2>1. PICK bad : bad = {s \in SUBSET S : it[s] \notin Nat}
    OBVIOUS
  <2>2. bad \in SUBSET SUBSET S /\ bad # {}
    BY <1>2, <2>1
  <2>3. PICK s \in bad : \A y \in s : s \ {y} \notin bad
    BY <2>2, LeastSet
  <2>4. s \in SUBSET S /\ it[s] \notin Nat
    BY <2>1
  <2>7. s # {}
    BY <1>1, <2>4
  <2>5. PICK y \in s : it[s] = fun[y] + it[s \ {y}]
    BY <1>1, <2>4, <2>7
  <2>6. it[s \ {y}] \in Nat /\ fun[y] \in Nat
    BY <2>1, <2>3, <2>4
  <2> QED BY <2>4, <2>5, <2>6
<1>3. ASSUME NEW s0 \in SUBSET S, NEW y0 \in s0, it[s0] # fun[y0] + it[s0 \ {y0}] PROVE FALSE
  <2>1. PICK bad : bad = {s \in SUBSET S : \E y \in s : it[s] # fun[y] + it[s \ {y}]}
    OBVIOUS
  <2>2. bad \in SUBSET SUBSET S /\ bad # {}
    BY <1>3, <2>1
  <2>3. PICK s \in bad : \A y \in s : s \ {y} \notin bad
    BY <2>2, LeastSet
  <2>4. PICK y \in s : it[s] # fun[y] + it[s \ {y}]
    BY <2>1
  <2>5. PICK x \in s : it[s] = fun[x] + it[s \ {x}]
    BY <1>1, <2>1, <2>4
  <2>6. x # y /\ s \in SUBSET S
    BY <2>1, <2>4, <2>5
  <2>7. PICK rest : rest = (s \ {x}) \ {y}
    OBVIOUS
  <2>8. rest = (s \ {y}) \ {x} /\ rest \in SUBSET S
    BY <2>6, <2>7
  <2>9. it[s \ {x}] = fun[y] + it[rest]
    <3>1. s \ {x} \in SUBSET S /\ y \in s \ {x} /\ s \ {x} \notin bad
      BY <2>3, <2>6
    <3> QED BY <2>1, <2>7, <3>1
  <2>10. it[s \ {y}] = fun[x] + it[rest]
    <3>1. s \ {y} \in SUBSET S /\ x \in s \ {y} /\ s \ {y} \notin bad
      BY <2>3, <2>6
    <3> QED BY <2>1, <2>8, <3>1
  <2>11. fun[x] \in Nat /\ fun[y] \in Nat /\ it[rest] \in Nat
    BY <1>2, <2>6, <2>8
  <2> QED BY <2>4, <2>5, <2>9, <2>10, <2>11
<1> QED BY <1>2, <1>3

LEMMA SumsUnique ==
  ASSUME NEW S, NEW T, IsFiniteSet(S), S \subseteq T, NEW fun,
         NEW it, IsSums(it, fun, S), NEW jt, IsSums(jt, fun, T)
  PROVE  it[S] = jt[S]
<1> SUFFICES ASSUME it[S] # jt[S] PROVE FALSE
  OBVIOUS
<1>1. PICK bad : bad = {s \in SUBSET S : it[s] # jt[s]}
  OBVIOUS
<1>2. bad \in SUBSET SUBSET S /\ bad # {}
  BY <1>1
<1>3. PICK s \in bad : \A y \in s : s \ {y} \notin bad
  BY <1>2, LeastSet
<1>4. s \in SUBSET S /\ s \in SUBSET T /\ it[s] # jt[s]
  BY <1>1
<1>5. /\ it[s] = IF s = {} THEN 0 ELSE fun[Picked(s)] + it[s \ {Picked(s)}]
      /\ jt[s] = IF s = {} THEN 0 ELSE fun[Picked(s)] + jt[s \ {Picked(s)}]
  BY <1>4 DEF IsSums
<1>6. s # {} => Picked(s) \in s /\ it[s \ {Picked(s)}] = jt[s \ {Picked(s)}]
  BY <1>1, <1>3, <1>4 DEF Picked
<1> QED BY <1>4, <1>5, <1>6

\* The sum over a set with one more element.
LEMMA SumOf ==
  ASSUME NEW S, IsFiniteSet(S), NEW fun, \A y \in S : fun[y] \in Nat
  PROVE  /\ SumFunctionOnSet(fun, S) \in Nat
         /\ \A y \in S : SumFunctionOnSet(fun, S) = fun[y] + SumFunctionOnSet(fun, S \ {y})
<1>1. PICK it : it = CHOOSE h : IsSums(h, fun, S)
  OBVIOUS
<1>2. IsSums(it, fun, S) /\ SumFunctionOnSet(fun, S) = it[S]
  BY <1>1, SumsExist, SumIs
<1>3. it[S] \in Nat /\ \A y \in S : it[S] = fun[y] + it[S \ {y}]
  BY <1>2, SumsOrder
<1>4. ASSUME NEW y \in S PROVE SumFunctionOnSet(fun, S \ {y}) = it[S \ {y}]
  <2>1. PICK T : T = S \ {y}
    OBVIOUS
  <2>2. T \subseteq S /\ IsFiniteSet(T) /\ \A z \in T : fun[z] \in Nat
    BY <2>1, FS_Subset
  <2>3. PICK jt : jt = CHOOSE h : IsSums(h, fun, T)
    OBVIOUS
  <2>4. IsSums(jt, fun, T) /\ SumFunctionOnSet(fun, T) = jt[T]
    BY <2>2, <2>3, SumsExist, SumIs
  <2>5. jt[T] = it[T]
    BY <1>2, <2>2, <2>4, SumsUnique
  <2> QED BY <2>1, <2>4, <2>5
<1> QED BY <1>2, <1>3, <1>4

LEMMA SumOfNone == ASSUME NEW fun PROVE SumFunctionOnSet(fun, {}) = 0
<1>1. IsFiniteSet({}) /\ \A y \in {} : fun[y] \in Nat
  BY FS_EmptySet
<1>2. PICK it : it = CHOOSE h : IsSums(h, fun, {})
  OBVIOUS
<1>3. IsSums(it, fun, {}) /\ SumFunctionOnSet(fun, {}) = it[{}]
  BY <1>1, <1>2, SumsExist, SumIs
<1> QED BY <1>3 DEF IsSums

-----------------------------------------------------------------------------
\* The scores that the matches have read of team t: all but one in the pipe.
Taken(t) == IF matchpipe[t] = <<>> THEN offset[t] ELSE offset[t] - 1

TakenAll == [t \in Teams |-> Taken(t)]

\* A team sends the scores of its file in order, one at a time.
DataInv(t) ==
  /\ offset[t] <= Len(file[t])
  /\ matchpipe[t] # <<>> => offset[t] >= 1 /\ matchpipe[t] = <<file[t][offset[t]]>>

\* The sides of a match of a and b after the toss.
Swap(f, a, b, x) == (f[a][x[a] + 1] + f[b][x[b] + 1]) % 2 = 0
Opener(f, a, b, x) == IF Swap(f, a, b, x) THEN b ELSE a
Chaser(f, a, b, x) == IF Swap(f, a, b, x) THEN a ELSE b

\* Both teams of match m have taken n scores since x, and team1 one more where
\* its score has been read.
Drawn(f, m, x, taken, n) ==
  /\ taken[m.team2] = x[m.team2] + n
  /\ taken[m.team1] = x[m.team1] + n + (IF m.at = "read2" THEN 1 ELSE 0)
  /\ m.at = "read2" => m.s1 = f[m.team1][x[m.team1] + n + 1]

Playing == {"ask", "read1", "read2"}

\* k balls of an innings are played and it is not over.
Batting(i, curWkt, runs, bat, bowl, target, k) ==
  /\ i = k + 1 /\ k < BALLS
  /\ curWkt = Cardinality(Outs(bat, bowl, k)) /\ runs = Runs(bat, bowl, k)
  /\ \A n \in 1 .. k : ~Ends(bat, bowl, target, n)

InningsOne(f, t1, t2, x) == Innings(BallScores(f, t1, x[t1] + 1), BallScores(f, t2, x[t2] + 1), 0)

InningsTwo(f, t1, t2, x, one) ==
  Innings(BallScores(f, t2, x[t2] + 1 + one.balls), BallScores(f, t1, x[t1] + 1 + one.balls),
          one.runs + 1)

AtToss(f, m, x, taken) ==
  /\ m.at \in Playing /\ m.innings = 0 /\ m.team1 = m.first /\ m.team2 = m.second
  /\ m.i = 1 /\ m.curWkt = 0 /\ m.totalRuns1 = 0 /\ m.totalRuns2 = 0
  /\ Drawn(f, m, x, taken, 0)

AtOpen(f, m, x, taken) ==
  /\ m.at = "open"
  /\ m.i = 1 /\ m.curWkt = 0 /\ m.totalRuns1 = 0 /\ m.totalRuns2 = 0
  /\ Drawn(f, m, x, taken, 1)

FirstAt(f, m, x, k) ==
  Batting(m.i, m.curWkt, m.totalRuns1, BallScores(f, m.team1, x[m.team1] + 1),
          BallScores(f, m.team2, x[m.team2] + 1), 0, k)

SecondAt(f, m, x, one, k) ==
  Batting(m.i, m.curWkt, m.totalRuns2, BallScores(f, m.team2, x[m.team2] + 1 + one.balls),
          BallScores(f, m.team1, x[m.team1] + 1 + one.balls), one.runs + 1, k)

InFirst(f, m, x, taken) ==
  /\ m.at \in Playing /\ m.innings = 1 /\ m.totalRuns2 = 0
  /\ \E k \in Nat :
       /\ Drawn(f, m, x, taken, k + 1)
       /\ FirstAt(f, m, x, k)

InSecond(f, m, x, taken, one) ==
  /\ m.at \in Playing /\ m.innings = 2 /\ m.totalRuns1 = one.runs
  /\ \E k \in Nat :
       /\ Drawn(f, m, x, taken, k + 1 + one.balls)
       /\ SecondAt(f, m, x, one, k)

AtEnd(f, m, x, taken, one, two) ==
  /\ m.at = "over" /\ m.totalRuns1 = one.runs /\ m.totalRuns2 = two.runs
  /\ Drawn(f, m, x, taken, 1 + one.balls + two.balls)

\* A match that began when x was read is where the scores taken put it.
MatchInv(f, m, x, taken) ==
  /\ m.first < m.second
  /\ \/ AtToss(f, m, x, taken)
     \/ /\ m.team1 = Opener(f, m.first, m.second, x) /\ m.team2 = Chaser(f, m.first, m.second, x)
        /\ \/ AtOpen(f, m, x, taken)
           \/ InFirst(f, m, x, taken)
           \/ \E one \in {InningsOne(f, m.team1, m.team2, x)} :
                \/ InSecond(f, m, x, taken, one)
                \/ AtEnd(f, m, x, taken, one, InningsTwo(f, m.team1, m.team2, x, one))

\* The table of group g before the match of a and b.
Before(f, g, a, b) ==
  Row(f, a, N * g + N - 1, Rows(f, N * g, N * g + N - 1)[a])[b - 1]

\* The teams of S have the points and have read the bytes of the table.
Agrees(S, pts, taken, table) == \A t \in S : pts[t] = table.points[t] /\ taken[t] = table.x[t]

\* What group g has played so far, in match state m while the host is at `host'.
GroupAt(g, m, host, f, pts, taken, pipe) ==
  /\ m.at = "elect" => Agrees(Member(g), pts, taken, GroupTable(f, g))
  /\ m.at = "exited" /\ host = "waitpid" =>
       Agrees(Member(g), pts, taken, GroupTable(f, g)) /\ pipe = <<GroupWinner(f, g)>>
  /\ m.at \notin Idle \cup {"elect", "exited"} =>
       \E table \in {Before(f, g, m.first, m.second)} :
          /\ \A t \in Member(g) : pts[t] = table.points[t]
          /\ \A t \in Member(g) \ {m.first, m.second} : taken[t] = table.x[t]
          /\ MatchInv(f, m, table.x, taken)

\* The final, in match state m.
FinalAt(m, f, taken) ==
  m.at \notin Idle =>
    /\ m.first = GroupWinner(f, 0) /\ m.second = GroupWinner(f, 1)
    /\ MatchInv(f, m, FinalStart(f), taken)

DataAll == \A t \in Teams : DataInv(t)

ResultAt(f, rn, pts, taken, pipes) ==
  /\ \A g \in Groups : GroupAt(g, rn[g], rn[Host].at, f, pts, taken, pipes[g])
  /\ FinalAt(rn[Host], f, taken)

\* Groups and host are where the files and the scores they have read put them.
ResultInv == DataAll /\ (Clean => ResultAt(file, run, points, TakenAll, grppipe))

-----------------------------------------------------------------------------
LEMMA NoBall == ASSUME NEW bat, NEW bowl
                PROVE  Cardinality(Outs(bat, bowl, 0)) = 0 /\ Runs(bat, bowl, 0) = 0
<1>1. Outs(bat, bowl, 0) = {} /\ (1 .. 0) \ Outs(bat, bowl, 0) = {}
  BY DEF Outs
<1> QED BY <1>1, FS_EmptySet, SumOfNone DEF Runs

\* Wickets and runs after one more ball.
LEMMA NextBall ==
  ASSUME NEW bat, NEW bowl, NEW n \in Nat, \A k \in 1 .. n + 1 : bat[k] \in Nat
  PROVE  /\ Cardinality(Outs(bat, bowl, n)) \in Nat /\ Runs(bat, bowl, n) \in Nat
         /\ Cardinality(Outs(bat, bowl, n + 1)) =
              Cardinality(Outs(bat, bowl, n)) + (IF bat[n + 1] = bowl[n + 1] THEN 1 ELSE 0)
         /\ Runs(bat, bowl, n + 1) =
              Runs(bat, bowl, n) + (IF bat[n + 1] = bowl[n + 1] THEN 0 ELSE bat[n + 1])
<1>1. PICK o, p : o = Outs(bat, bowl, n) /\ p = Outs(bat, bowl, n + 1)
  OBVIOUS
<1>2. PICK s, t : s = (1 .. n) \ o /\ t = (1 .. n + 1) \ p
  OBVIOUS
<1>3. IsFiniteSet(o) /\ IsFiniteSet(s) /\ IsFiniteSet(t) /\ Cardinality(o) \in Nat
  <2>1. IsFiniteSet(1 .. n) /\ IsFiniteSet(1 .. n + 1)
    BY FS_Interval
  <2>2. o \subseteq 1 .. n /\ s \subseteq 1 .. n /\ t \subseteq 1 .. n + 1
    BY <1>1, <1>2 DEF Outs
  <2> QED BY <2>1, <2>2, FS_Subset, FS_CardinalityType
<1>4. \A k \in s : bat[k] \in Nat
  BY <1>2
<1>5. \A k \in t : bat[k] \in Nat
  BY <1>2
<1>6. /\ Runs(bat, bowl, n) = SumFunctionOnSet(bat, s)
      /\ Runs(bat, bowl, n + 1) = SumFunctionOnSet(bat, t)
  BY <1>1, <1>2 DEF Runs
<1>7. SumFunctionOnSet(bat, s) \in Nat
  BY <1>3, <1>4, SumOf
<1>8. n + 1 \notin o /\ n + 1 \notin s
  BY <1>1, <1>2 DEF Outs
<1>9. CASE bat[n + 1] = bowl[n + 1]
  <2>1. p = o \cup {n + 1}
    BY <1>1, <1>9 DEF Outs
  <2>2. t = s
    BY <1>2, <2>1
  <2>3. Cardinality(p) = Cardinality(o) + 1
    BY <1>3, <1>8, <2>1, FS_AddElement
  <2>4. Runs(bat, bowl, n + 1) = Runs(bat, bowl, n) /\ Runs(bat, bowl, n) \in Nat
    BY <1>6, <1>7, <2>2
  <2>5. Cardinality(Outs(bat, bowl, n + 1)) = Cardinality(Outs(bat, bowl, n)) + 1
    BY <1>1, <2>3
  <2>6. Cardinality(Outs(bat, bowl, n)) \in Nat
    BY <1>1, <1>3
  <2> QED BY <1>9, <2>4, <2>5, <2>6
<1>10. CASE bat[n + 1] # bowl[n + 1]
  <2>1. p = o
    BY <1>1, <1>10 DEF Outs
  <2>2. n + 1 \in t /\ t \ {n + 1} = s
    BY <1>1, <1>2, <1>10, <2>1 DEF Outs
  <2>3. SumFunctionOnSet(bat, t) = bat[n + 1] + SumFunctionOnSet(bat, t \ {n + 1})
    BY <1>3, <1>5, <2>2, SumOf
  <2>4. bat[n + 1] \in Nat
    OBVIOUS
  <2>5. Runs(bat, bowl, n + 1) = Runs(bat, bowl, n) + bat[n + 1] /\ Runs(bat, bowl, n) \in Nat
    <3>1. SumFunctionOnSet(bat, t) = bat[n + 1] + SumFunctionOnSet(bat, s)
      BY <2>2, <2>3, Zenon
    <3>2. PICK c, d : c = SumFunctionOnSet(bat, s) /\ d = bat[n + 1]
      OBVIOUS
    <3>3. d + c = c + d
      BY <1>7, <2>4, <3>2
    <3> QED BY <1>6, <1>7, <3>1, <3>2, <3>3, Zenon
  <2>6. /\ Cardinality(Outs(bat, bowl, n + 1)) = Cardinality(Outs(bat, bowl, n))
        /\ Cardinality(Outs(bat, bowl, n)) \in Nat
    BY <1>1, <1>3, <2>1
  <2> QED BY <1>10, <2>5, <2>6
<1> QED BY <1>9, <1>10

\* An innings has the balls after which it ends for the first time.
LEMMA InningsBalls ==
  ASSUME NEW bat, NEW bowl, NEW target
  PROVE  /\ Innings(bat, bowl, target).balls \in 1 .. BALLS
         /\ Innings(bat, bowl, target).runs = Runs(bat, bowl, Innings(bat, bowl, target).balls)
         /\ \A n \in 1 .. BALLS :
              Ends(bat, bowl, target, n) /\ (\A k \in 1 .. n - 1 : ~Ends(bat, bowl, target, k))
                => Innings(bat, bowl, target).balls = n
<1>1. PICK S : S = {k \in 1 .. BALLS : Ends(bat, bowl, target, k)}
  OBVIOUS
<1>2. S \in SUBSET Nat /\ BALLS \in S
  BY <1>1, WorldCupAssumption DEF Ends
<1>3. PICK least \in S : \A k \in S : least <= k
  BY <1>2, LeastNumber
<1>4. Min(S) \in S /\ \A k \in S : Min(S) <= k
  BY <1>3 DEF Min
<1>5. Innings(bat, bowl, target) = [balls |-> Min(S), runs |-> Runs(bat, bowl, Min(S))]
  BY <1>1 DEF Innings
<1>6. ASSUME NEW n \in 1 .. BALLS, Ends(bat, bowl, target, n),
             \A k \in 1 .. n - 1 : ~Ends(bat, bowl, target, k)
      PROVE  Min(S) = n
  <2>1. n \in S /\ Min(S) <= n /\ Min(S) \in 1 .. BALLS
    BY <1>1, <1>4, <1>6
  <2>2. Min(S) \notin 1 .. n - 1
    BY <1>1, <1>4, <1>6
  <2> QED BY <2>1, <2>2
<1> QED BY <1>1, <1>4, <1>5, <1>6

-----------------------------------------------------------------------------
Table == [x : [Teams -> Nat], points : [Teams -> Nat]]

LEMMA InningsTypes ==
  ASSUME NEW f, NEW t1, NEW t2, NEW x, NEW one
  PROVE  InningsOne(f, t1, t2, x).balls \in Nat /\ InningsTwo(f, t1, t2, x, one).balls \in Nat
<1>1. \A bat, bowl, target : Innings(bat, bowl, target).balls \in 1 .. BALLS
  BY InningsBalls
<1>2. \A bat, bowl, target : Innings(bat, bowl, target).balls \in Nat
  BY <1>1
<1> QED BY <1>2 DEF InningsOne, InningsTwo

\* The result r in terms of the two innings and the bytes read before, x.
IsResult(r, a, b, x, t1, t2, one, two) ==
  /\ r.winner = IF one.runs > two.runs THEN t1 ELSE IF two.runs > one.runs THEN t2
                ELSE IF a < b THEN a ELSE b
  /\ r.x \in [Teams -> Nat]
  /\ \A t \in {a, b} : r.x[t] = x[t] + (1 + one.balls + two.balls)
  /\ \A t \in Teams \ {a, b} : r.x[t] = x[t]

LEMMA ResultIs ==
  ASSUME NEW f, NEW a \in Teams, NEW b \in Teams, a # b, NEW x \in [Teams -> Nat],
         NEW t1, t1 = Opener(f, a, b, x), NEW t2, t2 = Chaser(f, a, b, x),
         NEW one, one = InningsOne(f, t1, t2, x), NEW two, two = InningsTwo(f, t1, t2, x, one)
  PROVE  IsResult(Result(f, a, b, x), a, b, x, t1, t2, one, two)
<1>1. PICK read : read = 1 + one.balls + two.balls
  OBVIOUS
<1>2. /\ Result(f, a, b, x).winner = IF one.runs > two.runs THEN t1
                                     ELSE IF two.runs > one.runs THEN t2
                                     ELSE IF a < b THEN a ELSE b
      /\ Result(f, a, b, x).x = [x EXCEPT ![a] = @ + read, ![b] = @ + read]
  BY <1>1 DEF Result, Opener, Chaser, Swap, InningsOne, InningsTwo
<1>3. one.balls \in Nat /\ two.balls \in Nat
  BY InningsTypes
<1>4. read \in Nat
  BY <1>1, <1>3
<1>5. PICK y : y = [x EXCEPT ![a] = @ + read, ![b] = @ + read]
  OBVIOUS
<1>6. /\ y \in [Teams -> Nat] /\ \A t \in Teams \ {a, b} : y[t] = x[t]
      /\ y[a] = x[a] + read /\ y[b] = x[b] + read
  BY <1>4, <1>5
<1> QED BY <1>1, <1>2, <1>5, <1>6 DEF IsResult

LEMMA PlayedTypes ==
  ASSUME NEW f, NEW a \in Teams, NEW b \in Teams, a # b, NEW table \in Table
  PROVE  Played(f, a, b, table) \in Table /\ Result(f, a, b, table.x).winner \in {a, b}
<1>1. table.x \in [Teams -> Nat] /\ table.points \in [Teams -> Nat]
  BY DEF Table
<1>2. PICK t1, t2, one, two :
        /\ t1 = Opener(f, a, b, table.x) /\ t2 = Chaser(f, a, b, table.x)
        /\ one = InningsOne(f, t1, t2, table.x) /\ two = InningsTwo(f, t1, t2, table.x, one)
  OBVIOUS
<1>3. PICK r : r = Result(f, a, b, table.x)
  OBVIOUS
<1>4. IsResult(r, a, b, table.x, t1, t2, one, two)
  BY <1>1, <1>2, <1>3, ResultIs
<1>5. t1 \in {a, b} /\ t2 \in {a, b}
  BY <1>2 DEF Opener, Chaser
<1>6. r.winner \in {a, b} /\ r.x \in [Teams -> Nat]
  BY <1>4, <1>5 DEF IsResult
<1>7. PICK p : p = [table.points EXCEPT ![r.winner] = @ + 1]
  OBVIOUS
<1>8. p \in [Teams -> Nat]
  BY <1>1, <1>6, <1>7
<1>9. Played(f, a, b, table) = [x |-> r.x, points |-> p]
  BY <1>3, <1>7 DEF Played
<1> QED BY <1>3, <1>6, <1>8, <1>9 DEF Table

IsRow(row, f, a, hi, table) ==
  /\ row \in [a .. hi -> Table]
  /\ \A b \in a .. hi : row[b] = IF b = a THEN table ELSE Played(f, a, b, row[b - 1])

LEMMA RowExists ==
  ASSUME NEW f, NEW a \in Nat, NEW hi \in Nat, a <= hi, a .. hi \subseteq Teams, NEW table \in Table
  PROVE  \E h : h = [b \in a .. hi |-> IF b = a THEN table ELSE Played(f, a, b, h[b - 1])]
<1>1. PICK F : F = [p \in Nat \X Table |-> IF p[1] \in a + 1 .. hi THEN Played(f, a, p[1], p[2])
                                           ELSE p[2]]
  OBVIOUS
<1>2. F \in [Nat \X Table -> Table]
  <2>1. ASSUME NEW n \in Nat, NEW v \in Table, n \in a + 1 .. hi PROVE Played(f, a, n, v) \in Table
    <3>1. a \in Teams /\ n \in Teams /\ a # n
      BY <2>1
    <3> QED BY <3>1, PlayedTypes
  <2>2. ASSUME NEW p \in Nat \X Table
        PROVE  (IF p[1] \in a + 1 .. hi THEN Played(f, a, p[1], p[2]) ELSE p[2]) \in Table
    <3>1. p[1] \in Nat /\ p[2] \in Table
      OBVIOUS
    <3> QED BY <2>1, <3>1
  <2> QED BY <1>1, <2>2
<1>3. PICK h \in [a .. hi -> Table] : IsSteps(h, a, hi, table, F)
  BY <1>2, StepsExist
<1>4. ASSUME NEW b \in a .. hi PROVE h[b] = IF b = a THEN table ELSE Played(f, a, b, h[b - 1])
  <2>1. h[b] = IF b = a THEN table ELSE F[<<b, h[b - 1]>>]
    BY <1>3 DEF IsSteps
  <2>2. CASE b = a
    BY <2>1, <2>2
  <2>3. CASE b # a
    <3>1. b \in a + 1 .. hi /\ b \in Nat /\ b - 1 \in a .. hi
      BY <2>3
    <3>2. <<b, h[b - 1]>> \in Nat \X Table
      BY <1>3, <3>1
    <3>3. F[<<b, h[b - 1]>>] = Played(f, a, b, h[b - 1])
      BY <1>1, <3>1, <3>2
    <3> QED BY <2>1, <2>3, <3>3
  <2> QED BY <2>2, <2>3
<1>5. h = [b \in a .. hi |-> IF b = a THEN table ELSE Played(f, a, b, h[b - 1])]
  BY <1>3, <1>4
<1> QED BY <1>5

LEMMA RowIs ==
  ASSUME NEW f, NEW a \in Nat, NEW hi \in Nat, a <= hi, a .. hi \subseteq Teams, NEW table \in Table
  PROVE  IsRow(Row(f, a, hi, table), f, a, hi, table)
<1>1. PICK r : r = Row(f, a, hi, table)
  OBVIOUS
<1>2. r = CHOOSE h : h = [b \in a .. hi |-> IF b = a THEN table ELSE Played(f, a, b, h[b - 1])]
  BY <1>1 DEF Row
<1>3. r = [b \in a .. hi |-> IF b = a THEN table ELSE Played(f, a, b, r[b - 1])]
  BY <1>2, RowExists
<1>4. \A b \in a .. hi : r[b] = IF b = a THEN table ELSE Played(f, a, b, r[b - 1])
  BY <1>3
<1>5. DOMAIN r = a .. hi
  BY <1>3
<1>6. ASSUME NEW c \in a .. hi, r[c] \notin Table PROVE FALSE
  <2>1. PICK bad : bad = {b \in a .. hi : r[b] \notin Table}
    OBVIOUS
  <2>2. bad \in SUBSET Nat /\ bad # {}
    BY <1>6, <2>1
  <2>3. PICK n \in bad : \A m \in bad : n <= m
    BY <2>2, LeastNumber
  <2>4. n \in a .. hi /\ r[n] \notin Table
    BY <2>1
  <2>5. n # a
    BY <1>4, <2>4
  <2>6. n - 1 \in a .. hi /\ n - 1 \notin bad
    BY <2>3, <2>4, <2>5
  <2>7. r[n - 1] \in Table /\ r[n] = Played(f, a, n, r[n - 1])
    BY <1>4, <2>1, <2>4, <2>5, <2>6
  <2>8. a \in Teams /\ n \in Teams
    BY <2>4
  <2> QED BY <2>4, <2>5, <2>7, <2>8, PlayedTypes
<1>7. r \in [a .. hi -> Table]
  BY <1>3, <1>5, <1>6
<1> QED BY <1>1, <1>4, <1>7 DEF IsRow

NoMatch == [x |-> [t \in Teams |-> 0], points |-> [t \in Teams |-> 0]]

IsRows(rows, f, lo, hi) ==
  /\ rows \in [lo .. hi -> Table]
  /\ \A a \in lo .. hi : rows[a] = IF a = lo THEN NoMatch ELSE Row(f, a - 1, hi, rows[a - 1])[hi]

LEMMA RowsAre ==
  ASSUME NEW f, NEW lo \in Nat, NEW hi \in Nat, lo <= hi, lo .. hi \subseteq Teams
  PROVE  IsRows(Rows(f, lo, hi), f, lo, hi)
<1>1. NoMatch \in Table
  BY DEF NoMatch, Table
<1>2. ASSUME NEW a \in lo .. hi, a # lo, NEW v \in Table PROVE Row(f, a - 1, hi, v)[hi] \in Table
  <2>1. a - 1 \in Nat /\ a - 1 <= hi /\ a - 1 .. hi \subseteq Teams /\ hi \in a - 1 .. hi
    BY <1>2
  <2>2. IsRow(Row(f, a - 1, hi, v), f, a - 1, hi, v)
    BY <2>1, RowIs
  <2> QED BY <2>1, <2>2 DEF IsRow
<1>3. PICK F : F = [p \in Nat \X Table |->
                     IF p[1] \in lo + 1 .. hi THEN Row(f, p[1] - 1, hi, p[2])[hi] ELSE p[2]]
  OBVIOUS
<1>4. F \in [Nat \X Table -> Table]
  <2>1. ASSUME NEW p \in Nat \X Table
        PROVE  (IF p[1] \in lo + 1 .. hi THEN Row(f, p[1] - 1, hi, p[2])[hi] ELSE p[2]) \in Table
    <3>1. p[1] \in Nat /\ p[2] \in Table
      OBVIOUS
    <3>2. p[1] \in lo + 1 .. hi => p[1] \in lo .. hi /\ p[1] # lo
      BY <3>1
    <3> QED BY <1>2, <3>1, <3>2
  <2> QED BY <1>3, <2>1
<1>5. PICK h \in [lo .. hi -> Table] : IsSteps(h, lo, hi, NoMatch, F)
  BY <1>1, <1>4, StepsExist
<1>6. ASSUME NEW a \in lo .. hi
      PROVE  h[a] = IF a = lo THEN NoMatch ELSE Row(f, a - 1, hi, h[a - 1])[hi]
  <2>1. h[a] = IF a = lo THEN NoMatch ELSE F[<<a, h[a - 1]>>]
    BY <1>5 DEF IsSteps
  <2>2. CASE a = lo
    BY <2>1, <2>2
  <2>3. CASE a # lo
    <3>1. a \in lo + 1 .. hi /\ a \in Nat /\ a - 1 \in lo .. hi
      BY <2>3
    <3>2. <<a, h[a - 1]>> \in Nat \X Table
      BY <1>5, <3>1
    <3>3. F[<<a, h[a - 1]>>] = Row(f, a - 1, hi, h[a - 1])[hi]
      BY <1>3, <3>1, <3>2
    <3> QED BY <2>1, <2>3, <3>3
  <2> QED BY <2>2, <2>3
<1>7. h = [a \in lo .. hi |-> IF a = lo THEN NoMatch ELSE Row(f, a - 1, hi, h[a - 1])[hi]]
  BY <1>5, <1>6
<1>8. PICK r : r = Rows(f, lo, hi)
  OBVIOUS
<1>9. r = CHOOSE u : u = [a \in lo .. hi |-> IF a = lo THEN NoMatch
                                             ELSE Row(f, a - 1, hi, u[a - 1])[hi]]
  BY <1>8 DEF Rows, NoMatch
<1>10. r = [a \in lo .. hi |-> IF a = lo THEN NoMatch ELSE Row(f, a - 1, hi, r[a - 1])[hi]]
  BY <1>7, <1>9
<1>11. \A a \in lo .. hi : r[a] = IF a = lo THEN NoMatch ELSE Row(f, a - 1, hi, r[a - 1])[hi]
  BY <1>10
<1>12. ASSUME NEW c \in lo .. hi, r[c] \notin Table PROVE FALSE
  <2>1. PICK bad : bad = {a \in lo .. hi : r[a] \notin Table}
    OBVIOUS
  <2>2. bad \in SUBSET Nat /\ bad # {}
    BY <1>12, <2>1
  <2>3. PICK n \in bad : \A m \in bad : n <= m
    BY <2>2, LeastNumber
  <2>4. n \in lo .. hi /\ r[n] \notin Table
    BY <2>1
  <2>5. n # lo
    BY <1>1, <1>11, <2>4
  <2>6. n - 1 \in lo .. hi /\ n - 1 \notin bad
    BY <2>3, <2>4, <2>5
  <2>7. r[n - 1] \in Table /\ r[n] = Row(f, n - 1, hi, r[n - 1])[hi]
    BY <1>11, <2>1, <2>4, <2>5, <2>6
  <2> QED BY <1>2, <2>4, <2>5, <2>7
<1>13. r \in [lo .. hi -> Table]
  BY <1>10, <1>12
<1> QED BY <1>8, <1>11, <1>13 DEF IsRows

-----------------------------------------------------------------------------
\* The tables follow each other as the pairs of the loops do.
LEMMA Tables ==
  ASSUME NEW f, NEW g \in Groups, NEW a \in Member(g), NEW b \in Member(g), a < b
  PROVE  /\ Before(f, g, a, b) \in Table
         /\ NextPair(a, b, g) = <<>> => GroupTable(f, g) = Played(f, a, b, Before(f, g, a, b))
         /\ NextPair(a, b, g) # <<>> =>
              Before(f, g, NextPair(a, b, g)[1], NextPair(a, b, g)[2])
                = Played(f, a, b, Before(f, g, a, b))
<1>1. PICK lo \in Nat, hi \in Nat :
        lo = N * g /\ hi = N * g + N - 1 /\ lo < hi /\ Member(g) = lo .. hi
  <2>1. g = 0 \/ g = 1
    BY DEF Groups
  <2>2. N * 0 = 0 /\ N * 1 = N /\ N \in Nat /\ N > 1
    BY WorldCupAssumption
  <2>3. N * g \in Nat /\ N * g + N - 1 \in Nat /\ N * g < N * g + N - 1
    BY <2>1, <2>2
  <2> QED BY <2>3 DEF Member
<1>2. lo .. hi \subseteq Teams
  BY <1>1, Members
<1>3. PICK rows : rows = Rows(f, lo, hi)
  OBVIOUS
<1>4. IsRows(rows, f, lo, hi)
  BY <1>1, <1>2, <1>3, RowsAre
<1>5. a \in lo .. hi /\ b \in lo .. hi /\ a < b
  BY <1>1
<1>6. ASSUME NEW c \in lo .. hi PROVE IsRow(Row(f, c, hi, rows[c]), f, c, hi, rows[c])
  <2>1. rows[c] \in Table
    BY <1>4 DEF IsRows
  <2>2. c \in Nat /\ c <= hi /\ c .. hi \subseteq Teams
    BY <1>2
  <2> QED BY <2>1, <2>2, RowIs
<1>7. \A c, d : Before(f, g, c, d) = Row(f, c, hi, rows[c])[d - 1]
  BY <1>1, <1>3 DEF Before
<1>8. PICK ra : ra = Row(f, a, hi, rows[a])
  OBVIOUS
<1>9. /\ ra \in [a .. hi -> Table] /\ b \in a .. hi /\ b - 1 \in a .. hi
      /\ ra[b] = Played(f, a, b, ra[b - 1])
  <2>1. IsRow(ra, f, a, hi, rows[a])
    BY <1>5, <1>6, <1>8
  <2>2. b \in a .. hi /\ b # a /\ b - 1 \in a .. hi
    BY <1>5
  <2> QED BY <2>1, <2>2 DEF IsRow
<1>10. Before(f, g, a, b) = ra[b - 1] /\ ra[b] = Played(f, a, b, Before(f, g, a, b))
  BY <1>7, <1>8, <1>9
<1>11. Before(f, g, a, b) \in Table
  BY <1>9, <1>10
<1>12. Max(Member(g)) = hi
  <2>1. hi \in Member(g) /\ \A t \in Member(g) : hi >= t
    BY <1>1
  <2>2. Max(Member(g)) \in Member(g) /\ Max(Member(g)) >= hi /\ hi >= Max(Member(g))
    BY <2>1, Members, <1>1
  <2>3. Max(Member(g)) \in Nat
    BY <1>1, <2>2
  <2> QED BY <2>2, <2>3
<1>13. NextPair(a, b, g) = IF b < hi THEN <<a, b + 1>>
                           ELSE IF a + 1 < b THEN <<a + 1, a + 2>> ELSE <<>>
  BY <1>12 DEF NextPair
<1>14. b = hi => a + 1 \in lo .. hi /\ rows[a + 1] = ra[hi]
  <2>1. ASSUME b = hi PROVE a + 1 \in lo .. hi /\ a + 1 # lo /\ (a + 1) - 1 = a
    BY <1>5, <2>1
  <2>2. ASSUME b = hi PROVE rows[a + 1] = Row(f, a, hi, rows[a])[hi]
    BY <1>4, <2>1, <2>2 DEF IsRows
  <2> QED BY <1>8, <2>1, <2>2
<1>15. CASE b < hi
  <2>1. /\ NextPair(a, b, g) = <<a, b + 1>> /\ NextPair(a, b, g) # <<>>
        /\ (b + 1) - 1 = b
    BY <1>5, <1>13, <1>15
  <2>2. Before(f, g, a, b + 1) = ra[b]
    BY <1>7, <1>8, <2>1
  <2> QED BY <1>10, <1>11, <2>1, <2>2
<1>16. CASE ~(b < hi) /\ a + 1 < b
  <2>1. /\ b = hi /\ NextPair(a, b, g) = <<a + 1, a + 2>> /\ NextPair(a, b, g) # <<>>
        /\ (a + 2) - 1 = a + 1
    BY <1>5, <1>13, <1>16
  <2>2. a + 1 \in a + 1 .. hi
    BY <1>5, <1>14, <2>1
  <2>3. Row(f, a + 1, hi, rows[a + 1])[a + 1] = rows[a + 1]
    BY <1>6, <1>14, <2>1, <2>2 DEF IsRow
  <2>4. Before(f, g, a + 1, a + 2) = ra[hi]
    BY <1>7, <1>14, <2>1, <2>3
  <2> QED BY <1>10, <1>11, <2>1, <2>4
<1>17. CASE ~(b < hi) /\ ~(a + 1 < b)
  <2>1. b = hi /\ a + 1 = hi /\ NextPair(a, b, g) = <<>>
    BY <1>5, <1>13, <1>17
  <2>2. GroupTable(f, g) = rows[hi]
    BY <1>1, <1>3 DEF GroupTable
  <2> QED BY <1>10, <1>11, <1>14, <2>1, <2>2
<1> QED BY <1>15, <1>16, <1>17

\* The first match of a group begins with the empty table.
LEMMA FirstTable ==
  ASSUME NEW f, NEW g \in Groups
  PROVE  Before(f, g, N * g, N * g + 1) = NoMatch
<1>1. PICK lo \in Nat, hi \in Nat :
        lo = N * g /\ hi = N * g + N - 1 /\ lo < hi /\ Member(g) = lo .. hi
  <2>1. g = 0 \/ g = 1
    BY DEF Groups
  <2>2. N * 0 = 0 /\ N * 1 = N /\ N \in Nat /\ N > 1
    BY WorldCupAssumption
  <2>3. N * g \in Nat /\ N * g + N - 1 \in Nat /\ N * g < N * g + N - 1
    BY <2>1, <2>2
  <2> QED BY <2>3 DEF Member
<1>2. lo .. hi \subseteq Teams
  BY <1>1, Members
<1>3. PICK rows : rows = Rows(f, lo, hi)
  OBVIOUS
<1>4. IsRows(rows, f, lo, hi)
  BY <1>1, <1>2, <1>3, RowsAre
<1>5. lo \in lo .. hi /\ rows[lo] = NoMatch /\ rows[lo] \in Table
  BY <1>1, <1>4 DEF IsRows
<1>6. IsRow(Row(f, lo, hi, rows[lo]), f, lo, hi, rows[lo])
  BY <1>1, <1>2, <1>5, RowIs
<1>7. Row(f, lo, hi, rows[lo])[lo] = NoMatch
  BY <1>5, <1>6 DEF IsRow
<1>8. Before(f, g, lo, lo + 1) = Row(f, lo, hi, rows[lo])[(lo + 1) - 1]
  BY <1>1, <1>3 DEF Before
<1>9. (lo + 1) - 1 = lo
  OBVIOUS
<1> QED BY <1>1, <1>7, <1>8, <1>9

-----------------------------------------------------------------------------
\* Runs r and wickets w after ball k + 1, which ends the innings or does not.
IsBall(i, w, r, bat, bowl, target, k) ==
  /\ r \in Nat
  /\ Ends(bat, bowl, target, k + 1) <=>
       (k + 1 = BALLS \/ w = WICKETS \/ (target # 0 /\ r >= target))
  /\ Ends(bat, bowl, target, k + 1) =>
       Innings(bat, bowl, target).balls = k + 1 /\ Innings(bat, bowl, target).runs = r
  /\ ~Ends(bat, bowl, target, k + 1) => Batting(i + 1, w, r, bat, bowl, target, k + 1)

LEMMA BallPlayed ==
  ASSUME NEW i, NEW w, NEW r, NEW bat, NEW bowl, NEW target \in Nat, NEW k \in Nat,
         Batting(i, w, r, bat, bowl, target, k), \A j \in 1 .. k + 1 : bat[j] \in Nat,
         NEW w2, w2 = w + (IF bat[k + 1] = bowl[k + 1] THEN 1 ELSE 0),
         NEW r2, r2 = r + (IF bat[k + 1] = bowl[k + 1] THEN 0 ELSE bat[k + 1])
  PROVE  IsBall(i, w2, r2, bat, bowl, target, k)
<1>1. /\ i = k + 1 /\ k < BALLS /\ w = Cardinality(Outs(bat, bowl, k)) /\ r = Runs(bat, bowl, k)
      /\ \A n \in 1 .. k : ~Ends(bat, bowl, target, n)
  BY DEF Batting
<1>2. /\ w \in Nat /\ r \in Nat /\ Cardinality(Outs(bat, bowl, k + 1)) = w2
      /\ Runs(bat, bowl, k + 1) = r2
  BY <1>1, NextBall
<1>3. bat[k + 1] \in Nat
  OBVIOUS
<1>4. r2 \in Nat
  BY <1>2, <1>3
<1>5. Ends(bat, bowl, target, k + 1) <=>
        (k + 1 = BALLS \/ w2 = WICKETS \/ (target # 0 /\ r2 >= target))
  BY <1>2 DEF Ends
<1>6. k + 1 \in 1 .. BALLS /\ (k + 1) - 1 = k
  BY <1>1, WorldCupAssumption
<1>7. ASSUME Ends(bat, bowl, target, k + 1)
      PROVE  Innings(bat, bowl, target).balls = k + 1 /\ Innings(bat, bowl, target).runs = r2
  <2>1. \A n \in 1 .. (k + 1) - 1 : ~Ends(bat, bowl, target, n)
    BY <1>1, <1>6
  <2>2. Innings(bat, bowl, target).balls = k + 1
    BY <1>6, <1>7, <2>1, InningsBalls
  <2>3. Innings(bat, bowl, target).runs = Runs(bat, bowl, Innings(bat, bowl, target).balls)
    BY InningsBalls
  <2> QED BY <1>2, <2>2, <2>3
<1>8. ASSUME ~Ends(bat, bowl, target, k + 1)
      PROVE  Batting(i + 1, w2, r2, bat, bowl, target, k + 1)
  <2>1. k + 1 < BALLS
    BY <1>1, <1>5, <1>8, WorldCupAssumption
  <2>2. \A n \in 1 .. k + 1 : ~Ends(bat, bowl, target, n)
    BY <1>1, <1>8
  <2> QED BY <1>1, <1>2, <2>1, <2>2 DEF Batting
<1> QED BY <1>4, <1>5, <1>7, <1>8 DEF IsBall

\* The scores of an innings that begins after z scores of team t.
LEMMA ScoresAt ==
  ASSUME NEW f, NEW t, NEW z \in Nat, NEW k \in Nat, k < BALLS,
         \A j \in 1 .. z + k + 1 : f[t][j] \in Nat
  PROVE  /\ BallScores(f, t, z)[k + 1] = f[t][z + k + 1]
         /\ \A j \in 1 .. k + 1 : BallScores(f, t, z)[j] \in Nat
<1>1. \A j \in 1 .. BALLS : BallScores(f, t, z)[j] = f[t][z + j]
  BY DEF BallScores
<1>2. k + 1 \in 1 .. BALLS /\ z + (k + 1) = z + k + 1
  BY WorldCupAssumption
<1>3. ASSUME NEW j \in 1 .. k + 1 PROVE j \in 1 .. BALLS /\ z + j \in 1 .. z + k + 1
  BY WorldCupAssumption
<1> QED BY <1>1, <1>2, <1>3

LEMMA BattingStarts == ASSUME NEW bat, NEW bowl, NEW target
                       PROVE  Batting(1, 0, 0, bat, bowl, target, 0)
<1>1. 0 < BALLS
  BY WorldCupAssumption
<1> QED BY <1>1, NoBall DEF Batting

-----------------------------------------------------------------------------
SameSides(n, m) == /\ n.first = m.first /\ n.second = m.second
                   /\ n.team1 = m.team1 /\ n.team2 = m.team2

\* The second score of the toss, of a ball of the first and of the second innings.
LEMMA TossScored ==
  ASSUME NEW m \in MatchState, m.innings = 0, NEW s2, NEW n, n = Scored(m, s2)
  PROVE  /\ n.at = "open" /\ n.first = m.first /\ n.second = m.second
         /\ n.i = m.i /\ n.curWkt = m.curWkt
         /\ n.totalRuns1 = m.totalRuns1 /\ n.totalRuns2 = m.totalRuns2
         /\ n.team1 = IF (m.s1 + s2) % 2 = 0 THEN m.team2 ELSE m.team1
         /\ n.team2 = IF (m.s1 + s2) % 2 = 0 THEN m.team1 ELSE m.team2
<1>1. PICK u, v : /\ u = IF (m.s1 + s2) % 2 = 0 THEN m.team2 ELSE m.team1
                  /\ v = IF (m.s1 + s2) % 2 = 0 THEN m.team1 ELSE m.team2
  OBVIOUS
<1>2. n = [m EXCEPT !.at = "open", !.s1 = 0, !.team1 = u, !.team2 = v]
  BY <1>1, Zenon DEF Scored, Tossed
<1> QED BY <1>1, <1>2 DEF MatchState

IsBatted(b, m, s2) ==
  /\ b \in MatchState /\ b.at = "ask"
  /\ SameSides(b, m) /\ b.innings = m.innings /\ b.i = m.i + 1
  /\ b.curWkt = m.curWkt + (IF m.s1 = s2 THEN 1 ELSE 0)
  /\ b.totalRuns1 = m.totalRuns1 + (IF m.innings = 1 /\ m.s1 # s2 THEN m.s1 ELSE 0)
  /\ b.totalRuns2 = m.totalRuns2 + (IF m.innings = 2 /\ m.s1 # s2 THEN s2 ELSE 0)

LEMMA BallBatted == ASSUME NEW m \in MatchState, NEW s2 \in Nat PROVE IsBatted(Batted(m, s2), m, s2)
<1>1. PICK i, w, r1, r2 :
        /\ i = m.i + 1 /\ w = IF m.s1 = s2 THEN m.curWkt + 1 ELSE m.curWkt
        /\ r1 = IF m.innings = 1 /\ ~(m.s1 = s2) THEN m.totalRuns1 + m.s1 ELSE m.totalRuns1
        /\ r2 = IF m.innings = 2 /\ ~(m.s1 = s2) THEN m.totalRuns2 + s2 ELSE m.totalRuns2
  OBVIOUS
<1>2. i \in Nat /\ w \in Nat /\ r1 \in Nat /\ r2 \in Nat
  BY <1>1 DEF MatchState
<1>3. /\ w = m.curWkt + (IF m.s1 = s2 THEN 1 ELSE 0)
      /\ r1 = m.totalRuns1 + (IF m.innings = 1 /\ m.s1 # s2 THEN m.s1 ELSE 0)
      /\ r2 = m.totalRuns2 + (IF m.innings = 2 /\ m.s1 # s2 THEN s2 ELSE 0)
  BY <1>1 DEF MatchState
<1>4. PICK b : b = Batted(m, s2)
  OBVIOUS
<1>5. b = [m EXCEPT !.at = "ask", !.s1 = 0, !.i = i, !.curWkt = w,
                    !.totalRuns1 = r1, !.totalRuns2 = r2]
  BY <1>1, <1>4, Zenon DEF Batted
<1>6. b \in MatchState /\ b.at = "ask" /\ SameSides(b, m) /\ b.innings = m.innings
  BY <1>2, <1>5 DEF MatchState, Stages, SameSides
<1>7. b.i = i /\ b.curWkt = w /\ b.totalRuns1 = r1 /\ b.totalRuns2 = r2
  BY <1>2, <1>5 DEF MatchState
<1> QED BY <1>1, <1>3, <1>4, <1>6, <1>7 DEF IsBatted

LEMMA FirstScored ==
  ASSUME NEW m \in MatchState, m.innings = 1, NEW s2 \in Nat, NEW n, n = Scored(m, s2),
         NEW w, w = m.curWkt + (IF m.s1 = s2 THEN 1 ELSE 0),
         NEW r, r = m.totalRuns1 + (IF m.s1 = s2 THEN 0 ELSE m.s1)
  PROVE  /\ SameSides(n, m) /\ n.at = "ask" /\ n.totalRuns1 = r /\ n.totalRuns2 = m.totalRuns2
         /\ (w = WICKETS \/ m.i + 1 > BALLS) => n.innings = 2 /\ n.i = 1 /\ n.curWkt = 0
         /\ ~(w = WICKETS \/ m.i + 1 > BALLS) => n.innings = 1 /\ n.i = m.i + 1 /\ n.curWkt = w
<1>1. PICK b : b = Batted(m, s2)
  OBVIOUS
<1>2. /\ b \in MatchState /\ b.at = "ask"
      /\ SameSides(b, m) /\ b.innings = 1 /\ b.i = m.i + 1 /\ b.curWkt = w
      /\ b.totalRuns1 = r /\ b.totalRuns2 = m.totalRuns2
  <2>1. m.totalRuns2 + 0 = m.totalRuns2
    BY DEF MatchState
  <2>2. IsBatted(b, m, s2)
    BY <1>1, BallBatted
  <2> QED BY <2>1, <2>2 DEF IsBatted
<1>3. InningsOver(b) <=> (w = WICKETS \/ m.i + 1 > BALLS)
  BY <1>2 DEF InningsOver
<1>4. n = IF ~InningsOver(b) THEN b ELSE [b EXCEPT !.innings = 2, !.i = 1, !.curWkt = 0]
  BY <1>1, <1>2 DEF Scored
<1>5. CASE InningsOver(b)
  <2>1. n = [b EXCEPT !.innings = 2, !.i = 1, !.curWkt = 0]
    BY <1>4, <1>5
  <2> QED BY <1>2, <1>3, <1>5, <2>1 DEF SameSides, MatchState
<1>6. CASE ~InningsOver(b)
  <2>1. n = b
    BY <1>4, <1>6
  <2> QED BY <1>2, <1>3, <1>6, <2>1
<1> QED BY <1>5, <1>6

LEMMA SecondScored ==
  ASSUME NEW m \in MatchState, m.innings = 2, NEW s2 \in Nat, NEW n, n = Scored(m, s2),
         NEW w, w = m.curWkt + (IF m.s1 = s2 THEN 1 ELSE 0),
         NEW r, r = m.totalRuns2 + (IF m.s1 = s2 THEN 0 ELSE s2)
  PROVE  /\ SameSides(n, m) /\ n.totalRuns1 = m.totalRuns1 /\ n.totalRuns2 = r /\ n.innings = 2
         /\ n.i = m.i + 1 /\ n.curWkt = w
         /\ (w = WICKETS \/ m.i + 1 > BALLS \/ r > m.totalRuns1) => n.at = "over"
         /\ ~(w = WICKETS \/ m.i + 1 > BALLS \/ r > m.totalRuns1) => n.at = "ask"
<1>1. PICK b : b = Batted(m, s2)
  OBVIOUS
<1>2. /\ b \in MatchState /\ b.at = "ask"
      /\ SameSides(b, m) /\ b.innings = 2 /\ b.i = m.i + 1 /\ b.curWkt = w
      /\ b.totalRuns1 = m.totalRuns1 /\ b.totalRuns2 = r
  <2>1. m.totalRuns1 + 0 = m.totalRuns1
    BY DEF MatchState
  <2>2. IsBatted(b, m, s2)
    BY <1>1, BallBatted
  <2> QED BY <2>1, <2>2 DEF IsBatted
<1>3. InningsOver(b) <=> (w = WICKETS \/ m.i + 1 > BALLS \/ r > m.totalRuns1)
  BY <1>2 DEF InningsOver
<1>4. n = IF ~InningsOver(b) THEN b ELSE [b EXCEPT !.at = "over"]
  BY <1>1, <1>2 DEF Scored
<1>5. CASE InningsOver(b)
  <2>1. n = [b EXCEPT !.at = "over"]
    BY <1>4, <1>5
  <2> QED BY <1>2, <1>3, <1>5, <2>1 DEF SameSides, MatchState
<1>6. CASE ~InningsOver(b)
  <2>1. n = b
    BY <1>4, <1>6
  <2> QED BY <1>2, <1>3, <1>6, <2>1
<1> QED BY <1>5, <1>6

-----------------------------------------------------------------------------
\* The teams that bat are the teams of the match.
LEMMA Sides ==
  ASSUME NEW f, NEW m \in MatchState, NEW x, NEW taken, MatchInv(f, m, x, taken)
  PROVE  /\ {m.team1, m.team2} = {m.first, m.second} /\ m.team1 # m.team2
         /\ m.first < m.second /\ m.first # m.second
         /\ m.first \in Teams /\ m.second \in Teams /\ m.team1 \in Teams /\ m.team2 \in Teams
<1>1. m.first \in Teams /\ m.second \in Teams /\ m.team1 \in Teams /\ m.team2 \in Teams
  BY DEF MatchState
<1>2. m.first < m.second /\ m.first # m.second
  BY <1>1, WorldCupAssumption DEF MatchInv, Teams
<1>3. \/ m.team1 = m.first /\ m.team2 = m.second
      \/ m.team1 = m.second /\ m.team2 = m.first
  <2>1. \/ m.team1 = m.first /\ m.team2 = m.second
        \/ /\ m.team1 = Opener(f, m.first, m.second, x)
           /\ m.team2 = Chaser(f, m.first, m.second, x)
    BY DEF MatchInv, AtToss
  <2> QED BY <2>1 DEF Opener, Chaser
<1> QED BY <1>1, <1>2, <1>3

SameScore(n, m) ==
  /\ SameSides(n, m) /\ n.innings = m.innings /\ n.i = m.i /\ n.curWkt = m.curWkt
  /\ n.totalRuns1 = m.totalRuns1 /\ n.totalRuns2 = m.totalRuns2

\* A step that leaves the score as it is.
LEMMA Moves ==
  ASSUME NEW f, NEW m, NEW n, NEW x, NEW taken, NEW next, MatchInv(f, m, x, taken),
         SameScore(n, m), n.at = m.at \/ (n.at \in Playing /\ m.at \in Playing),
         \A k \in Nat : Drawn(f, m, x, taken, k) => Drawn(f, n, x, next, k)
  PROVE  MatchInv(f, n, x, next)
<1>1. n.first = m.first /\ n.second = m.second /\ n.team1 = m.team1 /\ n.team2 = m.team2
  BY DEF SameScore, SameSides
<1>2. AtToss(f, m, x, taken) => AtToss(f, n, x, next)
  BY <1>1 DEF AtToss, SameScore, Playing
<1>3. AtOpen(f, m, x, taken) => AtOpen(f, n, x, next)
  BY <1>1 DEF AtOpen, SameScore, Playing
<1>4. ASSUME InFirst(f, m, x, taken) PROVE InFirst(f, n, x, next)
  <2> PICK k \in Nat : Drawn(f, m, x, taken, k + 1) /\ FirstAt(f, m, x, k)
    BY <1>4 DEF InFirst
  <2>1. Drawn(f, n, x, next, k + 1)
    OBVIOUS
  <2>2. FirstAt(f, n, x, k)
    BY <1>1 DEF SameScore, FirstAt
  <2>3. n.at \in Playing /\ n.innings = 1 /\ n.totalRuns2 = 0
    BY <1>4 DEF InFirst, SameScore
  <2> QED BY <2>1, <2>2, <2>3 DEF InFirst
<1>5. ASSUME NEW one, one.balls \in Nat, InSecond(f, m, x, taken, one)
      PROVE  InSecond(f, n, x, next, one)
  <2> PICK k \in Nat : Drawn(f, m, x, taken, k + 1 + one.balls) /\ SecondAt(f, m, x, one, k)
    BY <1>5 DEF InSecond
  <2>1. Drawn(f, n, x, next, k + 1 + one.balls)
    BY <1>5
  <2>2. SecondAt(f, n, x, one, k)
    BY <1>1 DEF SameScore, SecondAt
  <2>3. n.at \in Playing /\ n.innings = 2 /\ n.totalRuns1 = one.runs
    BY <1>5 DEF InSecond, SameScore
  <2> QED BY <2>1, <2>2, <2>3 DEF InSecond
<1>6. ASSUME NEW one, NEW two, one.balls \in Nat, two.balls \in Nat, AtEnd(f, m, x, taken, one, two)
      PROVE  AtEnd(f, n, x, next, one, two)
  <2>1. Drawn(f, n, x, next, 1 + one.balls + two.balls)
    BY <1>6 DEF AtEnd
  <2> QED BY <1>6, <2>1 DEF AtEnd, SameScore, Playing
<1>7. CASE AtToss(f, m, x, taken)
  BY <1>1, <1>2, <1>7 DEF MatchInv
<1>8. CASE ~AtToss(f, m, x, taken)
  <2>1. PICK one, two : /\ one = InningsOne(f, m.team1, m.team2, x)
                        /\ two = InningsTwo(f, m.team1, m.team2, x, one)
    OBVIOUS
  <2>2. one.balls \in Nat /\ two.balls \in Nat
    BY <2>1, InningsTypes
  <2>3. /\ m.first < m.second
        /\ m.team1 = Opener(f, m.first, m.second, x) /\ m.team2 = Chaser(f, m.first, m.second, x)
        /\ \/ AtOpen(f, m, x, taken) \/ InFirst(f, m, x, taken)
           \/ InSecond(f, m, x, taken, one) \/ AtEnd(f, m, x, taken, one, two)
    BY <1>8, <2>1 DEF MatchInv
  <2>4. \/ AtOpen(f, n, x, next) \/ InFirst(f, n, x, next)
        \/ InSecond(f, n, x, next, one) \/ AtEnd(f, n, x, next, one, two)
    BY <1>3, <1>4, <1>5, <1>6, <2>2, <2>3
  <2>5. /\ n.first < n.second
        /\ n.team1 = Opener(f, n.first, n.second, x) /\ n.team2 = Chaser(f, n.first, n.second, x)
        /\ one = InningsOne(f, n.team1, n.team2, x) /\ two = InningsTwo(f, n.team1, n.team2, x, one)
    BY <1>1, <2>1, <2>3
  <2> QED BY <2>4, <2>5 DEF MatchInv
<1> QED BY <1>7, <1>8

\* What other teams have read does not matter to a match.
LEMMA MatchFrame ==
  ASSUME NEW f, NEW m \in MatchState, NEW x, NEW taken, NEW next, MatchInv(f, m, x, taken),
         next[m.first] = taken[m.first], next[m.second] = taken[m.second]
  PROVE  MatchInv(f, m, x, next)
<1>1. next[m.team1] = taken[m.team1] /\ next[m.team2] = taken[m.team2]
  BY Sides
<1>2. \A k \in Nat : Drawn(f, m, x, taken, k) => Drawn(f, m, x, next, k)
  BY <1>1 DEF Drawn
<1>3. SameScore(m, m)
  BY DEF SameScore, SameSides
<1> QED BY <1>2, <1>3, Moves

LEMMA MatchAsk ==
  ASSUME NEW f, NEW m \in MatchState, NEW x, NEW taken, MatchInv(f, m, x, taken), m.at = "ask",
         NEW n, n = [m EXCEPT !.at = "read1"]
  PROVE  MatchInv(f, n, x, taken)
<1>1. SameScore(n, m) /\ n.at = "read1" /\ n.team1 = m.team1 /\ n.team2 = m.team2
  BY DEF MatchState, SameScore, SameSides
<1>2. \A k \in Nat : Drawn(f, m, x, taken, k) => Drawn(f, n, x, taken, k)
  BY <1>1 DEF Drawn
<1>3. n.at \in Playing /\ m.at \in Playing
  BY <1>1 DEF Playing
<1> QED BY <1>1, <1>2, <1>3, Moves

LEMMA MatchRead1 ==
  ASSUME NEW f, NEW m \in MatchState, NEW x \in [Teams -> Nat], NEW taken \in [Teams -> Nat],
         MatchInv(f, m, x, taken), m.at = "read1", NEW s,
         s = f[m.team1][taken[m.team1] + 1], NEW n, n = [m EXCEPT !.at = "read2", !.s1 = s],
         NEW next, next[m.team1] = taken[m.team1] + 1, next[m.team2] = taken[m.team2]
  PROVE  MatchInv(f, n, x, next)
<1>1. /\ SameScore(n, m) /\ n.at = "read2" /\ n.team1 = m.team1 /\ n.team2 = m.team2 /\ n.s1 = s
  BY DEF MatchState, SameScore, SameSides
<1>2. ASSUME NEW k \in Nat, Drawn(f, m, x, taken, k) PROVE Drawn(f, n, x, next, k)
  <2>1. /\ taken[m.team2] = x[m.team2] + k /\ taken[m.team1] = x[m.team1] + k + 0
    BY <1>2 DEF Drawn
  <2>2. x[m.team1] \in Nat
    BY DEF MatchState
  <2>3. taken[m.team1] = x[m.team1] + k
    BY <2>1, <2>2
  <2> QED BY <1>1, <2>1, <2>3 DEF Drawn
<1>3. n.at \in Playing /\ m.at \in Playing
  BY <1>1 DEF Playing
<1> QED BY <1>1, <1>2, <1>3, Moves

\* The output file is open.
LEMMA MatchOpen ==
  ASSUME NEW f, NEW m \in MatchState, NEW x \in [Teams -> Nat], NEW taken \in [Teams -> Nat],
         MatchInv(f, m, x, taken), m.at = "open",
         NEW n, n = [m EXCEPT !.at = "ask", !.innings = 1]
  PROVE  MatchInv(f, n, x, taken)
<1>1. /\ m.team1 = Opener(f, m.first, m.second, x) /\ m.team2 = Chaser(f, m.first, m.second, x)
      /\ AtOpen(f, m, x, taken) /\ m.first < m.second
  BY DEF MatchInv, AtToss, InFirst, InSecond, AtEnd, Playing
<1>2. /\ SameSides(n, m) /\ n.at = "ask" /\ n.innings = 1 /\ n.i = 1 /\ n.curWkt = 0
      /\ n.totalRuns1 = 0 /\ n.totalRuns2 = 0
  BY <1>1 DEF MatchState, SameSides, AtOpen
<1>3. Drawn(f, n, x, taken, 0 + 1)
  BY <1>1, <1>2 DEF AtOpen, Drawn, SameSides
<1>4. InFirst(f, n, x, taken)
  BY <1>2, <1>3, BattingStarts DEF InFirst, FirstAt, Playing
<1> QED BY <1>1, <1>2, <1>4 DEF MatchInv, SameSides

\* The result of a match that is over.
LEMMA MatchResult ==
  ASSUME NEW f, NEW m \in MatchState, NEW x \in [Teams -> Nat], NEW taken \in [Teams -> Nat],
         MatchInv(f, m, x, taken), m.at = "over", NEW r, r = Result(f, m.first, m.second, x)
  PROVE  /\ Winner(m) = r.winner /\ r.x \in [Teams -> Nat]
         /\ \A t \in {m.first, m.second} : r.x[t] = taken[t]
         /\ \A t \in Teams \ {m.first, m.second} : r.x[t] = x[t]
<1>1. PICK one, two : /\ one = InningsOne(f, m.team1, m.team2, x)
                      /\ two = InningsTwo(f, m.team1, m.team2, x, one)
  OBVIOUS
<1>2. /\ m.team1 = Opener(f, m.first, m.second, x) /\ m.team2 = Chaser(f, m.first, m.second, x)
      /\ AtEnd(f, m, x, taken, one, two)
  BY <1>1 DEF MatchInv, AtToss, AtOpen, InFirst, InSecond, Playing
<1>3. /\ {m.team1, m.team2} = {m.first, m.second} /\ m.first < m.second
      /\ m.first \in Teams /\ m.second \in Teams /\ m.first # m.second
      /\ m.team1 \in Teams /\ m.team2 \in Teams
  BY Sides
<1>4. IsResult(r, m.first, m.second, x, m.team1, m.team2, one, two)
  BY <1>1, <1>2, <1>3, ResultIs
<1>5. /\ m.totalRuns1 = one.runs /\ m.totalRuns2 = two.runs
      /\ m.totalRuns1 \in Nat /\ m.totalRuns2 \in Nat
  BY <1>2 DEF AtEnd, MatchState
<1>6. Min({m.team1, m.team2}) = m.first
  <2>1. m.first \in Nat /\ m.second \in Nat
    BY <1>3, WorldCupAssumption DEF Teams
  <2>2. \A t \in {m.team1, m.team2} : m.first <= t
    BY <1>3, <2>1
  <2>3. /\ m.first \in {m.team1, m.team2}
        /\ \A t \in {m.team1, m.team2} : (\A u \in {m.team1, m.team2} : t <= u) => t = m.first
    BY <1>3, <2>1
  <2> QED BY <2>2, <2>3 DEF Min
<1>7. Winner(m) = r.winner
  <2>1. r.winner = IF one.runs > two.runs THEN m.team1 ELSE IF two.runs > one.runs THEN m.team2
                   ELSE m.first
    BY <1>3, <1>4 DEF IsResult
  <2>2. Winner(m) = IF two.runs > one.runs THEN m.team2 ELSE IF two.runs < one.runs THEN m.team1
                    ELSE m.first
    BY <1>5, <1>6 DEF Winner
  <2>3. one.runs \in Nat /\ two.runs \in Nat
    BY <1>5
  <2> QED BY <2>1, <2>2, <2>3
<1>8. \A t \in {m.team1, m.team2} : taken[t] = x[t] + (1 + one.balls + two.balls)
  <2>1. Drawn(f, m, x, taken, 1 + one.balls + two.balls) /\ m.at # "read2"
    BY <1>2 DEF AtEnd
  <2>2. /\ taken[m.team2] = x[m.team2] + (1 + one.balls + two.balls)
        /\ taken[m.team1] = x[m.team1] + (1 + one.balls + two.balls) + 0
    BY <2>1 DEF Drawn
  <2>3. one.balls \in Nat /\ two.balls \in Nat /\ x[m.team1] \in Nat
    BY <1>1, <1>3, InningsTypes
  <2> QED BY <2>2, <2>3
<1> QED BY <1>3, <1>4, <1>7, <1>8 DEF IsResult

-----------------------------------------------------------------------------
\* Both scores of a ball have been read: they are those of the files.
BothRead(f, m, x, next, k, s2) ==
  /\ m.s1 = f[m.team1][x[m.team1] + k + 1] /\ s2 = f[m.team2][x[m.team2] + k + 1]
  /\ next[m.team1] = x[m.team1] + (k + 1) /\ next[m.team2] = x[m.team2] + (k + 1)
  /\ \A t \in {m.team1, m.team2} : \A j \in 1 .. x[t] + k + 1 : f[t][j] \in Nat

LEMMA SecondRead ==
  ASSUME NEW f \in [Teams -> Seq(Nat)], NEW m \in MatchState,
         NEW x \in [Teams -> Nat], NEW taken \in [Teams -> Nat], m.at = "read2",
         taken[m.team1] <= Len(f[m.team1]), taken[m.team2] + 1 <= Len(f[m.team2]),
         NEW s2, s2 = f[m.team2][taken[m.team2] + 1],
         NEW next, next[m.team1] = taken[m.team1], next[m.team2] = taken[m.team2] + 1,
         NEW k \in Nat, Drawn(f, m, x, taken, k)
  PROVE  BothRead(f, m, x, next, k, s2)
<1>1. m.team1 \in Teams /\ m.team2 \in Teams
  BY DEF MatchState
<1>2. PICK t1 \in Teams, t2 \in Teams : t1 = m.team1 /\ t2 = m.team2
  BY <1>1
<1>3. PICK x1 \in Nat, x2 \in Nat, l1 \in Nat, l2 \in Nat :
        x1 = x[t1] /\ x2 = x[t2] /\ l1 = Len(f[t1]) /\ l2 = Len(f[t2])
  <2>1. f[t1] \in Seq(Nat) /\ f[t2] \in Seq(Nat) /\ x[t1] \in Nat /\ x[t2] \in Nat
    OBVIOUS
  <2> QED BY <2>1
<1>4. taken[t2] = x2 + k /\ taken[t1] = x1 + k + 1 /\ m.s1 = f[t1][x1 + k + 1]
  BY <1>2, <1>3 DEF Drawn
<1>5. next[t1] = x1 + k + 1 /\ next[t2] = x2 + k + 1 /\ s2 = f[t2][x2 + k + 1]
  BY <1>2, <1>4
<1>6. x1 + k + 1 <= l1 /\ x2 + k + 1 <= l2
  BY <1>2, <1>3, <1>4
<1>7. ASSUME NEW j \in 1 .. x1 + k + 1 PROVE f[t1][j] \in Nat
  <2>1. PICK q \in Seq(Nat) : q = f[t1]
    OBVIOUS
  <2>2. j \in 1 .. Len(q)
    BY <1>3, <1>6, <2>1
  <2>3. q[j] \in Nat
    BY <2>2, ElementOfSeq
  <2> QED BY <2>1, <2>3
<1>8. ASSUME NEW j \in 1 .. x2 + k + 1 PROVE f[t2][j] \in Nat
  <2>1. PICK q \in Seq(Nat) : q = f[t2]
    OBVIOUS
  <2>2. j \in 1 .. Len(q)
    BY <1>3, <1>6, <2>1
  <2>3. q[j] \in Nat
    BY <2>2, ElementOfSeq
  <2> QED BY <2>1, <2>3
<1>9. x1 + k + 1 = x1 + (k + 1) /\ x2 + k + 1 = x2 + (k + 1)
  OBVIOUS
<1>10. /\ m.s1 = f[m.team1][x[m.team1] + k + 1] /\ s2 = f[m.team2][x[m.team2] + k + 1]
       /\ next[m.team1] = x[m.team1] + (k + 1) /\ next[m.team2] = x[m.team2] + (k + 1)
  BY <1>2, <1>3, <1>4, <1>5, <1>9
<1>11. \A t \in {m.team1, m.team2} : \A j \in 1 .. x[t] + k + 1 : f[t][j] \in Nat
  BY <1>2, <1>3, <1>7, <1>8
<1> QED BY <1>10, <1>11 DEF BothRead

LEMMA DrawnNext ==
  ASSUME NEW f, NEW m \in MatchState, NEW x \in [Teams -> Nat], NEW next, NEW k \in Nat, NEW s2,
         BothRead(f, m, x, next, k, s2), NEW n, n.at # "read2",
         {n.team1, n.team2} = {m.team1, m.team2}
  PROVE  Drawn(f, n, x, next, k + 1)
<1>1. \A t \in {m.team1, m.team2} : next[t] = x[t] + (k + 1) /\ x[t] \in Nat
  BY DEF BothRead, MatchState
<1>2. /\ next[n.team1] = x[n.team1] + (k + 1) /\ x[n.team1] \in Nat
      /\ next[n.team2] = x[n.team2] + (k + 1)
  BY <1>1
<1>3. x[n.team1] + (k + 1) + 0 = x[n.team1] + (k + 1)
  BY <1>2
<1> QED BY <1>2, <1>3 DEF Drawn

\* The toss is decided.
LEMMA TossDecided ==
  ASSUME NEW f \in [Teams -> Seq(Nat)], NEW m \in MatchState, NEW x \in [Teams -> Nat],
         NEW taken, NEW next, NEW s2, m.first < m.second, m.at = "read2", AtToss(f, m, x, taken),
         BothRead(f, m, x, next, 0, s2), NEW n, n = Scored(m, s2)
  PROVE  MatchInv(f, n, x, next)
<1>1. PICK a, b : a = m.first /\ b = m.second
  OBVIOUS
<1>2. /\ m.innings = 0 /\ m.team1 = a /\ m.team2 = b /\ a \in Teams /\ b \in Teams
      /\ m.i = 1 /\ m.curWkt = 0 /\ m.totalRuns1 = 0 /\ m.totalRuns2 = 0
  BY <1>1 DEF AtToss, MatchState
<1>3. /\ n.at = "open" /\ n.first = m.first /\ n.second = m.second
      /\ n.i = m.i /\ n.curWkt = m.curWkt
      /\ n.totalRuns1 = m.totalRuns1 /\ n.totalRuns2 = m.totalRuns2
      /\ n.team1 = IF (m.s1 + s2) % 2 = 0 THEN m.team2 ELSE m.team1
      /\ n.team2 = IF (m.s1 + s2) % 2 = 0 THEN m.team1 ELSE m.team2
  BY <1>2, TossScored
<1>4. {n.team1, n.team2} = {m.team1, m.team2} /\ n.at # "read2"
  BY <1>3
<1>5. Drawn(f, n, x, next, 0 + 1)
  BY <1>4, DrawnNext
<1>6. m.s1 = f[a][x[a] + 1] /\ s2 = f[b][x[b] + 1]
  <2>1. x[a] \in Nat /\ x[b] \in Nat
    BY <1>2
  <2>2. x[a] + 0 + 1 = x[a] + 1 /\ x[b] + 0 + 1 = x[b] + 1
    BY <2>1
  <2> QED BY <1>2, <2>2 DEF BothRead
<1>7. n.team1 = Opener(f, a, b, x) /\ n.team2 = Chaser(f, a, b, x)
  BY <1>2, <1>3, <1>6 DEF Opener, Chaser, Swap
<1>8. AtOpen(f, n, x, next)
  BY <1>2, <1>3, <1>5 DEF AtOpen
<1> QED BY <1>1, <1>3, <1>7, <1>8 DEF MatchInv

\* A ball of the first innings.
LEMMA FirstBall ==
  ASSUME NEW f, NEW m \in MatchState, NEW x \in [Teams -> Nat],
         NEW next, NEW s2 \in Nat, m.first < m.second,
         m.team1 = Opener(f, m.first, m.second, x), m.team2 = Chaser(f, m.first, m.second, x),
         m.innings = 1, m.totalRuns2 = 0, NEW k \in Nat,
         BothRead(f, m, x, next, k + 1, s2), FirstAt(f, m, x, k), NEW n, n = Scored(m, s2)
  PROVE  MatchInv(f, n, x, next)
<1>1. PICK t1 \in Teams, t2 \in Teams : t1 = m.team1 /\ t2 = m.team2
  BY DEF MatchState
<1>2. PICK bat, bowl : bat = BallScores(f, t1, x[t1] + 1) /\ bowl = BallScores(f, t2, x[t2] + 1)
  OBVIOUS
<1>3. Batting(m.i, m.curWkt, m.totalRuns1, bat, bowl, 0, k)
  BY <1>1, <1>2 DEF FirstAt
<1>4. m.i = k + 1 /\ k < BALLS
  BY <1>3 DEF Batting
<1>5. bat[k + 1] = m.s1 /\ bowl[k + 1] = s2 /\ \A j \in 1 .. k + 1 : bat[j] \in Nat
  <2>1. PICK z1 \in Nat, z2 \in Nat : z1 = x[t1] + 1 /\ z2 = x[t2] + 1
    OBVIOUS
  <2>2. x[t1] + (k + 1) + 1 = z1 + k + 1 /\ x[t2] + (k + 1) + 1 = z2 + k + 1
    BY <2>1
  <2>3. /\ m.s1 = f[t1][z1 + k + 1] /\ s2 = f[t2][z2 + k + 1]
        /\ \A j \in 1 .. z1 + k + 1 : f[t1][j] \in Nat
        /\ \A j \in 1 .. z2 + k + 1 : f[t2][j] \in Nat
    BY <1>1, <2>2 DEF BothRead
  <2>4. /\ BallScores(f, t1, z1)[k + 1] = f[t1][z1 + k + 1]
        /\ \A j \in 1 .. k + 1 : BallScores(f, t1, z1)[j] \in Nat
    BY <1>4, <2>3, ScoresAt
  <2>5. BallScores(f, t2, z2)[k + 1] = f[t2][z2 + k + 1]
    BY <1>4, <2>3, ScoresAt
  <2> QED BY <1>2, <2>1, <2>3, <2>4, <2>5
<1>6. PICK w, r : /\ w = m.curWkt + (IF m.s1 = s2 THEN 1 ELSE 0)
                  /\ r = m.totalRuns1 + (IF m.s1 = s2 THEN 0 ELSE m.s1)
  OBVIOUS
<1>7. IsBall(m.i, w, r, bat, bowl, 0, k)
  <2>1. /\ w = m.curWkt + (IF bat[k + 1] = bowl[k + 1] THEN 1 ELSE 0)
        /\ r = m.totalRuns1 + (IF bat[k + 1] = bowl[k + 1] THEN 0 ELSE bat[k + 1])
    BY <1>5, <1>6
  <2>2. 0 \in Nat
    OBVIOUS
  <2> QED BY <1>3, <1>5, <2>1, <2>2, BallPlayed
<1>8. (w = WICKETS \/ m.i + 1 > BALLS) <=> Ends(bat, bowl, 0, k + 1)
  <2>1. (k + 1) + 1 > BALLS <=> k + 1 = BALLS
    BY <1>4, WorldCupAssumption
  <2> QED BY <1>4, <1>7, <2>1 DEF IsBall
<1>9. /\ SameSides(n, m) /\ n.at = "ask" /\ n.totalRuns1 = r /\ n.totalRuns2 = m.totalRuns2
      /\ Ends(bat, bowl, 0, k + 1) => n.innings = 2 /\ n.i = 1 /\ n.curWkt = 0
      /\ ~Ends(bat, bowl, 0, k + 1) => n.innings = 1 /\ n.i = m.i + 1 /\ n.curWkt = w
  BY <1>6, <1>8, FirstScored
<1>10. /\ n.first = m.first /\ n.second = m.second /\ n.team1 = t1 /\ n.team2 = t2
       /\ n.first < n.second
       /\ n.team1 = Opener(f, n.first, n.second, x) /\ n.team2 = Chaser(f, n.first, n.second, x)
  BY <1>1, <1>9 DEF SameSides
<1>11. Drawn(f, n, x, next, k + 1 + 1)
  <2>1. {n.team1, n.team2} = {m.team1, m.team2} /\ n.at # "read2" /\ k + 1 \in Nat
    BY <1>1, <1>9, <1>10
  <2> QED BY <2>1, DrawnNext
<1>12. CASE Ends(bat, bowl, 0, k + 1)
  <2>1. PICK one : one = InningsOne(f, t1, t2, x)
    OBVIOUS
  <2>2. one = Innings(bat, bowl, 0) /\ one.balls = k + 1 /\ one.runs = r
    BY <1>2, <1>7, <1>12, <2>1 DEF InningsOne, IsBall
  <2>3. 0 + 1 + one.balls = k + 1 + 1
    BY <2>2
  <2>4. InSecond(f, n, x, next, one)
    <3>1. n.at \in Playing /\ n.innings = 2 /\ n.totalRuns1 = one.runs
      BY <1>9, <1>12, <2>2 DEF Playing
    <3>2. Drawn(f, n, x, next, 0 + 1 + one.balls)
      BY <1>11, <2>3
    <3>3. n.i = 1 /\ n.curWkt = 0 /\ n.totalRuns2 = 0 /\ 0 \in Nat
      BY <1>9, <1>12
    <3>4. SecondAt(f, n, x, one, 0)
      BY <3>3, BattingStarts DEF SecondAt
    <3> QED BY <3>1, <3>2, <3>3, <3>4 DEF InSecond
  <2> QED BY <1>10, <2>1, <2>4 DEF MatchInv
<1>13. CASE ~Ends(bat, bowl, 0, k + 1)
  <2>1. InFirst(f, n, x, next)
    <3>1. n.at \in Playing /\ n.innings = 1 /\ n.totalRuns2 = 0 /\ k + 1 \in Nat
      BY <1>9, <1>13 DEF Playing
    <3>2. FirstAt(f, n, x, k + 1)
      BY <1>2, <1>7, <1>9, <1>10, <1>13 DEF IsBall, FirstAt
    <3> QED BY <1>11, <3>1, <3>2 DEF InFirst
  <2> QED BY <1>10, <2>1 DEF MatchInv
<1> QED BY <1>12, <1>13

\* A ball of the second innings.
LEMMA SecondBall ==
  ASSUME NEW f, NEW m \in MatchState, NEW x \in [Teams -> Nat],
         NEW next, NEW s2 \in Nat, m.first < m.second,
         m.team1 = Opener(f, m.first, m.second, x), m.team2 = Chaser(f, m.first, m.second, x),
         NEW one, one = InningsOne(f, m.team1, m.team2, x),
         NEW d \in Nat, d = one.balls, NEW runs \in Nat, runs = one.runs,
         m.innings = 2, m.totalRuns1 = runs, NEW k \in Nat,
         BothRead(f, m, x, next, k + 1 + d, s2), SecondAt(f, m, x, one, k), NEW n, n = Scored(m, s2)
  PROVE  MatchInv(f, n, x, next)
<1>0. PICK target \in Nat : target = runs + 1 /\ target # 0
  OBVIOUS
<1>1. PICK t1 \in Teams, t2 \in Teams : t1 = m.team1 /\ t2 = m.team2
  BY DEF MatchState
<1>2. PICK bat, bowl : /\ bat = BallScores(f, t2, x[t2] + 1 + d)
                       /\ bowl = BallScores(f, t1, x[t1] + 1 + d)
  OBVIOUS
<1>3. Batting(m.i, m.curWkt, m.totalRuns2, bat, bowl, target, k)
  BY <1>0, <1>1, <1>2 DEF SecondAt
<1>4. m.i = k + 1 /\ k < BALLS
  BY <1>3 DEF Batting
<1>5. bat[k + 1] = s2 /\ bowl[k + 1] = m.s1 /\ \A j \in 1 .. k + 1 : bat[j] \in Nat
  <2>1. PICK z1 \in Nat, z2 \in Nat : z1 = x[t1] + 1 + d /\ z2 = x[t2] + 1 + d
    OBVIOUS
  <2>2. x[t1] + (k + 1 + d) + 1 = z1 + k + 1 /\ x[t2] + (k + 1 + d) + 1 = z2 + k + 1
    BY <2>1
  <2>3. /\ m.s1 = f[t1][z1 + k + 1] /\ s2 = f[t2][z2 + k + 1]
        /\ \A j \in 1 .. z1 + k + 1 : f[t1][j] \in Nat
        /\ \A j \in 1 .. z2 + k + 1 : f[t2][j] \in Nat
    BY <1>1, <2>2 DEF BothRead
  <2>4. /\ BallScores(f, t2, z2)[k + 1] = f[t2][z2 + k + 1]
        /\ \A j \in 1 .. k + 1 : BallScores(f, t2, z2)[j] \in Nat
    BY <1>4, <2>3, ScoresAt
  <2>5. BallScores(f, t1, z1)[k + 1] = f[t1][z1 + k + 1]
    BY <1>4, <2>3, ScoresAt
  <2> QED BY <1>2, <2>1, <2>3, <2>4, <2>5
<1>6. PICK w, r : /\ w = m.curWkt + (IF m.s1 = s2 THEN 1 ELSE 0)
                  /\ r = m.totalRuns2 + (IF m.s1 = s2 THEN 0 ELSE s2)
  OBVIOUS
<1>7. IsBall(m.i, w, r, bat, bowl, target, k)
  <2>1. /\ w = m.curWkt + (IF bat[k + 1] = bowl[k + 1] THEN 1 ELSE 0)
        /\ r = m.totalRuns2 + (IF bat[k + 1] = bowl[k + 1] THEN 0 ELSE bat[k + 1])
    BY <1>5, <1>6
  <2> QED BY <1>3, <1>5, <2>1, BallPlayed
<1>8. (w = WICKETS \/ m.i + 1 > BALLS \/ r > m.totalRuns1) <=> Ends(bat, bowl, target, k + 1)
  <2>1. (k + 1) + 1 > BALLS <=> k + 1 = BALLS
    BY <1>4, WorldCupAssumption
  <2>2. r \in Nat
    BY <1>7 DEF IsBall
  <2>3. r > runs <=> target # 0 /\ r >= target
    BY <1>0, <2>2
  <2> QED BY <1>4, <1>7, <2>1, <2>3 DEF IsBall
<1>9. /\ SameSides(n, m) /\ n.totalRuns1 = m.totalRuns1 /\ n.totalRuns2 = r /\ n.innings = 2
      /\ n.i = m.i + 1 /\ n.curWkt = w
      /\ Ends(bat, bowl, target, k + 1) => n.at = "over"
      /\ ~Ends(bat, bowl, target, k + 1) => n.at = "ask"
  BY <1>6, <1>8, SecondScored
<1>10. /\ n.first = m.first /\ n.second = m.second /\ n.team1 = t1 /\ n.team2 = t2
       /\ n.first < n.second
       /\ n.team1 = Opener(f, n.first, n.second, x) /\ n.team2 = Chaser(f, n.first, n.second, x)
       /\ one = InningsOne(f, n.team1, n.team2, x)
  BY <1>1, <1>9 DEF SameSides
<1>11. Drawn(f, n, x, next, k + 1 + d + 1)
  <2>1. {n.team1, n.team2} = {m.team1, m.team2} /\ n.at # "read2" /\ k + 1 + d \in Nat
    BY <1>1, <1>9, <1>10
  <2> QED BY <2>1, DrawnNext
<1>12. CASE Ends(bat, bowl, target, k + 1)
  <2>1. PICK two : two = InningsTwo(f, t1, t2, x, one)
    OBVIOUS
  <2>2. two = Innings(bat, bowl, target)
    BY <1>0, <1>2, <2>1 DEF InningsTwo
  <2>3. two.balls = k + 1 /\ two.runs = r
    BY <1>7, <1>12, <2>2 DEF IsBall
  <2>4. 1 + d + (k + 1) = k + 1 + d + 1
    OBVIOUS
  <2>5. Drawn(f, n, x, next, 1 + one.balls + two.balls)
    BY <1>11, <2>3, <2>4
  <2>6. AtEnd(f, n, x, next, one, two)
    BY <1>9, <1>12, <2>3, <2>5 DEF AtEnd
  <2> QED BY <1>10, <2>1, <2>6 DEF MatchInv
<1>13. CASE ~Ends(bat, bowl, target, k + 1)
  <2>1. InSecond(f, n, x, next, one)
    <3>1. n.at \in Playing /\ n.innings = 2 /\ n.totalRuns1 = one.runs
      BY <1>9, <1>13 DEF Playing
    <3>2. Batting(m.i + 1, w, r, bat, bowl, target, k + 1)
      BY <1>7, <1>13 DEF IsBall
    <3>3. SecondAt(f, n, x, one, k + 1)
      BY <1>0, <1>2, <1>9, <1>10, <3>2 DEF SecondAt
    <3>4. k + 1 + d + 1 = (k + 1) + 1 + d /\ k + 1 \in Nat
      OBVIOUS
    <3>5. Drawn(f, n, x, next, (k + 1) + 1 + one.balls)
      BY <1>11, <3>4
    <3> QED BY <3>1, <3>3, <3>4, <3>5 DEF InSecond
  <2> QED BY <1>10, <2>1 DEF MatchInv
<1> QED BY <1>12, <1>13

LEMMA MatchRead2 ==
  ASSUME NEW f \in [Teams -> Seq(Nat)], NEW m \in MatchState,
         NEW x \in [Teams -> Nat], NEW taken \in [Teams -> Nat], MatchInv(f, m, x, taken),
         m.at = "read2", taken[m.team1] <= Len(f[m.team1]), taken[m.team2] + 1 <= Len(f[m.team2]),
         NEW s2 \in Nat, s2 = f[m.team2][taken[m.team2] + 1],
         NEW next, next[m.team1] = taken[m.team1], next[m.team2] = taken[m.team2] + 1,
         NEW n, n = Scored(m, s2)
  PROVE  MatchInv(f, n, x, next)
<1>1. \A k \in Nat : Drawn(f, m, x, taken, k) => BothRead(f, m, x, next, k, s2)
  BY SecondRead
<1>2. m.first < m.second
  BY DEF MatchInv
<1>3. CASE AtToss(f, m, x, taken)
  <2>1. BothRead(f, m, x, next, 0, s2)
    BY <1>1, <1>3 DEF AtToss
  <2> QED BY <1>2, <1>3, <2>1, TossDecided
<1>4. CASE ~AtToss(f, m, x, taken)
  <2>1. PICK one : one = InningsOne(f, m.team1, m.team2, x)
    OBVIOUS
  <2>2. one.balls \in Nat
    BY <2>1, InningsTypes
  <2>3. /\ m.team1 = Opener(f, m.first, m.second, x) /\ m.team2 = Chaser(f, m.first, m.second, x)
        /\ InFirst(f, m, x, taken) \/ InSecond(f, m, x, taken, one)
    BY <1>4, <2>1 DEF MatchInv, AtOpen, AtEnd
  <2>4. CASE InFirst(f, m, x, taken)
    <3>1. PICK k \in Nat : Drawn(f, m, x, taken, k + 1) /\ FirstAt(f, m, x, k)
      BY <2>4 DEF InFirst
    <3>2. m.innings = 1 /\ m.totalRuns2 = 0 /\ BothRead(f, m, x, next, k + 1, s2)
      BY <1>1, <2>4, <3>1 DEF InFirst
    <3> QED BY <1>2, <2>3, <3>1, <3>2, FirstBall
  <2>5. CASE InSecond(f, m, x, taken, one)
    <3>0. PICK d \in Nat, runs \in Nat : d = one.balls /\ runs = one.runs /\ m.totalRuns1 = runs
      BY <2>2, <2>5 DEF InSecond, MatchState
    <3>1. PICK k \in Nat : Drawn(f, m, x, taken, k + 1 + d) /\ SecondAt(f, m, x, one, k)
      BY <2>5, <3>0 DEF InSecond
    <3>2. m.innings = 2 /\ k + 1 + d \in Nat
      BY <2>5 DEF InSecond
    <3>3. BothRead(f, m, x, next, k + 1 + d, s2)
      BY <1>1, <3>1, <3>2
    <3> QED BY <1>2, <2>1, <2>3, <3>0, <3>1, <3>2, <3>3, SecondBall
  <2> QED BY <2>3, <2>4, <2>5
<1> QED BY <1>3, <1>4

-----------------------------------------------------------------------------
\* The bytes of the files that the matches have read.
LEMMA TakenTypes ==
  ASSUME Inv, DataAll
  PROVE  /\ TakenAll \in [Teams -> Nat]
         /\ \A t \in Teams : TakenAll[t] = Taken(t) /\ TakenAll[t] <= Len(file[t])
<1>1. ASSUME NEW t \in Teams PROVE Taken(t) \in Nat /\ Taken(t) <= Len(file[t])
  <2>1. PICK o \in Nat, l \in Nat : o = offset[t] /\ l = Len(file[t])
    BY DEF Inv, TypeInv
  <2>2. o <= l /\ (matchpipe[t] # <<>> => o >= 1)
    BY <2>1 DEF DataAll, DataInv
  <2> QED BY <2>1, <2>2 DEF Taken
<1> QED BY <1>1 DEF TakenAll

LEMMA DataSame ==
  ASSUME DataAll, UNCHANGED <<file, offset, matchpipe>>
  PROVE  DataAll' /\ TakenAll' = TakenAll
  BY DEF DataAll, DataInv, TakenAll, Taken

LEMMA DataTeam ==
  ASSUME Inv, DataAll, NEW t \in Teams, teamPlay(t)
  PROVE  DataAll' /\ TakenAll' = TakenAll
<1>1. /\ t \in listens /\ commpipe[t] # <<>> /\ file' = file
      /\ offset \in [Teams -> Nat] /\ matchpipe \in [Teams -> Seq(Nat)]
      /\ \/ /\ Head(commpipe[t]) = "1" /\ offset[t] < Len(file[t])
            /\ offset' = [offset EXCEPT ![t] = @ + 1]
            /\ matchpipe' = [matchpipe EXCEPT ![t] = Append(@, file[t][offset[t] + 1])]
         \/ offset' = offset /\ matchpipe' = matchpipe
  <2>1. offset \in [Teams -> Nat] /\ matchpipe \in [Teams -> Seq(Nat)]
    BY DEF Inv, TypeInv
  <2> QED BY <2>1 DEF teamPlay
<1>2. CASE offset' = offset /\ matchpipe' = matchpipe
  BY <1>1, <1>2, DataSame
<1>3. CASE /\ Head(commpipe[t]) = "1" /\ offset[t] < Len(file[t])
           /\ offset' = [offset EXCEPT ![t] = @ + 1]
           /\ matchpipe' = [matchpipe EXCEPT ![t] = Append(@, file[t][offset[t] + 1])]
  <2>1. PICK o \in Nat, l \in Nat : o = offset[t] /\ l = Len(file[t])
    BY DEF Inv, TypeInv
  <2>2. matchpipe[t] = <<>>
    BY <1>1, <1>3, Queues DEF Inv, TeamInv
  <2>3. offset'[t] = o + 1 /\ matchpipe'[t] = <<file[t][o + 1]>> /\ o < l
    <3>1. matchpipe'[t] = Append(matchpipe[t], file[t][o + 1])
      BY <1>1, <1>3, <2>1
    <3>2. Append(<<>>, file[t][o + 1]) = <<file[t][o + 1]>>
      BY Queues
    <3> QED BY <1>1, <1>3, <2>1, <2>2, <3>1, <3>2
  <2>4. \A u \in Teams \ {t} : offset'[u] = offset[u] /\ matchpipe'[u] = matchpipe[u]
    BY <1>1, <1>3
  <2>5. /\ o + 1 <= l /\ o + 1 >= 1 /\ (o + 1) - 1 = o
        /\ <<file[t][o + 1]>> # <<>>
    <3>1. <<file[t][o + 1]>> # <<>>
      BY Queues
    <3> QED BY <2>3, <3>1
  <2>6. DataInv(t)' /\ Taken(t)' = Taken(t)
    BY <1>1, <2>1, <2>2, <2>3, <2>5 DEF DataInv, Taken
  <2>7. \A u \in Teams \ {t} : DataInv(u)' /\ Taken(u)' = Taken(u)
    BY <1>1, <2>4 DEF DataAll, DataInv, Taken
  <2> QED BY <2>6, <2>7 DEF DataAll, TakenAll
<1> QED BY <1>1, <1>2, <1>3

\* A match reads the next score of team u.
LEMMA DataRead ==
  ASSUME Inv, DataAll, NEW u \in Teams, matchpipe[u] # <<>>,
         matchpipe' = [matchpipe EXCEPT ![u] = Tail(@)], UNCHANGED <<file, offset>>
  PROVE  /\ DataAll'
         /\ Head(matchpipe[u]) = file[u][TakenAll[u] + 1] /\ TakenAll[u] + 1 <= Len(file[u])
         /\ TakenAll'[u] = TakenAll[u] + 1 /\ \A t \in Teams \ {u} : TakenAll'[t] = TakenAll[t]
<1>1. PICK o \in Nat, l \in Nat : o = offset[u] /\ l = Len(file[u])
  BY DEF Inv, TypeInv
<1>2. matchpipe \in [Teams -> Seq(Nat)]
  BY DEF Inv, TypeInv
<1>3. o <= l /\ o >= 1 /\ matchpipe[u] = <<file[u][o]>>
  BY <1>1 DEF DataAll, DataInv
<1>4. Head(matchpipe[u]) = file[u][o] /\ matchpipe'[u] = <<>>
  BY <1>2, <1>3, Queues
<1>5. Taken(u) = o - 1 /\ Taken(u)' = o /\ (o - 1) + 1 = o
  BY <1>1, <1>4 DEF Taken
<1>6. \A t \in Teams \ {u} : matchpipe'[t] = matchpipe[t]
  BY <1>2
<1>7. \A t \in Teams \ {u} : Taken(t)' = Taken(t) /\ DataInv(t)'
  BY <1>6 DEF Taken, DataInv, DataAll
<1>8. DataInv(u)'
  BY <1>1, <1>3, <1>4 DEF DataInv
<1>9. \A t \in Teams : TakenAll[t] = Taken(t) /\ TakenAll'[t] = Taken(t)'
  BY DEF TakenAll
<1> QED BY <1>1, <1>3, <1>4, <1>5, <1>7, <1>8, <1>9 DEF DataAll

-----------------------------------------------------------------------------
LEMMA GroupTables ==
  ASSUME NEW f, NEW g \in Groups
  PROVE  GroupTable(f, g) \in Table
<1>1. PICK lo \in Nat, hi \in Nat :
        lo = N * g /\ hi = N * g + N - 1 /\ lo < hi /\ Member(g) = lo .. hi
  <2>1. g = 0 \/ g = 1
    BY DEF Groups
  <2>2. N * 0 = 0 /\ N * 1 = N /\ N \in Nat /\ N > 1
    BY WorldCupAssumption
  <2>3. N * g \in Nat /\ N * g + N - 1 \in Nat /\ N * g < N * g + N - 1
    BY <2>1, <2>2
  <2> QED BY <2>3 DEF Member
<1>2. lo .. hi \subseteq Teams /\ hi \in lo .. hi
  BY <1>1, Members
<1>3. IsRows(Rows(f, lo, hi), f, lo, hi)
  BY <1>1, <1>2, RowsAre
<1> QED BY <1>1, <1>2, <1>3 DEF IsRows, GroupTable

LEMMA FinalTypes == ASSUME NEW f PROVE FinalStart(f) \in [Teams -> Nat]
<1>1. \A g \in Groups : GroupTable(f, g).x \in [Teams -> Nat]
  BY GroupTables DEF Table
<1>2. \A t \in Teams : (IF t < N THEN 0 ELSE 1) \in Groups
  BY DEF Groups
<1> QED BY <1>1, <1>2 DEF FinalStart

\* The leader of a group depends on the points of its teams alone.
LEMMA LeaderFrame ==
  ASSUME NEW g \in Groups, NEW p, NEW q, \A t \in Member(g) : p[t] = q[t]
  PROVE  Leader(p, g) = Leader(q, g)
<1>1. {t \in Member(g) : \A u \in Member(g) : p[u] <= p[t]}
        = {t \in Member(g) : \A u \in Member(g) : q[u] <= q[t]}
  OBVIOUS
<1> QED BY <1>1 DEF Leader

\* Steps of others do not matter to a group and to the final.
LEMMA GroupFrame ==
  ASSUME NEW g \in Groups, NEW m \in MatchState, NEW host, NEW f, NEW p, NEW q, NEW taken, NEW next,
         NEW pipe, GroupAt(g, m, host, f, p, taken, pipe),
         m.first \in Member(g), m.second \in Member(g),
         \A t \in Member(g) : q[t] = p[t], \A t \in Member(g) : next[t] = taken[t]
  PROVE  GroupAt(g, m, host, f, q, next, pipe)
<1>1. \A table : Agrees(Member(g), p, taken, table) => Agrees(Member(g), q, next, table)
  BY DEF Agrees
<1>2. ASSUME m.at \notin Idle \cup {"elect", "exited"}
      PROVE  \E table \in {Before(f, g, m.first, m.second)} :
               /\ \A t \in Member(g) : q[t] = table.points[t]
               /\ \A t \in Member(g) \ {m.first, m.second} : next[t] = table.x[t]
               /\ MatchInv(f, m, table.x, next)
  <2>1. PICK table : /\ table = Before(f, g, m.first, m.second)
                     /\ \A t \in Member(g) : p[t] = table.points[t]
                     /\ \A t \in Member(g) \ {m.first, m.second} : taken[t] = table.x[t]
                     /\ MatchInv(f, m, table.x, taken)
    BY <1>2 DEF GroupAt
  <2>2. MatchInv(f, m, table.x, next)
    BY <2>1, MatchFrame
  <2> QED BY <2>1, <2>2
<1> QED BY <1>1, <1>2 DEF GroupAt

\* A match that begins.
LEMMA MatchBegins ==
  ASSUME NEW f, NEW a \in Teams, NEW b \in Teams, a < b, NEW x \in [Teams -> Nat], NEW taken,
         taken[a] = x[a], taken[b] = x[b], NEW m, m = NewMatch(a, b)
  PROVE  MatchInv(f, m, x, taken)
<1>1. /\ m.at = "ask" /\ m.first = a /\ m.second = b /\ m.team1 = a /\ m.team2 = b
      /\ m.innings = 0 /\ m.i = 1 /\ m.curWkt = 0 /\ m.totalRuns1 = 0 /\ m.totalRuns2 = 0
  BY DEF NewMatch
<1>2. x[a] + 0 = x[a] /\ x[a] + 0 + 0 = x[a] /\ x[b] + 0 = x[b]
  <2>1. x[a] \in Nat /\ x[b] \in Nat
    OBVIOUS
  <2> QED BY <2>1
<1>3. Drawn(f, m, x, taken, 0)
  BY <1>1, <1>2 DEF Drawn
<1> QED BY <1>1, <1>3 DEF MatchInv, AtToss, Playing

-----------------------------------------------------------------------------
\* A step of a match under way keeps what the groups and the final have played.
LEMMA Advances ==
  ASSUME Inv, ResultAt(file, run, points, TakenAll, grppipe),
         NEW r \in Runners, run[r].at \notin Idle \cup {"elect"},
         NEW m \in MatchState, run' = [run EXCEPT ![r] = m],
         m.first = run[r].first, m.second = run[r].second,
         m.at \notin {"elect", "exited", "waitpid"},
         NEW next, \A t \in Teams \ {m.first, m.second} : next[t] = TakenAll[t],
         m.at # "failed" => \A x \in [Teams -> Nat] :
           MatchInv(file, run[r], x, TakenAll) => MatchInv(file, m, x, next)
  PROVE  ResultAt(file, run', points, next, grppipe)
<1>1. /\ run \in [Runners -> MatchState]
      /\ run'[r] = m /\ \A s \in Runners \ {r} : run'[s] = run[s]
  BY AwaitedAfter DEF Inv, TypeInv
<1>2. /\ \A g \in Groups : GroupAt(g, run[g], run[Host].at, file, points, TakenAll, grppipe[g])
      /\ FinalAt(run[Host], file, TakenAll)
  BY DEF ResultAt
<1>3. ASSUME NEW g \in Groups
      PROVE  GroupAt(g, run'[g], run'[Host].at, file, points, next, grppipe[g])
  <2>1. GroupInv(g) /\ g \in Runners /\ Host \in Runners /\ g # Host
    BY Members DEF Inv
  <2>2. CASE g = r
    <3>1. run'[g] = m
      BY <1>1, <2>2
    <3>2. run[g].first \in Member(g) /\ run[g].second \in Member(g) /\ run[g].first < run[g].second
      BY <2>1 DEF GroupInv
    <3>3. PICK table : /\ table = Before(file, g, run[g].first, run[g].second)
                       /\ \A t \in Member(g) : points[t] = table.points[t]
                       /\ \A t \in Member(g) \ {run[g].first, run[g].second} :
                            TakenAll[t] = table.x[t]
                       /\ MatchInv(file, run[g], table.x, TakenAll)
      <4>1. run[g].at \notin Idle \cup {"elect", "exited"}
        BY <2>2 DEF Idle
      <4>2. GroupAt(g, run[g], run[Host].at, file, points, TakenAll, grppipe[g])
        BY <1>2
      <4> QED BY <4>1, <4>2 DEF GroupAt
    <3>4. table.x \in [Teams -> Nat]
      BY <3>2, <3>3, Tables DEF Table
    <3>5. m.at # "failed" => MatchInv(file, m, table.x, next)
      BY <2>2, <3>3, <3>4
    <3>6. \A t \in Member(g) \ {m.first, m.second} : next[t] = table.x[t]
      BY <2>1, <2>2, <3>3, Members
    <3>7. table \in {Before(file, g, m.first, m.second)}
      BY <2>2, <3>3
    <3> QED BY <3>1, <3>3, <3>5, <3>6, <3>7 DEF GroupAt, Idle
  <2>3. CASE g # r /\ r # Host
    <3>1. r \in Groups /\ run'[g] = run[g] /\ run'[Host] = run[Host]
      BY <1>1, <2>1, <2>3 DEF Runners
    <3>2. m.first \in Member(r) /\ m.second \in Member(r)
      BY <3>1 DEF Inv, GroupInv
    <3>3. \A t \in Member(g) : next[t] = TakenAll[t]
      BY <2>3, <3>1, <3>2, Members DEF Groups
    <3>4. run[g] \in MatchState /\ run[g].first \in Member(g) /\ run[g].second \in Member(g)
      BY <1>1, <2>1 DEF GroupInv
    <3> QED BY <1>2, <3>1, <3>3, <3>4, GroupFrame
  <2>4. CASE r = Host
    <3>1. run'[g] = run[g] /\ run'[Host].at # "waitpid" /\ run[g].at = "exited"
      BY <1>1, <2>1, <2>4 DEF GroupInv, Idle
    <3> QED BY <3>1 DEF GroupAt, Idle
  <2> QED BY <2>2, <2>3, <2>4
<1>4. FinalAt(run'[Host], file, next)
  <2>1. CASE r = Host
    BY <1>1, <1>2, <2>1, FinalTypes DEF FinalAt, Idle
  <2>2. CASE r # Host
    <3>1. r \in Groups /\ run'[Host] = run[Host]
      BY <1>1, <2>2, Members DEF Runners
    <3>2. run[Host].at = "waitpid"
      BY <3>1 DEF Inv, GroupInv, Idle
    <3> QED BY <3>1, <3>2 DEF FinalAt, Idle
  <2> QED BY <2>1, <2>2
<1> QED BY <1>3, <1>4 DEF ResultAt

LEMMA AskResult ==
  ASSUME Inv, DataAll, ResultAt(file, run, points, TakenAll, grppipe), NEW r \in Runners, Ask(r)
  PROVE  DataAll' /\ ResultAt(file, run', points', TakenAll', grppipe')
<1>1. PICK m : m = [run[r] EXCEPT !.at = "read1"]
  OBVIOUS
<1>2. /\ run[r].at = "ask" /\ run[r] \in MatchState /\ run' = [run EXCEPT ![r] = m]
      /\ UNCHANGED <<file, offset, matchpipe, points, grppipe>>
  BY <1>1 DEF Ask, Inv, TypeInv
<1>3. m \in MatchState /\ m.at = "read1" /\ m.first = run[r].first /\ m.second = run[r].second
  BY <1>1, <1>2 DEF MatchState, Stages
<1>4. DataAll' /\ TakenAll' = TakenAll
  BY <1>2, DataSame
<1>5. \A x : MatchInv(file, run[r], x, TakenAll) => MatchInv(file, m, x, TakenAll)
  BY <1>1, <1>2, MatchAsk
<1>6. ResultAt(file, run', points, TakenAll, grppipe)
  BY <1>2, <1>3, <1>5, Advances DEF Idle
<1> QED BY <1>2, <1>4, <1>6

\* A runner that has opened its output file starts the first innings.
LEMMA OpenResult ==
  ASSUME Inv, DataAll, ResultAt(file, run, points, TakenAll, grppipe),
         NEW r \in Runners, OpenOutput(r)
  PROVE  DataAll' /\ ResultAt(file, run', points', TakenAll', grppipe')
<1>1. PICK m : /\ run' = [run EXCEPT ![r] = m]
               /\ \/ m = [run[r] EXCEPT !.at = "ask", !.innings = 1]
                  \/ m = [run[r] EXCEPT !.at = "failed"]
  BY DEF OpenOutput
<1>2. /\ run[r].at = "open" /\ run[r] \in MatchState
      /\ UNCHANGED <<file, offset, matchpipe, points, grppipe>>
  BY DEF OpenOutput, Inv, TypeInv
<1>3. /\ m \in MatchState /\ m.at \in {"ask", "failed"}
      /\ m.first = run[r].first /\ m.second = run[r].second
  <2>1. CASE m = [run[r] EXCEPT !.at = "ask", !.innings = 1]
    BY <1>2, <2>1 DEF MatchState, Stages
  <2>2. CASE m = [run[r] EXCEPT !.at = "failed"]
    BY <1>2, <2>2 DEF MatchState, Stages
  <2> QED BY <1>1, <2>1, <2>2
<1>4. DataAll' /\ TakenAll' = TakenAll /\ TakenAll \in [Teams -> Nat]
  BY <1>2, DataSame, TakenTypes
<1>5. ASSUME m.at # "failed", NEW x \in [Teams -> Nat], MatchInv(file, run[r], x, TakenAll)
      PROVE  MatchInv(file, m, x, TakenAll)
  <2>1. m = [run[r] EXCEPT !.at = "ask", !.innings = 1]
    <3>1. ASSUME m = [run[r] EXCEPT !.at = "failed"] PROVE m.at = "failed"
      BY <1>2, <3>1 DEF MatchState
    <3> QED BY <1>1, <1>5, <3>1
  <2> QED BY <1>2, <1>4, <1>5, <2>1, MatchOpen
<1>6. ResultAt(file, run', points, TakenAll, grppipe)
  BY <1>1, <1>2, <1>3, <1>5, Advances DEF Idle
<1> QED BY <1>2, <1>4, <1>6

\* The teams of a match under way, which are its two.
LEMMA MatchTeams ==
  ASSUME Inv, ResultAt(file, run, points, TakenAll, grppipe), NEW r \in Runners,
         run[r].at \notin Idle \cup {"elect"}
  PROVE  /\ run[r] \in MatchState /\ {run[r].team1, run[r].team2} = {run[r].first, run[r].second}
         /\ run[r].team1 \in Teams /\ run[r].team2 \in Teams /\ run[r].team1 # run[r].team2
<1>1. run[r] \in MatchState
  BY DEF Inv, TypeInv
<1>2. \E x : MatchInv(file, run[r], x, TakenAll)
  <2>1. CASE r = Host
    <3>1. FinalAt(run[r], file, TakenAll)
      BY <2>1 DEF ResultAt
    <3> QED BY <3>1 DEF FinalAt
  <2>2. CASE r # Host
    <3>1. r \in Groups
      BY <2>2 DEF Runners
    <3>2. GroupAt(r, run[r], run[Host].at, file, points, TakenAll, grppipe[r])
      BY <3>1 DEF ResultAt
    <3>3. run[r].at \notin Idle \cup {"elect", "exited"}
      BY DEF Idle
    <3> QED BY <3>2, <3>3 DEF GroupAt
  <2> QED BY <2>1, <2>2
<1> QED BY <1>1, <1>2, Sides

\* Scores that nothing left on the stack changes.
LEMMA CleanScores == ASSUME Clean, NEW r, NEW byte PROVE Atoi(r, byte) = byte
BY DEF Clean, Atoi

LEMMA ReadScore1Result ==
  ASSUME Inv, DataAll, Clean, ResultAt(file, run, points, TakenAll, grppipe),
         NEW r \in Runners, ReadScore1(r)
  PROVE  DataAll' /\ ResultAt(file, run', points', TakenAll', grppipe')
<1>1. PICK u, s : u = run[r].team1 /\ s = Head(matchpipe[u])
  OBVIOUS
<1>2. PICK m : m = [run[r] EXCEPT !.at = "read2", !.s1 = s]
  OBVIOUS
<1>3. /\ run[r].at = "read1" /\ run[r].at \notin Idle \cup {"elect"}
      /\ matchpipe[u] # <<>> /\ matchpipe' = [matchpipe EXCEPT ![u] = Tail(@)]
      /\ UNCHANGED <<file, offset, points, grppipe>>
      /\ run' = [run EXCEPT ![r].at = "read2", ![r].s1 = Atoi(r, Head(matchpipe[run[r].team1]))]
  BY <1>1 DEF ReadScore1, Idle
<1>4. /\ run[r] \in MatchState /\ run \in [Runners -> MatchState]
      /\ {run[r].team1, run[r].team2} = {run[r].first, run[r].second}
      /\ u \in Teams /\ run[r].team2 \in Teams /\ run[r].team2 # u
  BY <1>1, <1>3, MatchTeams DEF Inv, TypeInv
<1>5. s \in Nat /\ run' = [run EXCEPT ![r] = m]
  <2>1. Atoi(r, s) = s /\ Atoi(r, s) \in Nat
    BY <1>1, <1>3, <1>4, CleanScores, Scores
  <2> QED BY <1>1, <1>2, <1>3, <2>1
<1>6. m \in MatchState /\ m.at = "read2" /\ m.first = run[r].first /\ m.second = run[r].second
  BY <1>2, <1>4, <1>5 DEF MatchState, Stages
<1>7. /\ DataAll' /\ s = file[u][TakenAll[u] + 1]
      /\ TakenAll'[u] = TakenAll[u] + 1 /\ \A t \in Teams \ {u} : TakenAll'[t] = TakenAll[t]
  BY <1>1, <1>3, <1>4, DataRead
<1>8. PICK taken, next : taken = TakenAll /\ next = TakenAll'
  OBVIOUS
<1>9. /\ taken \in [Teams -> Nat] /\ next[u] = taken[u] + 1
      /\ \A t \in Teams \ {u} : next[t] = taken[t]
  BY <1>7, <1>8, TakenTypes
<1>10. ASSUME NEW x \in [Teams -> Nat], MatchInv(file, run[r], x, TakenAll)
       PROVE  MatchInv(file, m, x, next)
  BY <1>1, <1>2, <1>3, <1>4, <1>7, <1>8, <1>9, <1>10, MatchRead1
<1>11. \A t \in Teams \ {m.first, m.second} : next[t] = TakenAll[t]
  BY <1>1, <1>4, <1>6, <1>8, <1>9
<1>12. ResultAt(file, run', points, next, grppipe)
  BY <1>3, <1>5, <1>6, <1>10, <1>11, Advances
<1> QED BY <1>3, <1>7, <1>8, <1>12

LEMMA ReadScore2Result ==
  ASSUME Inv, DataAll, Clean, ResultAt(file, run, points, TakenAll, grppipe),
         NEW r \in Runners, ReadScore2(r)
  PROVE  DataAll' /\ ResultAt(file, run', points', TakenAll', grppipe')
<1>1. PICK u, s : u = run[r].team2 /\ s = Head(matchpipe[u])
  OBVIOUS
<1>2. PICK m : m = Scored(run[r], s)
  OBVIOUS
<1>3. /\ run[r].at = "read2" /\ run[r].at \notin Idle \cup {"elect"}
      /\ matchpipe[u] # <<>> /\ matchpipe' = [matchpipe EXCEPT ![u] = Tail(@)]
      /\ UNCHANGED <<file, offset, points, grppipe>>
      /\ run' = [run EXCEPT ![r] = Scored(@, Atoi(r, Head(matchpipe[run[r].team2])))]
  BY <1>1 DEF ReadScore2, Idle
<1>4. /\ run[r] \in MatchState /\ run \in [Runners -> MatchState]
      /\ file \in [Teams -> Seq(Nat)]
      /\ {run[r].team1, run[r].team2} = {run[r].first, run[r].second}
      /\ u \in Teams /\ run[r].team1 \in Teams /\ run[r].team1 # u
  BY <1>1, <1>3, MatchTeams DEF Inv, TypeInv
<1>5. s \in Nat /\ run' = [run EXCEPT ![r] = m]
  <2>1. Atoi(r, s) = s /\ Atoi(r, s) \in Nat
    BY <1>1, <1>3, <1>4, CleanScores, Scores
  <2> QED BY <1>1, <1>2, <1>3, <1>4, <2>1
<1>6. /\ m \in MatchState /\ m.at \in {"open", "ask", "over"}
      /\ m.first = run[r].first /\ m.second = run[r].second
  BY <1>2, <1>4, <1>5, AfterScore DEF Continues
<1>7. /\ DataAll' /\ s = file[u][TakenAll[u] + 1] /\ TakenAll[u] + 1 <= Len(file[u])
      /\ TakenAll'[u] = TakenAll[u] + 1 /\ \A t \in Teams \ {u} : TakenAll'[t] = TakenAll[t]
  BY <1>1, <1>3, <1>4, DataRead
<1>8. PICK taken, next : taken = TakenAll /\ next = TakenAll'
  OBVIOUS
<1>9. /\ taken \in [Teams -> Nat] /\ next[u] = taken[u] + 1
      /\ \A t \in Teams \ {u} : next[t] = taken[t]
      /\ \A t \in Teams : taken[t] <= Len(file[t])
  BY <1>7, <1>8, TakenTypes
<1>10. ASSUME NEW x \in [Teams -> Nat], MatchInv(file, run[r], x, TakenAll)
       PROVE  MatchInv(file, m, x, next)
  BY <1>1, <1>2, <1>3, <1>4, <1>5, <1>7, <1>8, <1>9, <1>10, MatchRead2
<1>11. \A t \in Teams \ {m.first, m.second} : next[t] = TakenAll[t]
  BY <1>1, <1>4, <1>6, <1>8, <1>9
<1>12. ResultAt(file, run', points, next, grppipe)
  BY <1>3, <1>5, <1>6, <1>10, <1>11, Advances
<1> QED BY <1>3, <1>7, <1>8, <1>12

-----------------------------------------------------------------------------
\* The match that is over is the next one of the group's table.
LEMMA MatchCounted ==
  ASSUME Inv, DataAll, ResultAt(file, run, points, TakenAll, grppipe),
         NEW g \in Groups, MatchOver(g),
         NEW after, after = Played(file, run[g].first, run[g].second,
                                   Before(file, g, run[g].first, run[g].second))
  PROVE  /\ after \in Table /\ Winner(run[g]) \in Member(g)
         /\ Agrees(Member(g), points', TakenAll, after)
<1>1. /\ run[g].at = "over" /\ run[g] \in MatchState /\ GroupInv(g)
      /\ points' = [points EXCEPT ![Winner(run[g])] = @ + 1] /\ points \in [Teams -> Nat]
  BY Members DEF MatchOver, Inv, TypeInv
<1>2. PICK a, b : a = run[g].first /\ b = run[g].second
  OBVIOUS
<1>3. a \in Member(g) /\ b \in Member(g) /\ a < b /\ a \in Teams /\ b \in Teams /\ a # b
  <2>1. a \in Member(g) /\ b \in Member(g) /\ a < b
    BY <1>1, <1>2 DEF GroupInv
  <2>2. a \in Teams /\ b \in Teams
    BY <2>1, Members
  <2> QED BY <2>1, <2>2, WorldCupAssumption DEF Teams
<1>4. PICK table : /\ table = Before(file, g, a, b)
                   /\ \A t \in Member(g) : points[t] = table.points[t]
                   /\ \A t \in Member(g) \ {a, b} : TakenAll[t] = table.x[t]
                   /\ MatchInv(file, run[g], table.x, TakenAll)
  <2>1. GroupAt(g, run[g], run[Host].at, file, points, TakenAll, grppipe[g])
    BY DEF ResultAt
  <2> QED BY <1>1, <1>2, <2>1 DEF GroupAt, Idle
<1>5. table \in Table /\ table.x \in [Teams -> Nat] /\ table.points \in [Teams -> Nat]
  BY <1>3, <1>4, Tables DEF Table
<1>6. PICK r : r = Result(file, a, b, table.x)
  OBVIOUS
<1>7. TakenAll \in [Teams -> Nat]
  BY TakenTypes
<1>8. /\ Winner(run[g]) = r.winner /\ \A t \in {a, b} : r.x[t] = TakenAll[t]
      /\ \A t \in Teams \ {a, b} : r.x[t] = table.x[t]
  <2>1. PICK m, x, taken : m = run[g] /\ x = table.x /\ taken = TakenAll
    OBVIOUS
  <2>2. /\ m \in MatchState /\ x \in [Teams -> Nat] /\ taken \in [Teams -> Nat]
        /\ MatchInv(file, m, x, taken) /\ m.at = "over" /\ r = Result(file, m.first, m.second, x)
    BY <1>1, <1>2, <1>4, <1>5, <1>6, <1>7, <2>1
  <2>3. /\ Winner(m) = r.winner /\ \A t \in {m.first, m.second} : r.x[t] = taken[t]
        /\ \A t \in Teams \ {m.first, m.second} : r.x[t] = x[t]
    BY <2>2, MatchResult
  <2> QED BY <1>2, <2>1, <2>3
<1>9. after \in Table /\ r.winner \in {a, b}
  BY <1>2, <1>3, <1>4, <1>5, <1>6, PlayedTypes
<1>10. after.x = r.x /\ after.points = [table.points EXCEPT ![r.winner] = @ + 1]
  <2>1. after = Played(file, a, b, table)
    BY <1>2, <1>4
  <2> QED BY <1>6, <2>1 DEF Played
<1>11. ASSUME NEW t \in Member(g) PROVE TakenAll[t] = after.x[t]
  <2>1. t \in Teams
    BY Members
  <2> QED BY <1>4, <1>8, <1>10, <2>1
<1>12. ASSUME NEW t \in Member(g) PROVE points'[t] = after.points[t]
  <2>1. t \in Teams /\ r.winner \in Teams /\ points[t] = table.points[t]
    BY <1>3, <1>4, <1>9, Members
  <2>2. PICK w : w = r.winner
    OBVIOUS
  <2>3. /\ points' = [points EXCEPT ![w] = @ + 1]
        /\ after.points = [table.points EXCEPT ![w] = @ + 1]
    BY <1>1, <1>8, <1>10, <2>2
  <2> QED BY <1>1, <1>5, <2>1, <2>2, <2>3
<1> QED BY <1>3, <1>8, <1>9, <1>11, <1>12 DEF Agrees

LEMMA MatchOverResult ==
  ASSUME Inv, DataAll, ResultAt(file, run, points, TakenAll, grppipe),
         NEW g \in Groups, MatchOver(g)
  PROVE  DataAll' /\ ResultAt(file, run', points', TakenAll', grppipe')
<1>1. /\ run[g].at = "over" /\ run \in [Runners -> MatchState] /\ run[g] \in MatchState
      /\ GroupInv(g) /\ run[Host].at = "waitpid" /\ g \in Runners /\ g # Host /\ Host \in Runners
      /\ UNCHANGED <<file, offset, matchpipe, grppipe>>
      /\ points' = [points EXCEPT ![Winner(run[g])] = @ + 1] /\ points \in [Teams -> Nat]
  BY Members DEF MatchOver, Inv, TypeInv, GroupInv
<1>2. DataAll' /\ TakenAll' = TakenAll
  BY <1>1, DataSame
<1>3. PICK a, b, pair : a = run[g].first /\ b = run[g].second /\ pair = NextPair(a, b, g)
  OBVIOUS
<1>4. PICK after : after = Played(file, a, b, Before(file, g, a, b))
  OBVIOUS
<1>5. PICK m : m = IF pair = <<>> THEN [run[g] EXCEPT !.at = "elect"]
                                  ELSE NewMatch(pair[1], pair[2])
  OBVIOUS
<1>6. run' = [run EXCEPT ![g] = m]
  BY <1>3, <1>5 DEF MatchOver
<1>7. run'[g] = m /\ \A s \in Runners \ {g} : run'[s] = run[s]
  BY <1>1, <1>6
<1>8. /\ after \in Table /\ Winner(run[g]) \in Member(g)
      /\ Agrees(Member(g), points', TakenAll, after)
  BY <1>3, <1>4, MatchCounted
<1>9. a \in Member(g) /\ b \in Member(g) /\ a < b
  BY <1>1, <1>3 DEF GroupInv
<1>10. GroupAt(g, run'[g], run'[Host].at, file, points', TakenAll, grppipe'[g])
  <2>1. CASE pair = <<>>
    <3>1. m = [run[g] EXCEPT !.at = "elect"]
      BY <1>5, <2>1
    <3>2. run'[g].at = "elect"
      BY <1>1, <1>7, <3>1 DEF MatchState
    <3>3. GroupTable(file, g) = after
      <4>1. NextPair(a, b, g) = <<>>
        BY <1>3, <2>1
      <4>2. GroupTable(file, g) = Played(file, a, b, Before(file, g, a, b))
        BY <1>9, <4>1, Tables
      <4> QED BY <1>4, <4>2
    <3> QED BY <1>8, <3>2, <3>3 DEF GroupAt, Idle
  <2>2. CASE pair # <<>>
    <3>1. PICK c, d : c = pair[1] /\ d = pair[2]
      OBVIOUS
    <3>2. c \in Member(g) /\ d \in Member(g) /\ c < d
      BY <1>3, <1>9, <2>2, <3>1, Pairs
    <3>3. Before(file, g, c, d) = after
      <4>1. NextPair(a, b, g) # <<>> /\ c = NextPair(a, b, g)[1] /\ d = NextPair(a, b, g)[2]
        BY <1>3, <2>2, <3>1
      <4>2. Before(file, g, NextPair(a, b, g)[1], NextPair(a, b, g)[2])
              = Played(file, a, b, Before(file, g, a, b))
        BY <1>9, <4>1, Tables
      <4> QED BY <1>4, <4>1, <4>2
    <3>4. m = NewMatch(c, d)
      BY <1>5, <2>2, <3>1
    <3>5. m.at = "ask" /\ m.first = c /\ m.second = d
      BY <3>4 DEF NewMatch
    <3>6. after.x \in [Teams -> Nat]
      BY <1>8 DEF Table
    <3>7. \A t \in Member(g) : points'[t] = after.points[t] /\ TakenAll[t] = after.x[t]
      BY <1>8 DEF Agrees
    <3>8. c \in Teams /\ d \in Teams
      BY <3>2, Members
    <3>9. MatchInv(file, m, after.x, TakenAll)
      BY <3>2, <3>4, <3>6, <3>7, <3>8, MatchBegins
    <3>10. after \in {Before(file, g, m.first, m.second)}
      BY <3>3, <3>5
    <3> QED BY <1>7, <3>5, <3>7, <3>9, <3>10 DEF GroupAt, Idle
  <2> QED BY <2>1, <2>2
<1>11. ASSUME NEW h \in Groups, h # g
       PROVE  GroupAt(h, run'[h], run'[Host].at, file, points', TakenAll, grppipe'[h])
  <2>1. /\ run'[h] = run[h] /\ run'[Host] = run[Host] /\ run[h] \in MatchState
        /\ GroupAt(h, run[h], run[Host].at, file, points, TakenAll, grppipe[h])
        /\ run[h].first \in Member(h) /\ run[h].second \in Member(h)
    BY <1>1, <1>7, <1>11, Members DEF ResultAt, Inv, GroupInv
  <2>2. \A t \in Member(h) : t \in Teams /\ t # Winner(run[g])
    BY <1>8, <1>11, Members DEF Groups
  <2>3. \A t \in Member(h) : points'[t] = points[t]
    <3>1. PICK w : w = Winner(run[g])
      OBVIOUS
    <3> QED BY <1>1, <2>2, <3>1
  <2> QED BY <1>1, <2>1, <2>3, GroupFrame
<1>12. FinalAt(run'[Host], file, TakenAll)
  BY <1>1, <1>7 DEF FinalAt, Idle
<1> QED BY <1>2, <1>10, <1>11, <1>12 DEF ResultAt

LEMMA EndGroupResult ==
  ASSUME Inv, DataAll, ResultAt(file, run, points, TakenAll, grppipe),
         NEW g \in Groups, EndGroup(g)
  PROVE  DataAll' /\ ResultAt(file, run', points', TakenAll', grppipe')
<1>1. /\ run[g].at = "elect" /\ run \in [Runners -> MatchState] /\ run[g] \in MatchState
      /\ run[Host].at = "waitpid" /\ g \in Runners /\ g # Host /\ Host \in Runners
      /\ UNCHANGED <<file, offset, matchpipe, points>> /\ grppipe \in [Groups -> Seq(Teams)]
  BY Members DEF EndGroup, Inv, TypeInv, GroupInv
<1>2. DataAll' /\ TakenAll' = TakenAll
  BY <1>1, DataSame
<1>3. PICK m, w : m = [run[g] EXCEPT !.at = "exited"] /\ w = Leader(points, g)
  OBVIOUS
<1>4. /\ run' = [run EXCEPT ![g] = m] /\ m.at = "exited"
      /\ grppipe' = [grppipe EXCEPT ![g] = <<w>>]
  BY <1>1, <1>3 DEF EndGroup, MatchState
<1>5. /\ run'[g] = m /\ \A s \in Runners \ {g} : run'[s] = run[s]
      /\ grppipe'[g] = <<w>> /\ \A h \in Groups \ {g} : grppipe'[h] = grppipe[h]
  BY <1>1, <1>4
<1>6. GroupAt(g, run'[g], run'[Host].at, file, points, TakenAll, grppipe'[g])
  <2>1. Agrees(Member(g), points, TakenAll, GroupTable(file, g))
    BY <1>1 DEF ResultAt, GroupAt
  <2>2. w = GroupWinner(file, g)
    BY <1>3, <2>1, LeaderFrame DEF Agrees, GroupWinner
  <2> QED BY <1>4, <1>5, <2>1, <2>2 DEF GroupAt, Idle
<1>7. ASSUME NEW h \in Groups, h # g
      PROVE  GroupAt(h, run'[h], run'[Host].at, file, points, TakenAll, grppipe'[h])
  BY <1>1, <1>5, <1>7, Members DEF ResultAt
<1>8. FinalAt(run'[Host], file, TakenAll)
  BY <1>1, <1>5 DEF FinalAt, Idle
<1> QED BY <1>1, <1>2, <1>6, <1>7, <1>8 DEF ResultAt

\* The final is between the winners of the groups, each as far in its file as
\* its group took it.
LEMMA FinalBegins ==
  ASSUME Inv, DataAll, ResultAt(file, run, points, TakenAll, grppipe), conductGroupMatches
  PROVE  DataAll' /\ ResultAt(file, run', points', TakenAll', grppipe')
<1>1. /\ run[Host].at = "waitpid" /\ run \in [Runners -> MatchState]
      /\ UNCHANGED <<file, offset, matchpipe, points>>
      /\ \A g \in Groups : grppipe[g] # <<>> /\ run[g].at = "exited" /\ GroupInv(g)
  <2>1. run \in [Runners -> MatchState] /\ \A g \in Groups : GroupInv(g)
    BY DEF Inv, TypeInv
  <2> QED BY <2>1 DEF conductGroupMatches, GroupInv
<1>2. DataAll' /\ TakenAll' = TakenAll
  BY <1>1, DataSame
<1>3. \A g \in Groups : /\ Agrees(Member(g), points, TakenAll, GroupTable(file, g))
                        /\ grppipe[g] = <<GroupWinner(file, g)>>
  BY <1>1 DEF ResultAt, GroupAt
<1>4. PICK a, b : a = GroupWinner(file, 0) /\ b = GroupWinner(file, 1)
  OBVIOUS
<1>5. grppipe[0][1] = a /\ grppipe[1][1] = b
  BY <1>3, <1>4 DEF Groups
<1>6. a \in Member(0) /\ b \in Member(1)
  BY <1>1, <1>5 DEF GroupInv, Groups
<1>7. a \in Teams /\ b \in Teams /\ a < N /\ ~(b < N) /\ a < b
  <2>1. a \in Teams /\ b \in Teams
    BY <1>6, Members DEF Groups
  <2>2. a \in 0 .. N - 1 /\ b \in N .. 2 * N - 1
    BY <1>6, Members
  <2> QED BY <2>1, <2>2, WorldCupAssumption
<1>8. PICK m : m = NewMatch(a, b)
  OBVIOUS
<1>9. /\ run'[Host] = m /\ \A g \in Groups : run'[g] = run[g]
      /\ m.at = "ask" /\ m.first = a /\ m.second = b
  <2>1. run' = [run EXCEPT ![Host] = m]
    BY <1>5, <1>8 DEF conductGroupMatches
  <2> QED BY <1>1, <1>8, <2>1, Members DEF NewMatch
<1>10. FinalStart(file)[a] = TakenAll[a] /\ FinalStart(file)[b] = TakenAll[b]
  BY <1>3, <1>6, <1>7 DEF FinalStart, Agrees, Groups
<1>11. MatchInv(file, m, FinalStart(file), TakenAll)
  BY <1>7, <1>8, <1>10, FinalTypes, MatchBegins
<1>12. FinalAt(run'[Host], file, TakenAll)
  BY <1>4, <1>9, <1>11 DEF FinalAt
<1>13. \A g \in Groups : GroupAt(g, run'[g], run'[Host].at, file, points, TakenAll, grppipe'[g])
  BY <1>1, <1>9 DEF GroupAt, Idle
<1> QED BY <1>1, <1>2, <1>12, <1>13 DEF ResultAt

LEMMA mainResult ==
  ASSUME Inv, DataAll, main
  PROVE  DataAll' /\ ResultAt(file, run', points', TakenAll', grppipe')
<1>1. /\ run[Host].at = "over" /\ run \in [Runners -> MatchState] /\ run[Host] \in MatchState
      /\ UNCHANGED <<file, offset, matchpipe, points, grppipe>>
      /\ run' = [run EXCEPT ![Host].at = "exited"] /\ Host \in Runners
  BY Members DEF main, Inv, TypeInv
<1>2. run'[Host].at = "exited" /\ \A g \in Groups : run'[g] = run[g]
  BY <1>1, Members DEF MatchState
<1>3. \A g \in Groups : run[g].at = "exited"
  BY <1>1 DEF Inv, GroupInv
<1>4. \A g \in Groups : GroupAt(g, run'[g], run'[Host].at, file, points', TakenAll', grppipe'[g])
  BY <1>2, <1>3 DEF GroupAt, Idle
<1>5. FinalAt(run'[Host], file, TakenAll')
  BY <1>2 DEF FinalAt, Idle
<1> QED BY <1>1, <1>4, <1>5, DataSame DEF ResultAt

LEMMA TeamResult ==
  ASSUME Inv, DataAll, ResultAt(file, run, points, TakenAll, grppipe),
         NEW t \in Teams, teamPlay(t)
  PROVE  ResultAt(file, run', points', TakenAll', grppipe')
<1>1. UNCHANGED <<run, points, grppipe>>
  BY DEF teamPlay
<1> QED BY <1>1, DataTeam

-----------------------------------------------------------------------------
LEMMA InitResult == Init => ResultInv
<1> SUFFICES ASSUME Init PROVE ResultInv
  OBVIOUS
<1>1. /\ file \in [Teams -> Seq(Nat)] /\ offset = [t \in Teams |-> 0]
      /\ points = [t \in Teams |-> 0] /\ matchpipe = [t \in Teams |-> <<>>]
      /\ run = [r \in Runners |-> IF r = Host THEN [NewMatch(0, 0) EXCEPT !.at = "waitpid"]
                                  ELSE NewMatch(N * r, N * r + 1)]
  BY WorldCupAssumption DEF Init
<1>2. \A t \in Teams : DataInv(t) /\ TakenAll[t] = 0
  BY <1>1 DEF DataInv, TakenAll, Taken
<1>3. run[Host].at = "waitpid"
  BY <1>1, Members DEF NewMatch
<1>4. ASSUME NEW g \in Groups
      PROVE  GroupAt(g, run[g], run[Host].at, file, points, TakenAll, grppipe[g])
  <2>1. PICK a, b, m : a = N * g /\ b = N * g + 1 /\ m = NewMatch(a, b)
    OBVIOUS
  <2>2. run[g] = m /\ m.at = "ask" /\ m.first = a /\ m.second = b
    BY <1>1, <2>1, Members DEF NewMatch
  <2>3. a \in Member(g) /\ b \in Member(g) /\ a < b
    BY <2>2, InitInv DEF Inv, GroupInv
  <2>4. a \in Teams /\ b \in Teams
    BY <2>3, Members
  <2>5. NoMatch \in Table /\ \A t \in Teams : NoMatch.x[t] = 0 /\ NoMatch.points[t] = 0
    BY DEF NoMatch, Table
  <2>6. Before(file, g, m.first, m.second) = NoMatch
    BY <2>1, <2>2, FirstTable
  <2>7. NoMatch.x \in [Teams -> Nat]
    BY <2>5 DEF Table
  <2>8. MatchInv(file, m, NoMatch.x, TakenAll)
    BY <1>2, <2>1, <2>3, <2>4, <2>5, <2>7, MatchBegins
  <2>9. \A t \in Member(g) : points[t] = NoMatch.points[t] /\ TakenAll[t] = NoMatch.x[t]
    BY <1>1, <1>2, <2>5, Members
  <2> QED BY <2>2, <2>6, <2>8, <2>9 DEF GroupAt, Idle
<1>5. FinalAt(run[Host], file, TakenAll)
  BY <1>3 DEF FinalAt, Idle
<1> QED BY <1>2, <1>4, <1>5 DEF ResultInv, DataAll, ResultAt

\* The scores are read in order whatever is left on the stack.
LEMMA DataNext ==
  ASSUME Inv, DataAll, [Next]_vars
  PROVE  DataAll'
<1>1. CASE \E t \in Teams : teamPlay(t)
  BY <1>1, DataTeam
<1>2. ASSUME NEW r \in Runners, NEW u, u \in {run[r].team1, run[r].team2}, run[r].at \notin Idle,
             matchpipe[u] # <<>>, matchpipe' = [matchpipe EXCEPT ![u] = Tail(@)],
             UNCHANGED <<file, offset>>
      PROVE  DataAll'
  <2>1. u \in Teams
    BY <1>2, Players
  <2> QED BY <1>2, <2>1, DataRead
<1>3. ASSUME NEW r \in Runners, Match(r) PROVE DataAll'
  <2>1. CASE Ask(r) \/ OpenOutput(r)
    <3>1. UNCHANGED <<file, offset, matchpipe>>
      BY <2>1 DEF Ask, OpenOutput
    <3> QED BY <3>1, DataSame
  <2>2. CASE ReadScore1(r)
    BY <1>2, <2>2 DEF ReadScore1, Idle
  <2>3. CASE ReadScore2(r)
    BY <1>2, <2>3 DEF ReadScore2, Idle
  <2> QED BY <1>3, <2>1, <2>2, <2>3 DEF Match
<1>4. CASE \E g \in Groups : Group(g)
  <2>1. PICK g \in Groups : Group(g)
    BY <1>4
  <2>2. CASE MatchOver(g) \/ EndGroup(g)
    <3>1. UNCHANGED <<file, offset, matchpipe>>
      BY <2>2 DEF MatchOver, EndGroup
    <3> QED BY <3>1, DataSame
  <2> QED BY <1>3, <2>1, <2>2, Members DEF Group
<1>5. CASE HostStep
  <2>1. CASE conductGroupMatches \/ main
    <3>1. UNCHANGED <<file, offset, matchpipe>>
      BY <2>1 DEF conductGroupMatches, main
    <3> QED BY <3>1, DataSame
  <2> QED BY <1>3, <1>5, <2>1, Members DEF HostStep
<1>6. CASE UNCHANGED vars
  BY <1>6, DataSame DEF vars
<1> QED BY <1>1, <1>4, <1>5, <1>6 DEF Next

LEMMA NextResult == Inv /\ ResultInv /\ [Next]_vars => ResultInv'
<1> SUFFICES ASSUME Inv, ResultInv, [Next]_vars PROVE ResultInv'
  OBVIOUS
<1>1. DataAll /\ DataAll'
  BY DataNext DEF ResultInv
<1>2. file' = file /\ left' = left
  BY DEF Next, teamPlay, Group, HostStep, Match, Ask, ReadScore1, ReadScore2, OpenOutput,
         MatchOver, EndGroup, conductGroupMatches, main, vars
<1>3. Clean' => Clean
  BY <1>2 DEF Clean
<1>4. ASSUME Clean PROVE ResultAt(file, run', points', TakenAll', grppipe')
  <2>1. ResultAt(file, run, points, TakenAll, grppipe)
    BY <1>4 DEF ResultInv
  <2>2. CASE \E t \in Teams : teamPlay(t)
    BY <1>1, <2>1, <2>2, TeamResult
  <2>3. ASSUME NEW r \in Runners, Match(r)
        PROVE  ResultAt(file, run', points', TakenAll', grppipe')
    BY <1>1, <1>4, <2>1, <2>3, AskResult, ReadScore1Result, ReadScore2Result, OpenResult DEF Match
  <2>4. CASE \E g \in Groups : Group(g)
    BY <1>1, <2>1, <2>3, <2>4, MatchOverResult, EndGroupResult, Members DEF Group
  <2>5. CASE HostStep
    BY <1>1, <2>1, <2>3, <2>5, FinalBegins, mainResult, Members DEF HostStep
  <2>6. CASE UNCHANGED vars
    <3>1. UNCHANGED <<file, offset, matchpipe, run, points, grppipe>>
      BY <2>6 DEF vars
    <3> QED BY <1>1, <2>1, <3>1, DataSame
  <2> QED BY <2>2, <2>4, <2>5, <2>6 DEF Next
<1> QED BY <1>1, <1>2, <1>3, <1>4 DEF ResultInv

\* In whatever order teams, groups and host run, the winners of the groups and
\* of the cup are those the teams' files determine (utils.c:72-297), for any
\* number of teams, balls and wickets and any files, as long as no buffer holds
\* leftovers.
THEOREM ResultsExact == Spec => []ResultExact
<1>1. Inv /\ ResultInv => ResultExact
  <2> SUFFICES ASSUME Inv, ResultInv, Clean PROVE ResultExact
    BY DEF ResultExact
  <2>1. DataAll /\ ResultAt(file, run, points, TakenAll, grppipe)
    BY DEF ResultInv
  <2>2. ASSUME NEW g \in Groups, grppipe[g] # <<>>
        PROVE  grppipe[g] = <<GroupWinner(file, g)>> /\ run[Host].at # "over"
    <3>1. run[g].at = "exited" /\ run[Host].at = "waitpid"
      BY <2>2 DEF Inv, GroupInv
    <3> QED BY <2>1, <3>1 DEF ResultAt, GroupAt
  <2>3. ASSUME run[Host].at = "over"
        PROVE  /\ run[Host].first = GroupWinner(file, 0) /\ run[Host].second = GroupWinner(file, 1)
               /\ Winner(run[Host]) = FinalWinner(file, run[Host].first, run[Host].second)
    <3>1. PICK m, x, taken : m = run[Host] /\ x = FinalStart(file) /\ taken = TakenAll
      OBVIOUS
    <3>2. /\ m.at = "over" /\ m \in MatchState /\ x \in [Teams -> Nat] /\ taken \in [Teams -> Nat]
      BY <2>1, <2>3, <3>1, FinalTypes, TakenTypes, Members DEF Inv, TypeInv
    <3>3. /\ m.first = GroupWinner(file, 0) /\ m.second = GroupWinner(file, 1)
          /\ MatchInv(file, m, x, taken)
      BY <2>1, <3>1, <3>2 DEF ResultAt, FinalAt, Idle
    <3>4. Winner(m) = Result(file, m.first, m.second, x).winner
      BY <3>2, <3>3, MatchResult
    <3> QED BY <3>1, <3>3, <3>4 DEF FinalWinner
  <2>4. ASSUME NEW g \in Groups, NEW w, w = GroupWinner(file, g)
        PROVE  /\ grppipe[g] \in {<<>>, <<w>>}
               /\ run[Host].at = "over" => w = IF g = 0 THEN run[Host].first ELSE run[Host].second
    <3>1. g = 0 \/ g = 1
      BY DEF Groups
    <3> QED BY <2>2, <2>3, <2>4, <3>1
  <2> QED BY <2>3, <2>4 DEF ResultExact
<1> QED BY <1>1, InitInv, InitResult, NextInv, NextResult, PTL DEF Spec
=============================================================================
