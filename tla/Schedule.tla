------------------------------ MODULE Schedule ------------------------------
(***************************************************************************)
(* The tournament schedule: what JobQueue::JobQueue (jobs.cpp) puts in     *)
(* jobs[] for the options of a tournament, and which opening each job is   *)
(* played from (main.cpp, openings.cpp).  A tournament c is a record       *)
(*   [engines, rounds, games, gauntlet].                                   *)
(* The constructor's nested loops are in ScheduleLoops; here is the table  *)
(* they compute, indexed from 0 as the vector is.                          *)
(***************************************************************************)
EXTENDS Integers, FiniteSets

\* The encounters: (0, e2) in a gauntlet, all (e1, e2) with e1 < e2 otherwise.
Encounters(c) ==
  {e \in (0 .. c.engines - 1) \X (0 .. c.engines - 1) :
     e[1] < e[2] /\ (c.gauntlet => e[1] = 0)}

NumPairs(c) == Cardinality(Encounters(c))

NumJobs(c) == c.rounds * NumPairs(c) * c.games

\* The order of the loops over e1 and e2.
Before(a, b) == a[1] < b[1] \/ (a[1] = b[1] /\ a[2] < b[2])

\* Which encounter results[pair] is about.
Encounter(c, pair) ==
  CHOOSE a \in Encounters(c) :
    Cardinality({b \in Encounters(c) : Before(b, a)}) = pair

PairOf(c, k) == (k \div c.games) % NumPairs(c)

ReverseOf(c, k) == (k % c.games) % 2 = 1

\* jobs[k]: round and game number it, reverse makes ei[1] move first.
Job(c, k) ==
  LET perRound == NumPairs(c) * c.games
  IN [ei      |-> Encounter(c, PairOf(c, k)),
      pair    |-> PairOf(c, k),
      round   |-> k \div perRound,
      game    |-> k % perRound,
      reverse |-> ReverseOf(c, k)]

Jobs(c) == [k \in 0 .. NumJobs(c) - 1 |-> Job(c, k)]

\* The engine that makes the first move of job j (game.cpp: ei = reverse).
FirstMover(j) == IF j.reverse THEN j.ei[2] ELSE j.ei[1]

\* Mutation: the pairs of jobs that share an opening start at job 1.
OpeningIndexLate(repeat, k) == IF repeat THEN (k + 1) \div 2 ELSE k

\* The argument of Openings::next: with -repeat two consecutive jobs share it.
OpeningIndex(repeat, k) == IF repeat THEN k \div 2 ELSE k

\* Openings::next: the line of the (shuffled) opening file, and the round
\* through the file, which picks the board transform.
OpeningLine(lines, n) == n % lines
OpeningRound(lines, n) == n \div lines
=============================================================================
