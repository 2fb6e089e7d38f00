--------------------------- MODULE ScheduleLoops ---------------------------
(***************************************************************************)
(* What main_init builds for a tournament.  JobQueue::JobQueue as the      *)
(* loops it is (jobs.cpp): the results loop, then rounds x pairs, one      *)
(* job_queue_init_pair call per step.  Then Openings::Openings, the index  *)
(* of a file of openings and its shuffle.  What the finished tables must   *)
(* satisfy is what the README promises of -games, -rounds, -gauntlet,      *)
(* -repeat, -transform and -openings.                                      *)
(***************************************************************************)
EXTENDS Schedule, Sequences

CONSTANTS MaxEngines, MaxRounds, MaxGames, MaxLines

ASSUME BoundsAssumption ==
  /\ MaxEngines \in Nat /\ MaxEngines >= 2
  /\ MaxRounds \in Nat /\ MaxGames \in Nat /\ MaxLines \in Nat \ {0}

VARIABLES c,        \* the options (engines, rounds, games, gauntlet)
          results,  \* JobQueue::results, the ei[] of each entry
          jobs,     \* JobQueue::jobs
          r,        \* the round loop
          at,       \* <<e1, e2>> of the pair loops
          pair,     \* number of the next pair in this round
          added,    \* games already added to this round
          index,    \* Openings::index, a line number for each file offset
          left      \* i of the shuffle; -1 before Openings is constructed

queue == <<c, results, jobs, r, at, pair, added>>
file == <<index, left>>
vars == <<queue, file>>

\* options_parse refuses fewer than two engines; -rounds and -games may be 0.
Tournaments ==
  [engines : 2 .. MaxEngines, rounds : 0 .. MaxRounds,
   games : 0 .. MaxGames, gauntlet : BOOLEAN]

\* Mutation: the outer loop ends early.
PairsLeftTooFew(p) == IF c.gauntlet THEN p[1] = 0 ELSE p[1] < c.engines - 2

\* Where the pair loops go after <<e1, e2>>; e1 = engines - 1 ends them (and
\* so does e1 = 1 in a gauntlet, whose only e1 is 0).
NextPair(p) ==
  IF p[2] + 1 < c.engines THEN <<p[1], p[2] + 1>> ELSE <<p[1] + 1, p[1] + 2>>

PairsLeft(p) == IF c.gauntlet THEN p[1] = 0 ELSE p[1] < c.engines - 1

FirstPair == <<0, 1>>

Init ==
  /\ c \in Tournaments
  /\ results = <<>> /\ jobs = <<>>
  /\ r = -1 /\ at = FirstPair
  /\ pair = 0 /\ added = 0
  /\ index = <<>> /\ left = -1

\* results.push_back({.ei = {e1, e2}, .count = {0}})
AddResult ==
  /\ r = -1 /\ PairsLeft(at)
  /\ results' = Append(results, at)
  /\ at' = NextPair(at)
  /\ UNCHANGED <<c, jobs, r, pair, added, file>>

StartRound(n) ==
  /\ r' = n /\ at' = FirstPair
  /\ pair' = 0 /\ added' = 0
  /\ UNCHANGED <<c, results, jobs, file>>

ResultsDone == r = -1 /\ ~PairsLeft(at) /\ StartRound(0)

\* Mutation: games are numbered per pair, not per round.
NewGamesNumberedPerPair ==
  [g \in 1 .. c.games |->
     [ei |-> at, pair |-> pair, round |-> r, game |-> g - 1,
      reverse |-> (g - 1) % 2 = 1]]

\* job_queue_init_pair, called for the pair at <<e1, e2>>
NewGames ==
  [g \in 1 .. c.games |->
     [ei |-> at, pair |-> pair, round |-> r, game |-> added + g - 1,
      reverse |-> (g - 1) % 2 = 1]]

InitPair ==
  /\ r \in 0 .. c.rounds - 1 /\ PairsLeft(at)
  /\ jobs' = jobs \o NewGames
  /\ added' = added + c.games
  /\ pair' = pair + 1
  /\ at' = NextPair(at)
  /\ UNCHANGED <<c, results, r, file>>

NextRound ==
  /\ r \in 0 .. c.rounds - 1 /\ ~PairsLeft(at)
  /\ StartRound(r + 1)

Constructed == r = c.rounds

\* A file of n lines; the shuffle goes from its end to its beginning.  (A
\* file without lines is left out: the code then indexes an empty vector.)
OpenFile(n, random) ==
  /\ Constructed /\ left = -1
  /\ index' = [k \in 1 .. n |-> k - 1]
  /\ left' = IF random THEN n - 1 ELSE 0
  /\ UNCHANGED queue

\* Mutation: the line at i is overwritten, not exchanged.
OverwriteLine ==
  /\ left > 0
  /\ \E j \in 0 .. left : index' = [index EXCEPT ![left + 1] = index[j + 1]]
  /\ left' = left - 1
  /\ UNCHANGED queue

\* index[i] and index[j] are exchanged, for a random j <= i.
SwapLines ==
  /\ left > 0
  /\ \E j \in 0 .. left :
       index' = [index EXCEPT ![left + 1] = index[j + 1], ![j + 1] = index[left + 1]]
  /\ left' = left - 1
  /\ UNCHANGED queue

Finished == left = 0 /\ UNCHANGED vars

Next ==
  \/ AddResult \/ ResultsDone \/ InitPair \/ NextRound
  \/ (\E n \in 1 .. MaxLines, random \in BOOLEAN : OpenFile(n, random))
  \/ SwapLines
  \/ Finished

Spec == Init /\ [][Next]_vars

-----------------------------------------------------------------------------
\* The places in jobs[] of the jobs with the property P.
JobsWhere(P(_)) == {k \in DOMAIN jobs : P(jobs[k])}

(***************************************************************************)
(* The loops fill jobs[] with exactly the closed-form table of Schedule,   *)
(* which the tournament model and its proofs are built on; a job's pair is *)
(* the place in results[], filled by another loop nest, of its engines.    *)
(***************************************************************************)
ComputesSchedule ==
  /\ \A k \in DOMAIN jobs :
       /\ jobs[k] = Job(c, k - 1)
       /\ results[jobs[k].pair + 1] = jobs[k].ei
  /\ Constructed => Len(jobs) = NumJobs(c)

(***************************************************************************)
(* README.md:50: every pair of engines plays games * rounds games, and     *)
(* nobody else plays.                                                      *)
(***************************************************************************)
EveryPairPlaysItsGames ==
  Constructed =>
    \A a \in (0 .. c.engines - 1) \X (0 .. c.engines - 1) :
      Cardinality(JobsWhere(LAMBDA j : j.ei = a)) =
        IF a \in Encounters(c) THEN c.games * c.rounds ELSE 0

\* Job k + 1 replays the opening of job k with the same engines, the other
\* one moving first.
ReplayedReversed(k) ==
  /\ jobs[k + 1].ei = jobs[k].ei
  /\ FirstMover(jobs[k + 1]) # FirstMover(jobs[k])

\* The places of the jobs that share, under -repeat, the next job's opening.
SharedOpenings ==
  {k \in 1 .. Len(jobs) - 1 : OpeningIndex(TRUE, k - 1) = OpeningIndex(TRUE, k)}

(***************************************************************************)
(* README.md:52, for an even -games: each opening of a -repeat tournament  *)
(* is played twice in a row, by the same engines with sides swapped.       *)
(***************************************************************************)
EvenGamesRepeatSwapsSides ==
  (Constructed /\ c.games % 2 = 0) =>
    \A k \in SharedOpenings : ReplayedReversed(k)

\* The (line, round) that job number k (from 1) is played from
OpeningUse(repeat, k) ==
  LET n == OpeningIndex(repeat, k - 1)  lines == Len(index)
  IN  <<index[OpeningLine(lines, n) + 1], OpeningRound(lines, n)>>

(***************************************************************************)
(* openings.cpp:43 and README.md:53 (-transform): whatever the shuffle, no *)
(* opening comes twice in a round of the file, and a new round, with its   *)
(* new transform, begins only after all openings were used.                *)
(***************************************************************************)
EachRoundUsesEveryLineOnce ==
  left = 0 =>
    \A repeat \in BOOLEAN : \A k \in DOMAIN jobs :
      LET use == OpeningUse(repeat, k)
          earlier == {m \in 1 .. k - 1 : OpeningIndex(repeat, m - 1) # OpeningIndex(repeat, k - 1)}
          used == {OpeningUse(repeat, m) : m \in earlier}
      IN  /\ use \notin used
          /\ use[2] > 0 => (0 .. Len(index) - 1) \X {use[2] - 1} \subseteq used
=============================================================================
