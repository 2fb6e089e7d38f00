------------------------ MODULE ScheduleLoopsProofs ------------------------
(***************************************************************************)
(* The constructor's loops compute the table of Schedule for any number of *)
(* engines, rounds and games, and the shuffled file of openings is a       *)
(* permutation, from which follow what the README promises of -games,      *)
(* -rounds, -repeat, -transform and -openings.                             *)
(***************************************************************************)
EXTENDS ScheduleLoops, LibraryProofs

\* The number of encounters that the pair loops have passed.
Passed == Cardinality(Earlier(c, at))

JobSet ==
  [ei : Nat \X Nat, pair : Nat, round : Nat, game : Nat, reverse : BOOLEAN]

TypeInv ==
  /\ c \in Tournaments
  /\ r \in -1 .. c.rounds
  /\ at \in Nat \X Nat
  /\ results \in Seq(Nat \X Nat) /\ jobs \in Seq(JobSet)
  /\ pair \in Nat /\ added \in Nat
  /\ index \in Seq(Nat) /\ left \in Int /\ left >= -1

\* The pair loops are at an encounter or have passed them all.
PlaceInv ==
  IF PairsLeft(at) THEN at \in Encounters(c) ELSE Earlier(c, at) = Encounters(c)

ResultsInv ==
  /\ \A k \in DOMAIN results : results[k] = Encounter(c, k - 1)
  /\ Len(results) = IF r = -1 THEN Passed ELSE NumPairs(c)

JobsInv ==
  /\ \A k \in DOMAIN jobs : jobs[k] = Job(c, k - 1)
  /\ r = -1 => jobs = <<>>
  /\ r >= 0 => /\ pair = Passed /\ added = pair * c.games
               /\ Len(jobs) = (r * NumPairs(c) + pair) * c.games
  /\ r = c.rounds => pair = 0

\* The index of the file is a permutation of its lines.
IndexInv ==
  left >= 0 =>
    /\ Constructed /\ left < Len(index)
    /\ \A i \in DOMAIN index : index[i] \in 0 .. Len(index) - 1
    /\ \A i, j \in DOMAIN index : index[i] = index[j] => i = j
    /\ \A l \in 0 .. Len(index) - 1 : \E i \in DOMAIN index : index[i] = l

IInv == TypeInv /\ PlaceInv /\ ResultsInv /\ JobsInv /\ IndexInv

-----------------------------------------------------------------------------
(***************************************************************************)
(* The options of ScheduleLoops are those that Schedule's facts are about. *)
(***************************************************************************)
LEMMA ValidOptions ==
  ASSUME c \in Tournaments
  PROVE  Valid(c)
BY BoundsAssumption DEF Tournaments, Valid

(***************************************************************************)
(* The loops start before all encounters, at one of them.                  *)
(***************************************************************************)
LEMMA FirstPlace ==
  ASSUME c \in Tournaments
  PROVE  /\ PairsLeft(FirstPair)
         /\ FirstPair \in Encounters(c)
         /\ Cardinality(Earlier(c, FirstPair)) = 0
<1>1. Valid(c)
  BY ValidOptions
<1>2. Earlier(c, FirstPair) = {}
  BY <1>1 DEF Earlier, Before, FirstPair, Encounters, Valid
<1>3. Cardinality({}) = 0
  BY FS_EmptySet
<1> QED
  BY <1>1, <1>2, <1>3 DEF PairsLeft, FirstPair, Encounters, Valid

(***************************************************************************)
(* A step of the pair loops passes the encounter they were at, and leads   *)
(* to another one or to the end.                                           *)
(***************************************************************************)
LEMMA NextPlace ==
  ASSUME c \in Tournaments, NEW p, p \in Encounters(c)
  PROVE  /\ NextPair(p) \in Nat \X Nat
         /\ IF PairsLeft(NextPair(p)) THEN NextPair(p) \in Encounters(c)
            ELSE Earlier(c, NextPair(p)) = Encounters(c)
         /\ Cardinality(Earlier(c, NextPair(p))) = Cardinality(Earlier(c, p)) + 1
         /\ Cardinality(Earlier(c, p)) \in 0 .. NumPairs(c) - 1
         /\ ~PairsLeft(NextPair(p)) => Cardinality(Earlier(c, p)) = NumPairs(c) - 1
<1> DEFINE q == NextPair(p)
<1>1. Valid(c)
  BY ValidOptions
<1>2. /\ p = <<p[1], p[2]>>
      /\ p[1] \in Nat /\ p[2] \in Nat /\ p[1] < p[2] /\ p[2] < c.engines
      /\ c.gauntlet => p[1] = 0
  BY <1>1 DEF Encounters, Valid
<1>3. /\ q[1] \in Nat /\ q[2] \in Nat /\ q = <<q[1], q[2]>>
      /\ \/ q[1] = p[1] /\ q[2] = p[2] + 1 /\ q[2] < c.engines
         \/ q[1] = p[1] + 1 /\ q[2] = p[1] + 2 /\ p[2] + 1 = c.engines
  BY <1>1, <1>2 DEF NextPair, Valid
<1> HIDE DEF q
<1>4. IF PairsLeft(q) THEN q \in Encounters(c) ELSE Earlier(c, q) = Encounters(c)
  <2>1. CASE PairsLeft(q)
    <3>1. q[1] < q[2] /\ q[2] < c.engines /\ (c.gauntlet => q[1] = 0)
      BY <1>1, <1>2, <1>3, <2>1 DEF PairsLeft, Valid
    <3>2. q[1] \in 0 .. c.engines - 1 /\ q[2] \in 0 .. c.engines - 1
      BY <1>1, <1>3, <3>1 DEF Valid
    <3>3. q \in (0 .. c.engines - 1) \X (0 .. c.engines - 1)
      BY <1>3, <3>2
    <3> QED
      BY <2>1, <3>1, <3>3 DEF Encounters
  <2>2. CASE ~PairsLeft(q)
    <3>1. ASSUME NEW b \in Encounters(c)
          PROVE  b[1] < q[1]
      <4>1. /\ b[1] \in Nat /\ b[2] \in Nat /\ b[1] < b[2] /\ b[2] < c.engines
            /\ c.gauntlet => b[1] = 0
        BY <1>1 DEF Encounters, Valid
      <4>2. IF c.gauntlet THEN q[1] # 0 ELSE ~(q[1] < c.engines - 1)
        BY <2>2 DEF PairsLeft
      <4> QED
        BY <1>1, <1>3, <4>1, <4>2 DEF Valid
    <3> QED
      BY <2>2, <3>1 DEF Earlier, Before
  <2> QED
    BY <2>1, <2>2
<1>5. Earlier(c, q) = Earlier(c, p) \cup {p}
  <2>1. ASSUME NEW b \in Encounters(c)
        PROVE  Before(b, q) <=> (Before(b, p) \/ b = p)
    <3>1. /\ b = <<b[1], b[2]>>
          /\ b[1] \in Nat /\ b[2] \in Nat /\ b[1] < b[2] /\ b[2] < c.engines
      BY <1>1 DEF Encounters, Valid
    <3>2. b = p <=> b[1] = p[1] /\ b[2] = p[2]
      BY <1>2, <3>1
    <3> QED
      BY <1>1, <1>2, <1>3, <3>1, <3>2 DEF Before, Valid
  <2> QED
    BY <2>1 DEF Earlier
<1>6. /\ IsFiniteSet(Earlier(c, p))
      /\ Cardinality(Earlier(c, p)) \in 0 .. NumPairs(c) - 1
  BY <1>1, EarlierType
<1>7. p \notin Earlier(c, p)
  BY <1>2 DEF Earlier, Before
<1>8. Cardinality(Earlier(c, q)) = Cardinality(Earlier(c, p)) + 1
  BY <1>5, <1>6, <1>7, FS_AddElement
<1>9. ~PairsLeft(q) => Cardinality(Earlier(c, p)) = NumPairs(c) - 1
  <2>1. NumPairs(c) \in Nat
    BY <1>1, EncountersFinite
  <2> QED
    BY <1>4, <1>6, <1>8, <2>1 DEF NumPairs
<1>10. q \in Nat \X Nat
  BY <1>3
<1> QED
  BY <1>4, <1>6, <1>8, <1>9, <1>10 DEF q

(***************************************************************************)
(* Where the games of the next pair begin.                                 *)
(***************************************************************************)
LEMMA PlaceArithmetic ==
  ASSUME NEW a \in Nat, NEW n \in Nat, NEW p \in Nat, NEW g \in Nat
  PROVE  /\ (a * n + p) * g \in Nat
         /\ (a * n + (p + 1)) * g = (a * n + p) * g + g
         /\ (p + 1) * g = p * g + g
<1>1. a * n \in Nat
  OBVIOUS
<1>2. ASSUME NEW x \in Nat
      PROVE  /\ (x + p) * g \in Nat
             /\ (x + (p + 1)) * g = (x + p) * g + g
  OBVIOUS
<1> QED
  BY <1>1, <1>2

LEMMA InitInv == Init => IInv
<1> SUFFICES ASSUME Init PROVE IInv
  OBVIOUS
<1>1. c \in Tournaments
  BY DEF Init
<1>2. c.rounds \in Nat
  BY <1>1, ValidOptions DEF Valid
<1>3. TypeInv
  BY <1>1, <1>2 DEF Init, TypeInv, FirstPair
<1>4. PlaceInv
  BY <1>1, FirstPlace DEF Init, PlaceInv
<1>5. ResultsInv
  BY <1>1, FirstPlace DEF Init, ResultsInv, Passed
<1>6. JobsInv
  BY <1>2 DEF Init, JobsInv
<1>7. IndexInv
  BY DEF Init, IndexInv
<1> QED
  BY <1>3, <1>4, <1>5, <1>6, <1>7 DEF IInv

(***************************************************************************)
(* One more entry of results[] is that of the encounter the loops are at.  *)
(***************************************************************************)
LEMMA AddResultInv ==
  ASSUME IInv, AddResult
  PROVE  IInv'
<1>1. /\ c \in Tournaments /\ c' = c /\ r = -1 /\ r' = -1
      /\ at \in Encounters(c) /\ at \in Nat \X Nat
      /\ at' = NextPair(at)
  BY DEF IInv, TypeInv, PlaceInv, AddResult
<1>2. Valid(c) /\ c.rounds \in Nat
  BY <1>1, ValidOptions DEF Valid
<1>3. /\ at' \in Nat \X Nat
      /\ IF PairsLeft(NextPair(at)) THEN at' \in Encounters(c)
         ELSE Earlier(c, at') = Encounters(c)
      /\ Passed' = Passed + 1
      /\ Passed \in Nat
  BY <1>1, NextPlace DEF Passed
<1>4. TypeInv'
  BY <1>1, <1>3 DEF IInv, TypeInv, AddResult, file
<1>5. PlaceInv'
  <2>1. PairsLeft(at)' <=> PairsLeft(NextPair(at))
    BY <1>1 DEF PairsLeft
  <2> QED
    BY <1>1, <1>3, <2>1 DEF PlaceInv
<1>6. ResultsInv'
  <2>1. results' = Append(results, at) /\ results \in Seq(Nat \X Nat)
    BY DEF AddResult, IInv, TypeInv
  <2>2. Len(results) = Passed
    BY <1>1 DEF IInv, ResultsInv
  <2>3. Encounter(c, Passed) = at
    BY <1>1, <1>2, EncounterAt DEF Passed
  <2>4. ASSUME NEW k \in DOMAIN results'
        PROVE  results'[k] = Encounter(c, k - 1)
    <3>1. CASE k \in DOMAIN results
      BY <1>1, <2>1, <3>1 DEF IInv, ResultsInv
    <3>2. CASE k = Len(results) + 1
      BY <1>1, <1>3, <2>1, <2>2, <2>3, <3>2
    <3> QED
      BY <1>1, <2>1, <2>4, <3>1, <3>2
  <2> QED
    BY <1>1, <1>3, <2>1, <2>2, <2>4 DEF ResultsInv
<1>7. JobsInv'
  BY <1>1, <1>2 DEF IInv, JobsInv, AddResult
<1>8. IndexInv'
  BY <1>1, <1>2 DEF IInv, IndexInv, AddResult, Constructed, file
<1> QED
  BY <1>4, <1>5, <1>6, <1>7, <1>8 DEF IInv

(***************************************************************************)
(* When the pair loops have ended, all encounters were passed.             *)
(***************************************************************************)
LEMMA AllPassed ==
  ASSUME IInv, ~PairsLeft(at)
  PROVE  Passed = NumPairs(c)
BY DEF IInv, PlaceInv, Passed, NumPairs

(***************************************************************************)
(* A round begins with the first encounter and no game.                    *)
(***************************************************************************)
LEMMA StartRoundInv ==
  ASSUME IInv, NEW n \in Nat, n <= c.rounds, StartRound(n), r < n,
         Len(results) = NumPairs(c),
         Len(jobs) = (n * NumPairs(c)) * c.games
  PROVE  IInv'
<1>1. /\ c \in Tournaments /\ c' = c /\ r' = n /\ r \in -1 .. c.rounds
      /\ at' = FirstPair /\ pair' = 0 /\ added' = 0
      /\ results' = results /\ jobs' = jobs /\ index' = index /\ left' = left
  BY DEF IInv, TypeInv, StartRound, file
<1>2. Valid(c) /\ c.rounds \in Nat /\ c.games \in Nat /\ NumPairs(c) \in Nat
  BY <1>1, ValidOptions, EncountersFinite DEF Valid
<1>3. TypeInv'
  BY <1>1, <1>2 DEF IInv, TypeInv, FirstPair
<1>4. PlaceInv'
  <2>1. PairsLeft(at)' <=> PairsLeft(FirstPair)
    BY <1>1 DEF PairsLeft
  <2> QED
    BY <1>1, <2>1, FirstPlace DEF PlaceInv
<1>5. ResultsInv'
  BY <1>1 DEF IInv, ResultsInv
<1>6. JobsInv'
  <2>1. Passed' = 0
    BY <1>1, FirstPlace DEF Passed
  <2>2. Len(jobs) = (n * NumPairs(c) + 0) * c.games /\ 0 = 0 * c.games
    BY <1>2
  <2> QED
    BY <1>1, <2>1, <2>2 DEF IInv, JobsInv
<1>7. IndexInv'
  BY <1>1, <1>2 DEF IInv, IndexInv, Constructed
<1> QED
  BY <1>3, <1>4, <1>5, <1>6, <1>7 DEF IInv

LEMMA ResultsDoneInv ==
  ASSUME IInv, ResultsDone
  PROVE  IInv'
<1>1. c.rounds \in Nat /\ c.games \in Nat /\ NumPairs(c) \in Nat
  BY ValidOptions, EncountersFinite DEF IInv, TypeInv, Valid
<1>2. Len(results) = NumPairs(c)
  BY AllPassed DEF IInv, ResultsInv, ResultsDone
<1>3. Len(jobs) = 0
  BY DEF IInv, JobsInv, ResultsDone
<1>4. (0 * NumPairs(c)) * c.games = 0
  BY <1>1
<1> QED
  BY <1>1, <1>2, <1>3, <1>4, StartRoundInv DEF ResultsDone

LEMMA NextRoundInv ==
  ASSUME IInv, NextRound
  PROVE  IInv'
<1>1. c.rounds \in Nat /\ c.games \in Nat /\ NumPairs(c) \in Nat
  BY ValidOptions, EncountersFinite DEF IInv, TypeInv, Valid
<1>2. r \in 0 .. c.rounds - 1
  BY DEF NextRound
<1>3. Len(results) = NumPairs(c)
  BY <1>2 DEF IInv, ResultsInv
<1>4. Len(jobs) = (r * NumPairs(c) + NumPairs(c)) * c.games
  BY <1>2, AllPassed DEF IInv, JobsInv, NextRound
<1>5. r * NumPairs(c) + NumPairs(c) = (r + 1) * NumPairs(c)
  BY <1>1, <1>2
<1>6. r + 1 \in Nat /\ r + 1 <= c.rounds /\ r < r + 1
  BY <1>1, <1>2
<1> QED
  BY <1>3, <1>4, <1>5, <1>6, StartRoundInv DEF NextRound

(***************************************************************************)
(* job_queue_init_pair adds the games of the pair at their places.         *)
(***************************************************************************)
LEMMA InitPairInv ==
  ASSUME IInv, InitPair
  PROVE  IInv'
<1> DEFINE N == NumPairs(c)
           G == c.games
<1>1. /\ c \in Tournaments /\ c' = c /\ r' = r
      /\ at \in Encounters(c) /\ at \in Nat \X Nat
      /\ at' = NextPair(at) /\ pair' = pair + 1 /\ added' = added + G
      /\ pair \in Nat /\ added \in Nat
      /\ results' = results /\ index' = index /\ left' = left
      /\ jobs \in Seq(JobSet) /\ jobs' = jobs \o NewGames
  BY DEF IInv, TypeInv, PlaceInv, InitPair, file
<1>2. Valid(c) /\ c.rounds \in Nat /\ G \in Nat /\ N \in Nat
  BY <1>1, ValidOptions, EncountersFinite DEF Valid
<1>3. r \in Nat /\ r < c.rounds
  BY <1>2 DEF InitPair
<1>4. /\ at' \in Nat \X Nat
      /\ IF PairsLeft(NextPair(at)) THEN at' \in Encounters(c)
         ELSE Earlier(c, at') = Encounters(c)
      /\ Passed' = Passed + 1
      /\ Passed \in 0 .. N - 1
  BY <1>1, NextPlace DEF Passed
<1>5. pair = Passed /\ added = pair * G /\ Len(jobs) = (r * N + pair) * G
  BY <1>3 DEF IInv, JobsInv
<1>6. /\ NewGames \in Seq(JobSet) /\ Len(NewGames) = G
      /\ \A g \in 1 .. G : NewGames[g] =
           [ei |-> at, pair |-> pair, round |-> r, game |-> added + g - 1,
            reverse |-> (g - 1) % 2 = 1]
  <2>1. ASSUME NEW g \in 1 .. G
        PROVE  [ei |-> at, pair |-> pair, round |-> r, game |-> added + g - 1,
                reverse |-> (g - 1) % 2 = 1] \in JobSet
    <3>1. added + g - 1 \in Nat
      BY <1>1, <1>2
    <3> QED
      BY <1>1, <1>3, <3>1 DEF JobSet
  <2>2. NewGames \in [1 .. G -> JobSet]
    BY <2>1 DEF NewGames
  <2>3. NewGames \in Seq(JobSet) /\ Len(NewGames) = G
    BY <1>2, <2>2
  <2> QED
    BY <2>3 DEF NewGames
<1>7. TypeInv'
  <2>1. jobs' \in Seq(JobSet)
    BY <1>1, <1>6
  <2>2. added' \in Nat /\ pair' \in Nat
    BY <1>1, <1>2
  <2> QED
    BY <1>1, <1>4, <2>1, <2>2 DEF IInv, TypeInv
<1>8. PlaceInv'
  <2>1. PairsLeft(at)' <=> PairsLeft(NextPair(at))
    BY <1>1 DEF PairsLeft
  <2> QED
    BY <1>1, <1>4, <2>1 DEF PlaceInv
<1>9. ResultsInv'
  BY <1>1, <1>3 DEF IInv, ResultsInv
<1>10. JobsInv'
  <2>1. Encounter(c, pair) = at
    BY <1>1, <1>2, <1>5, EncounterAt DEF Passed
  <2>2. ASSUME NEW k \in DOMAIN jobs'
        PROVE  jobs'[k] = Job(c, k - 1)
    <3>1. CASE k \in DOMAIN jobs
      BY <1>1, <1>6, <3>1 DEF IInv, JobsInv
    <3>2. CASE k \notin DOMAIN jobs
      <4>1. PICK g \in 1 .. G : k = Len(jobs) + g /\ jobs'[k] = NewGames[g]
        <5>1. Len(jobs) \in Nat /\ DOMAIN jobs = 1 .. Len(jobs)
              /\ Len(NewGames) = G
              /\ DOMAIN jobs' = 1 .. Len(jobs) + G
          <6>1. jobs \in Seq(JobSet) /\ jobs' = jobs \o NewGames
            BY <1>1, <1>2
          <6> QED
            BY <1>6, <6>1, LenProperties, ConcatProperties
        <5>2. k - Len(jobs) \in 1 .. G /\ k = Len(jobs) + (k - Len(jobs))
          BY <1>2, <3>2, <5>1
        <5>3. jobs'[k] = NewGames[k - Len(jobs)]
          <6>1. jobs \in Seq(JobSet) /\ jobs' = jobs \o NewGames
            BY <1>1, <1>2
          <6>2. k \in 1 .. Len(jobs) + Len(NewGames) /\ ~(k <= Len(jobs))
            BY <3>2, <5>1
          <6> QED
            BY <1>6, <6>1, <6>2, ConcatProperties
        <5> QED
          BY <5>2, <5>3
      <4>2. g - 1 \in 0 .. G - 1 /\ G # 0
        BY <1>2, <4>1
      <4>3. pair \in 0 .. N - 1
        BY <1>4, <1>5
      <4>4. Job(c, (r * N + pair) * G + (g - 1)) =
              [ei |-> Encounter(c, pair), pair |-> pair, round |-> r,
               game |-> pair * G + (g - 1), reverse |-> (g - 1) % 2 = 1]
        BY <1>2, <1>3, <4>2, <4>3, JobAt
      <4>5. (r * N + pair) * G + (g - 1) = k - 1
        <5>1. (r * N + pair) * G \in Nat
          BY <1>1, <1>2, <1>3, PlaceArithmetic
        <5> QED
          BY <1>5, <4>1, <5>1
      <4>6. pair * G + (g - 1) = added + g - 1
        BY <1>1, <1>2, <1>5, <4>1
      <4> QED
        BY <1>6, <2>1, <4>1, <4>4, <4>5, <4>6
    <3> QED
      BY <3>1, <3>2
  <2>3. Len(jobs') = (r * N + (pair + 1)) * G
    <3>1. (r * N + (pair + 1)) * G = (r * N + pair) * G + G
      <4>1. r \in Nat /\ N \in Nat /\ pair \in Nat /\ G \in Nat
        BY <1>1, <1>2, <1>3, Zenon
      <4> QED
        BY ONLY <4>1, PlaceArithmetic, SMTT(30)
    <3>2. Len(jobs') = Len(jobs) + G
      <4>1. jobs \in Seq(JobSet) /\ jobs' = jobs \o NewGames
        BY <1>1, Zenon
      <4>2. NewGames \in Seq(JobSet) /\ Len(NewGames) = G
        BY <1>6, Zenon
      <4>3. Len(jobs \o NewGames) = Len(jobs) + Len(NewGames)
        BY ONLY <4>1, <4>2, ConcatProperties
      <4> QED
        BY ONLY <4>1, <4>2, <4>3
    <3> QED
      BY <1>5, <3>1, <3>2
  <2>4. added + G = (pair + 1) * G
    <3>1. (pair + 1) * G = pair * G + G
      <4>1. pair \in Nat /\ G \in Nat /\ r \in Nat
        BY <1>1, <1>2, <1>3
      <4> HIDE DEF G
      <4> QED
        BY ONLY <4>1, PlaceArithmetic
    <3> QED
      BY <1>5, <3>1
  <2>5. \A k \in DOMAIN jobs' : jobs'[k] = Job(c', k - 1)
    BY <1>1, <2>2
  <2>6. r' # -1 /\ r' # c'.rounds /\ r' >= 0
    BY <1>1, <1>2, <1>3
  <2>7. pair' = Passed'
    BY <1>1, <1>4, <1>5
  <2>8. added' = pair' * c'.games
    BY <1>1, <2>4
  <2>9. Len(jobs') = (r' * NumPairs(c') + pair') * c'.games
    BY <1>1, <2>3
  <2> QED
    BY <2>5, <2>6, <2>7, <2>8, <2>9 DEF JobsInv
<1>11. IndexInv'
  BY <1>1, <1>2, <1>3 DEF IInv, IndexInv, Constructed
<1> QED
  BY <1>7, <1>8, <1>9, <1>10, <1>11 DEF IInv

(***************************************************************************)
(* The index of a file as it is read names each line at its place.         *)
(***************************************************************************)
LEMMA OpenFileInv ==
  ASSUME IInv, NEW n \in 1 .. MaxLines, NEW random \in BOOLEAN, OpenFile(n, random)
  PROVE  IInv'
<1>1. n \in Nat /\ n >= 1
  BY BoundsAssumption
<1>2. /\ index' = [k \in 1 .. n |-> k - 1]
      /\ left' = (IF random THEN n - 1 ELSE 0)
      /\ Constructed
      /\ UNCHANGED queue
  BY DEF OpenFile
<1>3. /\ index' \in Seq(Nat) /\ Len(index') = n /\ DOMAIN index' = 1 .. n
      /\ \A k \in 1 .. n : index'[k] = k - 1
  <2>1. index' \in [1 .. n -> Nat]
    BY <1>1, <1>2
  <2>2. index' \in Seq(Nat) /\ Len(index') = n /\ DOMAIN index' = 1 .. n
    BY <1>1, <2>1
  <2> QED
    BY <1>2, <2>2
<1>4. left' \in Nat /\ left' < n
  BY <1>1, <1>2
<1>5. TypeInv'
  BY <1>2, <1>3, <1>4 DEF IInv, TypeInv, queue
<1>6. PlaceInv'
  BY <1>2 DEF IInv, PlaceInv, PairsLeft, queue
<1>7. ResultsInv'
  BY <1>2 DEF IInv, ResultsInv, Passed, queue
<1>8. JobsInv'
  BY <1>2 DEF IInv, JobsInv, Passed, queue
<1>9. IndexInv'
  <2>1. Constructed'
    BY <1>2 DEF Constructed, queue
  <2>2. ASSUME NEW l \in 0 .. n - 1
        PROVE  \E i \in 1 .. n : index'[i] = l
    <3>1. l + 1 \in 1 .. n /\ index'[l + 1] = l
      BY <1>1, <1>3
    <3> QED
      BY <3>1
  <2>3. ASSUME NEW i \in 1 .. n
        PROVE  index'[i] \in 0 .. n - 1
    BY <1>1, <1>3
  <2>4. ASSUME NEW i \in 1 .. n, NEW j \in 1 .. n, index'[i] = index'[j]
        PROVE  i = j
    BY <1>1, <1>3, <2>4
  <2> QED
    BY <1>3, <1>4, <2>1, <2>2, <2>3, <2>4 DEF IndexInv
<1> QED
  BY <1>5, <1>6, <1>7, <1>8, <1>9 DEF IInv

(***************************************************************************)
(* An exchange of two places keeps each line once.                         *)
(***************************************************************************)
LEMMA SwapLinesInv ==
  ASSUME IInv, SwapLines
  PROVE  IInv'
<1>1. PICK j \in 0 .. left :
        index' = [index EXCEPT ![left + 1] = index[j + 1], ![j + 1] = index[left + 1]]
  BY DEF SwapLines
<1>2. /\ left \in Nat /\ left > 0 /\ left' = left - 1 /\ UNCHANGED queue
      /\ index \in Seq(Nat)
  BY DEF SwapLines, IInv, TypeInv
<1> DEFINE a == left + 1
           b == j + 1
           n == Len(index)
           P == 1 .. n
           from(i) == IF i = b THEN a ELSE IF i = a THEN b ELSE i
<1>3. /\ Constructed /\ left < n /\ n \in Nat /\ DOMAIN index = P
      /\ \A i \in P : index[i] \in 0 .. n - 1
      /\ \A i, k \in P : index[i] = index[k] => i = k
      /\ \A l \in 0 .. n - 1 : \E i \in P : index[i] = l
  <2>1. n \in Nat /\ DOMAIN index = P
    BY <1>2
  <2>2. IndexInv /\ left >= 0
    BY <1>2 DEF IInv
  <2>3. /\ Constructed /\ left < Len(index)
        /\ \A i \in DOMAIN index : index[i] \in 0 .. Len(index) - 1
        /\ \A i, k \in DOMAIN index : index[i] = index[k] => i = k
        /\ \A l \in 0 .. Len(index) - 1 : \E i \in DOMAIN index : index[i] = l
    BY ONLY <2>2 DEF IndexInv
  <2> QED
    BY ONLY <2>1, <2>3
<1>4. a \in P /\ b \in P
  BY <1>2, <1>3
<1>5. /\ index' \in Seq(Nat) /\ Len(index') = n /\ DOMAIN index' = P
      /\ \A i \in P : index'[i] = index[from(i)]
  <2>1. index' = [index EXCEPT ![a] = index[b], ![b] = index[a]]
    BY <1>1
  <2>2. index[a] \in Nat /\ index[b] \in Nat
    BY <1>2, <1>4
  <2> HIDE DEF a, b
  <2> QED
    BY <1>2, <1>3, <1>4, <2>1, <2>2
<1>6. \A i \in P : from(i) \in P /\ from(from(i)) = i
  BY <1>4
<1> HIDE DEF a, b, from
<1>7. TypeInv'
  BY <1>2, <1>5 DEF IInv, TypeInv, queue
<1>8. PlaceInv'
  BY <1>2 DEF IInv, PlaceInv, PairsLeft, queue
<1>9. ResultsInv'
  BY <1>2 DEF IInv, ResultsInv, Passed, queue
<1>10. JobsInv'
  BY <1>2 DEF IInv, JobsInv, Passed, queue
<1>11. IndexInv'
  <2>1. Constructed' /\ left' < n
    BY <1>2, <1>3 DEF Constructed, queue
  <2>2. ASSUME NEW l \in 0 .. n - 1
        PROVE  \E i \in P : index'[i] = l
    <3>1. PICK i \in P : index[i] = l
      BY <1>3
    <3>2. from(i) \in P /\ index'[from(i)] = index[from(from(i))]
      BY <1>5, <1>6
    <3> QED
      BY <1>6, <3>1, <3>2
  <2>3. \A i \in P : index'[i] \in 0 .. n - 1
    BY <1>3, <1>5, <1>6
  <2>4. ASSUME NEW i \in P, NEW k \in P, index'[i] = index'[k]
        PROVE  i = k
    <3>1. from(i) \in P /\ from(k) \in P /\ index[from(i)] = index[from(k)]
      BY <1>5, <1>6, <2>4
    <3>2. from(i) = from(k)
      BY <1>3, <3>1
    <3>3. from(from(i)) = i /\ from(from(k)) = k
      BY <1>6
    <3> QED
      BY <3>2, <3>3
  <2> QED
    BY <1>5, <2>1, <2>2, <2>3, <2>4 DEF IndexInv
<1> QED
  BY <1>7, <1>8, <1>9, <1>10, <1>11 DEF IInv

(***************************************************************************)
(* The inductive invariant of the constructor and the shuffle.             *)
(***************************************************************************)
THEOREM Invariance == Spec => []IInv
<1>1. Init => IInv
  BY InitInv
<1>2. IInv /\ [Next]_vars => IInv'
  <2> SUFFICES ASSUME IInv, [Next]_vars PROVE IInv'
    OBVIOUS
  <2>1. CASE AddResult
    BY <2>1, AddResultInv
  <2>2. CASE ResultsDone
    BY <2>2, ResultsDoneInv
  <2>3. CASE InitPair
    BY <2>3, InitPairInv
  <2>4. CASE NextRound
    BY <2>4, NextRoundInv
  <2>5. CASE \E n \in 1 .. MaxLines, random \in BOOLEAN : OpenFile(n, random)
    BY <2>5, OpenFileInv
  <2>6. CASE SwapLines
    BY <2>6, SwapLinesInv
  <2>7. CASE Finished \/ UNCHANGED vars
    <3>1. UNCHANGED <<c, results, jobs, r, at, pair, added, index, left>>
      BY <2>7 DEF Finished, vars, queue, file
    <3> QED
      BY <3>1 DEF IInv, TypeInv, PlaceInv, ResultsInv, JobsInv, IndexInv,
                  PairsLeft, Passed, Constructed
  <2> QED
    BY <2>1, <2>2, <2>3, <2>4, <2>5, <2>6, <2>7 DEF Next
<1> QED
  BY <1>1, <1>2, PTL DEF Spec

(***************************************************************************)
(* jobs[] is the table of Schedule, place by place, and results[] is       *)
(* indexed by the pair of its jobs, for every tournament.                  *)
(***************************************************************************)
LEMMA JobsHaveResults ==
  ASSUME IInv, NEW k \in DOMAIN jobs
  PROVE  /\ jobs[k] = Job(c, k - 1)
         /\ k - 1 \in 0 .. NumJobs(c) - 1
         /\ r \in Nat /\ c.games # 0
         /\ results[jobs[k].pair + 1] = jobs[k].ei
<1> DEFINE N == NumPairs(c)
           G == c.games
<1>1. Valid(c) /\ c.rounds \in Nat /\ G \in Nat /\ N \in Nat \ {0}
  BY ValidOptions, EncountersFinite DEF IInv, TypeInv, Valid
<1>2. jobs # <<>> /\ r \in -1 .. c.rounds /\ jobs \in Seq(JobSet)
      /\ k \in Nat \ {0} /\ k <= Len(jobs)
  BY DEF IInv, TypeInv
<1>3. r \in Nat /\ r <= c.rounds
  BY <1>1, <1>2 DEF IInv, JobsInv
<1>4. /\ Len(jobs) = (r * N + pair) * G /\ pair = Passed
      /\ (r = c.rounds => pair = 0)
      /\ jobs[k] = Job(c, k - 1)
      /\ Len(results) = N
      /\ \A i \in DOMAIN results : results[i] = Encounter(c, i - 1)
  BY <1>2, <1>3 DEF IInv, JobsInv, ResultsInv
<1>5. pair \in 0 .. N
  <2>1. CASE PairsLeft(at)
    <3>1. at \in Encounters(c)
      BY <2>1 DEF IInv, PlaceInv
    <3>2. Passed \in 0 .. N - 1
      BY <1>1, <3>1, EarlierType DEF Passed
    <3> QED
      BY <1>1, <1>4, <3>2
  <2>2. CASE ~PairsLeft(at)
    BY <1>1, <1>4, <2>2, AllPassed
  <2> QED
    BY <2>1, <2>2
<1>6. r * N + pair <= c.rounds * N /\ r * N + pair \in Nat
  <2>1. CASE r = c.rounds
    BY <1>1, <1>3, <1>4, <2>1
  <2>2. CASE r # c.rounds
    <3>1. PICK d \in Nat : c.rounds = r + 1 + d
      <4>1. c.rounds - r - 1 \in Nat /\ c.rounds = r + 1 + (c.rounds - r - 1)
        BY <1>1, <1>3, <2>2
      <4> QED
        BY <4>1
    <3>2. c.rounds * N = r * N + N + d * N /\ d * N \in Nat /\ r * N \in Nat
      BY <1>1, <1>3, <3>1
    <3> QED
      BY <1>1, <1>5, <3>2
  <2> QED
    BY <2>1, <2>2
<1>7. (r * N + pair) * G <= (c.rounds * N) * G
  <2>1. ASSUME NEW x \in Nat, NEW y \in Nat, NEW g \in Nat, x <= y
        PROVE  x * g <= y * g
    <3>1. PICK d \in Nat : y = x + d
      <4>1. y - x \in Nat /\ y = x + (y - x)
        BY <2>1
      <4> QED
        BY <4>1
    <3>2. y * g = x * g + d * g /\ d * g \in Nat /\ x * g \in Nat
      BY <3>1
    <3> QED
      BY <3>2
  <2>2. c.rounds * N \in Nat
    BY <1>1
  <2> QED
    BY <1>1, <1>6, <2>1, <2>2
<1>8. k - 1 \in 0 .. NumJobs(c) - 1
  <2>1. NumJobs(c) = (c.rounds * N) * G /\ NumJobs(c) \in Nat
    BY <1>1, NumJobsType DEF NumJobs
  <2> QED
    BY <1>2, <1>4, <1>7, <2>1
<1>9. jobs[k].pair \in 0 .. N - 1 /\ jobs[k].ei = Encounter(c, jobs[k].pair)
  BY <1>1, <1>4, <1>8, JobType
<1>10. results[jobs[k].pair + 1] = jobs[k].ei
  <2>1. results \in Seq(Nat \X Nat)
    BY DEF IInv, TypeInv
  <2>2. jobs[k].pair + 1 \in DOMAIN results /\ (jobs[k].pair + 1) - 1 = jobs[k].pair
    <3>1. DOMAIN results = 1 .. N
      BY <1>4, <2>1, LenProperties
    <3>2. ASSUME NEW p \in 0 .. N - 1
          PROVE  p + 1 \in 1 .. N /\ (p + 1) - 1 = p
      BY <1>1
    <3> QED
      BY <1>9, <3>1, <3>2, Zenon
  <2> QED
    BY <1>4, <1>9, <2>2
<1>11. G # 0
  <2>1. G = 0 => (r * N + pair) * G = 0
    BY <1>6
  <2> QED
    BY <1>2, <1>4, <2>1
<1> QED
  BY <1>3, <1>4, <1>8, <1>10, <1>11

(***************************************************************************)
(* After the last round no job is missing.                                 *)
(***************************************************************************)
LEMMA AllJobs ==
  ASSUME IInv, Constructed
  PROVE  /\ Len(jobs) = NumJobs(c) /\ NumJobs(c) \in Nat
         /\ DOMAIN jobs = 1 .. NumJobs(c)
<1>1. /\ Valid(c) /\ c.rounds \in Nat /\ c.games \in Nat
      /\ NumPairs(c) \in Nat /\ NumJobs(c) \in Nat
  BY ValidOptions, EncountersFinite, NumJobsType DEF IInv, TypeInv, Valid
<1>2. Len(jobs) = (c.rounds * NumPairs(c) + 0) * c.games
  BY <1>1 DEF IInv, JobsInv, Constructed
<1>3. c.rounds * NumPairs(c) + 0 = c.rounds * NumPairs(c)
  BY <1>1
<1>4. Len(jobs) = NumJobs(c)
  BY <1>2, <1>3 DEF NumJobs
<1>5. DOMAIN jobs = 1 .. Len(jobs)
  BY DEF IInv, TypeInv
<1> QED
  BY <1>1, <1>4, <1>5

(***************************************************************************)
(* The loops compute the table of Schedule, which Tournament and its       *)
(* proofs are about: ComputesSchedule, for every number of engines, rounds *)
(* and games.                                                              *)
(***************************************************************************)
THEOREM LoopsFillTheTable == Spec => []ComputesSchedule
<1>1. IInv => ComputesSchedule
  BY JobsHaveResults, AllJobs DEF ComputesSchedule
<1> QED
  BY <1>1, Invariance, PTL

(***************************************************************************)
(* With an even number of games, two jobs that share an opening are of one *)
(* pair and round, and the other engine moves first.                       *)
(***************************************************************************)
LEMMA SharedSwaps ==
  ASSUME IInv, Constructed, c.games % 2 = 0, NEW k \in SharedOpenings
  PROVE  ReplayedReversed(k)
<1> DEFINE G == c.games
           m == k - 1
           q == m \div G
           s == m % G
<1>1. /\ k \in DOMAIN jobs /\ k + 1 \in DOMAIN jobs
      /\ k \in Nat /\ m \in Nat /\ (k + 1) - 1 = m + 1
  <2>1. Len(jobs) \in Nat /\ DOMAIN jobs = 1 .. Len(jobs)
    BY DEF IInv, TypeInv
  <2>2. k \in 1 .. Len(jobs) - 1
    BY DEF SharedOpenings
  <2> QED
    BY <2>1, <2>2
<1>2. /\ jobs[k] = Job(c, m) /\ m \in 0 .. NumJobs(c) - 1 /\ G # 0
      /\ jobs[k + 1] = Job(c, m + 1)
  BY <1>1, JobsHaveResults
<1>3. G \in Nat \ {0} /\ Valid(c)
  BY <1>2, ValidOptions DEF IInv, TypeInv, Valid
<1>4. m % 2 = 0
  <2>1. m \div 2 = (m + 1) \div 2
    BY <1>1 DEF SharedOpenings, OpeningIndex
  <2> HIDE DEF m
  <2> QED
    BY <1>1, <2>1
<1>5. q \in Nat /\ s \in 0 .. G - 1 /\ m = q * G + s
  BY <1>1, <1>3, DivParts
<1> HIDE DEF m, q, s
<1>6. s % 2 = 0 /\ s + 1 \in 0 .. G - 1 /\ (s + 1) % 2 = 1
  <2>1. PICK h \in Nat : G = 2 * h
    <3>1. G \div 2 \in Nat /\ G = 2 * (G \div 2)
      BY <1>3
    <3> QED
      BY <3>1
  <2>2. PICK w \in Nat : q * G = 2 * w
    <3>1. q * h \in Nat /\ q * G = 2 * (q * h)
      BY <1>5, <2>1
    <3> QED
      BY <3>1
  <2>3. m = 2 * w + s /\ s \in Nat /\ s < 2 * h /\ m \in Nat
    BY <1>1, <1>3, <1>5, <2>1, <2>2
  <2>4. s % 2 = 0 /\ s + 1 < 2 * h /\ (s + 1) % 2 = 1
    BY ONLY <1>4, <2>3, w \in Nat, h \in Nat
  <2> QED
    BY <1>3, <2>1, <2>3, <2>4
<1>7. m + 1 = q * G + (s + 1)
  <2>1. q * G \in Nat /\ s \in Nat
    BY <1>3, <1>5
  <2> QED
    BY <1>5, <2>1
<1>8. (m + 1) \div G = q /\ (m + 1) % G = s + 1
  <2>1. G \in Nat \ {0} /\ q \in Nat /\ s + 1 \in 0 .. G - 1
    BY <1>3, <1>5, <1>6
  <2> HIDE DEF G
  <2>2. (q * G + (s + 1)) \div G = q /\ (q * G + (s + 1)) % G = s + 1
    BY ONLY <2>1, DivMod
  <2> QED
    BY ONLY <1>7, <2>2
<1>9. m \div G = q /\ m % G = s
  BY DEF q, s
<1>10. PairOf(c, m + 1) = PairOf(c, m)
  BY <1>8, <1>9 DEF PairOf
<1>11. ReverseOf(c, m + 1) /\ ~ReverseOf(c, m)
  BY <1>6, <1>8, <1>9 DEF ReverseOf
<1>12. /\ jobs[k + 1].ei = jobs[k].ei
       /\ jobs[k + 1].reverse /\ ~jobs[k].reverse
  BY <1>2, <1>10, <1>11 DEF Job
<1>13. jobs[k].ei[1] # jobs[k].ei[2]
  BY <1>2, <1>3, JobType
<1> QED
  BY <1>12, <1>13 DEF ReplayedReversed, FirstMover

(***************************************************************************)
(* -repeat with an even -games, EvenGamesRepeatSwapsSides: each opening is *)
(* played twice in a row by the same engines, with sides swapped.          *)
(***************************************************************************)
THEOREM SidesAreSwapped == Spec => []EvenGamesRepeatSwapsSides
<1>1. IInv => EvenGamesRepeatSwapsSides
  BY SharedSwaps DEF EvenGamesRepeatSwapsSides
<1> QED
  BY <1>1, Invariance, PTL

-----------------------------------------------------------------------------
(***************************************************************************)
(* The jobs of an encounter are its games in all rounds.                   *)
(***************************************************************************)
LEMMA GamesOfAPair ==
  ASSUME IInv, Constructed, NEW a, a \in Encounters(c)
  PROVE  Cardinality({k \in DOMAIN jobs : jobs[k].ei = a}) = c.rounds * c.games
<1> DEFINE N == NumPairs(c)
           G == c.games
           R == c.rounds
           p == Cardinality(Earlier(c, a))
           K == {k \in DOMAIN jobs : jobs[k].ei = a}
           D == (0 .. R - 1) \X (0 .. G - 1)
           place(x, g) == (x * N + p) * G + g
           f == [t \in D |-> place(t[1], t[2]) + 1]
<1>1. /\ Valid(c) /\ R \in Nat /\ G \in Nat /\ N \in Nat \ {0}
      /\ p \in 0 .. N - 1 /\ Encounter(c, p) = a
  BY ValidOptions, EncountersFinite, EarlierType, EncounterAt DEF IInv, TypeInv, Valid
<1>2. /\ NumJobs(c) = (R * N) * G /\ NumJobs(c) \in Nat
      /\ DOMAIN jobs = 1 .. NumJobs(c)
      /\ \A k \in DOMAIN jobs : jobs[k] = Job(c, k - 1)
  BY AllJobs DEF IInv, JobsInv, NumJobs
<1> HIDE DEF N, G, R, p
<1>3. ASSUME NEW x \in 0 .. R - 1, NEW g \in 0 .. G - 1
      PROVE  /\ place(x, g) \in Nat /\ place(x, g) < (R * N) * G
             /\ Job(c, place(x, g)).ei = a
             /\ Job(c, place(x, g)).round = x
             /\ Job(c, place(x, g)).game = p * G + g
  <2>1. Job(c, place(x, g)) =
          [ei |-> Encounter(c, p), pair |-> p, round |-> x,
           game |-> p * G + g, reverse |-> g % 2 = 1]
    <3>1. x \in Nat /\ G # 0
      BY <1>1
    <3> QED
      BY <1>1, <3>1, JobAt DEF N, G
  <2>2. place(x, g) \in Nat /\ place(x, g) < (R * N) * G
    <3>1. PICK d \in Nat : R = x + 1 + d
      <4>1. R - x - 1 \in Nat /\ R = x + 1 + (R - x - 1)
        BY <1>1
      <4> QED
        BY <4>1
    <3>2. PICK e \in Nat : N = p + 1 + e
      <4>1. N - p - 1 \in Nat /\ N = p + 1 + (N - p - 1)
        BY <1>1
      <4> QED
        BY <4>1
    <3>3. x * N \in Nat /\ d * N \in Nat /\ R * N = x * N + N + d * N
      BY <1>1, <3>1
    <3>4. PICK y \in Nat : R * N = (x * N + p) + 1 + y
      <4>1. e + d * N \in Nat /\ R * N = (x * N + p) + 1 + (e + d * N)
        BY <1>1, <3>2, <3>3
      <4> QED
        BY <4>1
    <3>5. PICK z \in Nat : z = x * N + p
      BY <1>1, <3>3
    <3>6. (R * N) * G = z * G + G + y * G /\ z * G \in Nat /\ y * G \in Nat
      <4>1. \A u, v, w \in Nat : (u + 1 + v) * w = u * w + w + v * w
                                /\ u * w \in Nat /\ v * w \in Nat
        OBVIOUS
      <4> QED
        BY <1>1, <3>4, <3>5, <4>1
    <3>7. place(x, g) = z * G + g
      BY <3>5
    <3> QED
      BY <1>1, <3>6, <3>7
  <2> QED
    BY <1>1, <2>1, <2>2
<1>4. f \in [D -> K]
  <2>1. ASSUME NEW t \in D
        PROVE  f[t] \in K
    <3>1. t[1] \in 0 .. R - 1 /\ t[2] \in 0 .. G - 1
      OBVIOUS
    <3>2. /\ place(t[1], t[2]) \in Nat /\ place(t[1], t[2]) < NumJobs(c)
          /\ Job(c, place(t[1], t[2])).ei = a
      BY <1>2, <1>3, <3>1
    <3> HIDE DEF place
    <3>3. f[t] \in DOMAIN jobs /\ f[t] - 1 = place(t[1], t[2])
      BY <1>2, <3>2
    <3> QED
      BY <1>2, <3>2, <3>3
  <2> QED
    BY <2>1
<1>5. ASSUME NEW t \in D, NEW u \in D, f[t] = f[u]
      PROVE  t = u
  <2>1. /\ t[1] \in 0 .. R - 1 /\ t[2] \in 0 .. G - 1 /\ t = <<t[1], t[2]>>
        /\ u[1] \in 0 .. R - 1 /\ u[2] \in 0 .. G - 1 /\ u = <<u[1], u[2]>>
    OBVIOUS
  <2>2. /\ place(t[1], t[2]) \in Nat /\ place(u[1], u[2]) \in Nat
        /\ Job(c, place(t[1], t[2])).round = t[1]
        /\ Job(c, place(u[1], u[2])).round = u[1]
        /\ Job(c, place(t[1], t[2])).game = p * G + t[2]
        /\ Job(c, place(u[1], u[2])).game = p * G + u[2]
    BY <1>3, <2>1
  <2> HIDE DEF place
  <2>3. place(t[1], t[2]) = place(u[1], u[2])
    BY <1>5, <2>2
  <2>4. t[1] = u[1] /\ p * G + t[2] = p * G + u[2]
    BY <2>2, <2>3
  <2>5. t[2] = u[2]
    <3>1. p * G \in Nat
      BY <1>1
    <3> QED
      BY <1>1, <2>1, <2>4, <3>1
  <2> QED
    BY <2>1, <2>4, <2>5
<1>6. ASSUME NEW k \in K
      PROVE  \E t \in D : f[t] = k
  <2> DEFINE m == k - 1
             x == m \div G
             g == m % G
             y == x \div N
  <2>1. k \in 1 .. NumJobs(c) /\ m \in Nat /\ m < (R * N) * G /\ Job(c, m).ei = a
    BY <1>2
  <2>2. G \in Nat \ {0}
    <3>1. G = 0 => (R * N) * G = 0
      BY <1>1
    <3> QED
      BY <1>1, <2>1, <3>1
  <2>3. x \in Nat /\ g \in 0 .. G - 1 /\ m = x * G + g
    BY <2>1, <2>2, DivParts
  <2>4. x % N = p
    <3>1. x % N \in 0 .. N - 1
      BY <1>1, <2>3
    <3>2. Job(c, m).ei = Encounter(c, x % N)
      BY DEF Job, PairOf, N, G
    <3>3. Cardinality(Earlier(c, Encounter(c, x % N))) = x % N
      BY <1>1, <3>1, PlaceOf DEF N
    <3> QED
      BY <2>1, <3>2, <3>3 DEF p
  <2>5. y \in Nat /\ x = y * N + p
    BY <1>1, <2>3, <2>4, DivParts
  <2> HIDE DEF m, x, g, y
  <2>6. y < R
    <3> SUFFICES ASSUME R <= y PROVE FALSE
      BY <1>1, <2>5
    <3>1. PICK d \in Nat : y = R + d
      <4>1. y - R \in Nat /\ y = R + (y - R)
        BY <1>1, <2>5
      <4> QED
        BY <4>1
    <3>2. PICK e \in Nat : x = R * N + e
      <4>1. d * N + p \in Nat /\ R * N \in Nat /\ y * N = R * N + d * N
        BY <1>1, <3>1
      <4>2. d * N \in Nat
        BY <1>1
      <4>3. x = R * N + (d * N + p)
        BY <1>1, <2>5, <4>1, <4>2
      <4> QED
        BY <4>1, <4>3
    <3>3. \A u, v, w \in Nat : (u + v) * w = u * w + v * w
                              /\ u * w \in Nat /\ v * w \in Nat
      OBVIOUS
    <3>4. R * N \in Nat
      BY <1>1
    <3>5. /\ x * G = (R * N) * G + e * G
          /\ (R * N) * G \in Nat /\ e * G \in Nat
      BY <2>2, <3>2, <3>3, <3>4
    <3> QED
      BY <2>1, <2>2, <2>3, <3>5
  <2>7. <<y, g>> \in D
    BY <1>1, <2>3, <2>5, <2>6
  <2>8. f[<<y, g>>] = place(y, g) + 1 /\ place(y, g) = m
    BY <2>3, <2>5, <2>7
  <2>9. m + 1 = k
    BY <2>1 DEF m
  <2> QED
    BY <2>7, <2>8, <2>9
<1>7. f \in Bijection(D, K)
  <2> HIDE DEF f, D, K
  <2> QED
    BY <1>4, <1>5, <1>6 DEF Bijection, Injection, IsInjective, Surjection
<1>8. IsFiniteSet(D) /\ Cardinality(D) = R * G
  <2>1. ASSUME NEW n \in Nat
        PROVE  IsFiniteSet(0 .. n - 1) /\ Cardinality(0 .. n - 1) = n
    <3>1. /\ 0 \in Int /\ n - 1 \in Int
          /\ (IF 0 > n - 1 THEN 0 ELSE n - 1 - 0 + 1) = n
      OBVIOUS
    <3> QED
      BY ONLY <3>1, FS_Interval, Zenon
  <2> DEFINE A == 0 .. R - 1
             B == 0 .. G - 1
  <2>2. IsFiniteSet(A) /\ Cardinality(A) = R /\ IsFiniteSet(B) /\ Cardinality(B) = G
    BY <1>1, <2>1
  <2>3. D = A \X B
    OBVIOUS
  <2> HIDE DEF A, B, D
  <2> QED
    BY <2>2, <2>3, FS_Product
<1>9. Cardinality(K) = Cardinality(D)
  <2> HIDE DEF f, D, K
  <2> QED
    BY <1>7, <1>8, FS_Bijection DEF ExistsBijection
<1> QED
  BY <1>8, <1>9 DEF R, G

(***************************************************************************)
(* -games and -rounds, EveryPairPlaysItsGames: games times rounds games    *)
(* for each pair of engines, in a gauntlet for each pair with the first    *)
(* engine, and none for others.                                            *)
(***************************************************************************)
THEOREM AllPairsPlay == Spec => []EveryPairPlaysItsGames
<1>1. ASSUME IInv, Constructed,
             NEW a \in (0 .. c.engines - 1) \X (0 .. c.engines - 1)
      PROVE  Cardinality({k \in DOMAIN jobs : jobs[k].ei = a}) =
               IF a \in Encounters(c) THEN c.games * c.rounds ELSE 0
  <2>1. Valid(c) /\ c.rounds \in Nat /\ c.games \in Nat
    BY <1>1, ValidOptions DEF IInv, TypeInv, Valid
  <2>2. CASE a \in Encounters(c)
    <3>1. c.rounds * c.games = c.games * c.rounds
      BY <2>1
    <3> QED
      BY <1>1, <2>2, <3>1, GamesOfAPair
  <2>3. CASE a \notin Encounters(c)
    <3>1. ASSUME NEW k \in DOMAIN jobs
          PROVE  jobs[k].ei # a
      <4>1. jobs[k] = Job(c, k - 1) /\ k - 1 \in 0 .. NumJobs(c) - 1
        BY <1>1, JobsHaveResults
      <4>2. /\ jobs[k].pair \in 0 .. NumPairs(c) - 1
            /\ jobs[k].ei = Encounter(c, jobs[k].pair)
        BY <2>1, <4>1, JobType
      <4> QED
        BY <2>1, <2>3, <4>2, EncounterType
    <3>2. {k \in DOMAIN jobs : jobs[k].ei = a} = {}
      BY <3>1
    <3>3. Cardinality({}) = 0
      BY FS_EmptySet
    <3> QED
      BY <2>3, <3>2, <3>3
  <2> QED
    BY <2>2, <2>3
<1>2. IInv => EveryPairPlaysItsGames
  BY <1>1 DEF EveryPairPlaysItsGames, JobsWhere
<1> QED
  BY <1>2, Invariance, PTL

-----------------------------------------------------------------------------
(***************************************************************************)
(* Two uses of an opening file that name the same line in the same round   *)
(* are one.                                                                *)
(***************************************************************************)
LEMMA UsesDiffer ==
  ASSUME IInv, left = 0, NEW repeat \in BOOLEAN,
         NEW k \in Nat \ {0}, NEW m \in Nat \ {0},
         OpeningUse(repeat, k) = OpeningUse(repeat, m)
  PROVE  OpeningIndex(repeat, k - 1) = OpeningIndex(repeat, m - 1)
<1> DEFINE x == OpeningIndex(repeat, k - 1)
           y == OpeningIndex(repeat, m - 1)
           n == Len(index)
<1>1. /\ n \in Nat \ {0} /\ DOMAIN index = 1 .. n
      /\ \A i, j \in DOMAIN index : index[i] = index[j] => i = j
  <2>1. n \in Nat /\ DOMAIN index = 1 .. n
    BY DEF IInv, TypeInv
  <2>2. /\ left < n
        /\ \A i, j \in DOMAIN index : index[i] = index[j] => i = j
    BY DEF IInv, IndexInv
  <2> QED
    BY <2>1, <2>2
<1>2. x \in Nat /\ y \in Nat
  BY DEF OpeningIndex
<1>3. index[(x % n) + 1] = index[(y % n) + 1] /\ x \div n = y \div n
  BY DEF OpeningUse, OpeningLine, OpeningRound
<1> HIDE DEF x, y, n
<1>4. /\ x % n \in 0 .. n - 1 /\ x = (x \div n) * n + (x % n)
      /\ y % n \in 0 .. n - 1 /\ y = (y \div n) * n + (y % n)
  BY <1>1, <1>2, DivParts
<1>5. (x % n) + 1 \in DOMAIN index /\ (y % n) + 1 \in DOMAIN index
  BY <1>1, <1>4
<1>6. (x % n) + 1 = (y % n) + 1
  BY <1>1, <1>3, <1>5
<1>7. x % n = y % n
  BY <1>4, <1>6
<1> QED
  BY <1>3, <1>4, <1>7 DEF x, y

(***************************************************************************)
(* Before a round of the file begins, each line was used in the one before.*)
(***************************************************************************)
LEMMA RoundIsComplete ==
  ASSUME IInv, left = 0, NEW repeat \in BOOLEAN, NEW k \in Nat \ {0},
         OpeningUse(repeat, k)[2] > 0, NEW l \in 0 .. Len(index) - 1
  PROVE  \E m \in 1 .. k - 1 :
           /\ OpeningIndex(repeat, m - 1) # OpeningIndex(repeat, k - 1)
           /\ <<l, OpeningUse(repeat, k)[2] - 1>> = OpeningUse(repeat, m)
<1> DEFINE x == OpeningIndex(repeat, k - 1)
           n == Len(index)
           q == x \div n
<1>1. n \in Nat \ {0} /\ DOMAIN index = 1 .. n
  <2>1. n \in Nat /\ DOMAIN index = 1 .. n
    BY DEF IInv, TypeInv
  <2>2. left < n
    BY DEF IInv, IndexInv
  <2> QED
    BY <2>1, <2>2
<1>2. PICK i \in DOMAIN index : index[i] = l
  BY DEF IInv, IndexInv
<1>3. OpeningUse(repeat, k)[2] = q
  BY DEF OpeningUse, OpeningRound
<1>4. x \in Nat
  BY DEF OpeningIndex
<1> HIDE DEF n
<1>5. q \in Nat /\ q > 0 /\ q * n + (x % n) = x /\ x % n \in 0 .. n - 1
  <2> HIDE DEF x
  <2>1. q \in Nat /\ x % n \in 0 .. n - 1 /\ x = q * n + (x % n)
    BY <1>1, <1>4, DivParts
  <2> QED
    BY <1>3, <2>1
<1> HIDE DEF q
<1> DEFINE y == (q - 1) * n + (i - 1)
           m == IF repeat THEN 2 * y + 1 ELSE y + 1
<1>6. y \in Nat /\ y < x
  <2>1. (q - 1) * n \in Nat /\ q * n = (q - 1) * n + n
    <3>1. PICK d \in Nat : q = d + 1
      <4>1. q - 1 \in Nat /\ q = (q - 1) + 1
        BY <1>5
      <4> QED
        BY <4>1
    <3>2. d * n \in Nat /\ (d + 1) * n = d * n + n /\ q - 1 = d
      BY <1>1, <3>1
    <3> QED
      BY <3>1, <3>2
  <2>2. i - 1 \in 0 .. n - 1
    BY <1>1
  <2> HIDE DEF x
  <2> QED
    BY <1>1, <1>4, <1>5, <2>1, <2>2
<1>7. y \div n = q - 1 /\ y % n = i - 1
  <2>1. q - 1 \in Nat
    BY ONLY <1>5
  <2>2. i \in 1 .. n
    BY <1>1, Zenon
  <2>3. i - 1 \in 0 .. n - 1
    BY ONLY <1>1, <2>2
  <2> QED
    BY ONLY <1>1, <2>1, <2>3, DivMod
<1> HIDE DEF y
<1>8. m \in 1 .. k - 1 /\ OpeningIndex(repeat, m - 1) = y
  <2>1. y \in Nat /\ y < OpeningIndex(repeat, k - 1)
    BY <1>6
  <2> HIDE DEF x, m
  <2>2. ASSUME NEW z \in Nat, NEW h \in Nat \ {0}, z < (h - 1) \div 2
        PROVE  2 * z + 1 \in 1 .. h - 1 /\ ((2 * z + 1) - 1) \div 2 = z
    BY ONLY <2>2
  <2>3. CASE repeat
    BY <2>1, <2>2, <2>3 DEF OpeningIndex, m
  <2>4. CASE ~repeat
    BY <2>1, <2>4 DEF OpeningIndex, m
  <2> QED
    BY <2>3, <2>4
<1>9. OpeningUse(repeat, m) = <<index[(y % n) + 1], y \div n>>
  BY <1>8 DEF OpeningUse, OpeningLine, OpeningRound, n
<1>10. (y % n) + 1 = i
  BY <1>1, <1>7
<1>11. OpeningUse(repeat, m) = <<l, OpeningUse(repeat, k)[2] - 1>>
  BY <1>2, <1>3, <1>7, <1>9, <1>10
<1>12. y # x
  BY <1>4, <1>6
<1> QED
  BY <1>8, <1>11, <1>12

(***************************************************************************)
(* -openings, EachRoundUsesEveryLineOnce: whatever the shuffle, a round of *)
(* the file uses each opening once before the next round, with the next    *)
(* transform, begins.                                                      *)
(***************************************************************************)
THEOREM RoundsOfTheFile == Spec => []EachRoundUsesEveryLineOnce
<1>1. ASSUME IInv, left = 0, NEW repeat \in BOOLEAN, NEW k \in DOMAIN jobs
      PROVE  LET use == OpeningUse(repeat, k)
                 earlier == {m \in 1 .. k - 1 :
                   OpeningIndex(repeat, m - 1) # OpeningIndex(repeat, k - 1)}
                 used == {OpeningUse(repeat, m) : m \in earlier}
             IN  /\ use \notin used
                 /\ use[2] > 0 => (0 .. Len(index) - 1) \X {use[2] - 1} \subseteq used
  <2> DEFINE use == OpeningUse(repeat, k)
             earlier == {m \in 1 .. k - 1 :
               OpeningIndex(repeat, m - 1) # OpeningIndex(repeat, k - 1)}
             used == {OpeningUse(repeat, m) : m \in earlier}
  <2>1. k \in Nat \ {0}
    BY <1>1 DEF IInv, TypeInv
  <2>2. ASSUME NEW m \in earlier
        PROVE  OpeningUse(repeat, m) # use
    <3>1. m \in Nat \ {0}
      BY <2>1
    <3> QED
      BY <1>1, <2>1, <2>2, <3>1, UsesDiffer
  <2>3. ASSUME use[2] > 0, NEW u \in (0 .. Len(index) - 1) \X {use[2] - 1}
        PROVE  u \in used
    <3>1. PICK l \in 0 .. Len(index) - 1 : u = <<l, use[2] - 1>>
      BY <2>3
    <3>2. \E m \in 1 .. k - 1 :
            /\ OpeningIndex(repeat, m - 1) # OpeningIndex(repeat, k - 1)
            /\ <<l, use[2] - 1>> = OpeningUse(repeat, m)
      BY <1>1, <2>1, <2>3, RoundIsComplete, ZenonT(30)
    <3> QED
      BY <3>1, <3>2
  <2> QED
    BY <2>2, <2>3
<1>2. IInv => EachRoundUsesEveryLineOnce
  BY <1>1 DEF EachRoundUsesEveryLineOnce
<1> QED
  BY <1>2, Invariance, PTL
=============================================================================
