-------------------------- MODULE TournamentProofs --------------------------
(***************************************************************************)
(* Proofs about Tournament for any number of workers, engines, rounds and  *)
(* games.  IInv is the inductive invariant: what GamesDealtOnce says of    *)
(* the games in play needs that games not yet dealt have no result, and    *)
(* the table of results needs that a worker that is going to add a result  *)
(* has one.                                                                *)
(***************************************************************************)
EXTENDS Tournament, LibraryProofs

\* The games not yet dealt have no result.
UndealtGamesUnscored == \A k \in Game : k >= idx => score[k] = NotScored

\* A worker that saves or adds a result has played.
OutcomeKnown ==
  \A w \in Worker :
    pc[w] \in {"pgn", "sgf", "msg", "sample", "score"} => wld[w] \in Outcome

IInv == TypeOK /\ GamesDealtOnce /\ UndealtGamesUnscored /\ OutcomeKnown

(***************************************************************************)
(* What the proofs need of the schedule: the size of the table, and that   *)
(* the jobs of the games point into results[] and name engines.            *)
(***************************************************************************)
LEMMA ScheduleFacts ==
  /\ N \in Nat
  /\ \A k \in Game : Job(C, k).pair \in Pair /\ Job(C, k).ei \in Engine \X Engine
<1>1. Valid(C)
  BY TournamentAssumption DEF Valid, C
<1>2. N \in Nat
  BY <1>1, NumJobsType DEF N
<1>3. ASSUME NEW k \in Game
      PROVE  Job(C, k).pair \in Pair /\ Job(C, k).ei \in Engine \X Engine
  <2>1. C.engines = Engines
    BY DEF C
  <2> QED
    BY <1>1, <2>1, JobType DEF Game, N, Pair, Engine
<1> QED
  BY <1>2, <1>3

\* A set of places in which a worker has finished its game.
SavingPlaces == {"pgn", "sgf", "msg", "sample", "score"}

(***************************************************************************)
(* Where a worker goes with a finished game.                               *)
(***************************************************************************)
LEMMA SavingPlacesType ==
  /\ FromPgn \in SavingPlaces
  /\ \A f \in Files : f \in SavingPlaces /\ AfterPush(f) \in SavingPlaces
<1>1. FromSample \in SavingPlaces
  BY DEF FromSample, SavingPlaces
<1>2. FromMsg \in SavingPlaces
  BY <1>1 DEF FromMsg, SavingPlaces
<1>3. FromSgf \in SavingPlaces
  BY <1>2 DEF FromSgf, SavingPlaces
<1>4. FromPgn \in SavingPlaces
  BY <1>3 DEF FromPgn, SavingPlaces
<1>5. ASSUME NEW f \in Files
      PROVE  f \in SavingPlaces /\ AfterPush(f) \in SavingPlaces
  <2>1. f \in {"pgn", "sgf", "msg"}
    BY TournamentAssumption
  <2> QED
    BY <1>1, <1>2, <1>3, <2>1 DEF AfterPush, SavingPlaces
<1> QED
  BY <1>4, <1>5

(***************************************************************************)
(* Nothing has been dealt or added when the threads are started.           *)
(***************************************************************************)
LEMMA InitIInv == Init => IInv
<1> SUFFICES ASSUME Init PROVE IInv
  OBVIOUS
<1> USE ScheduleFacts DEF Init
<1>1. QueueTypeOK
  BY DEF QueueTypeOK, ZeroCount
<1>2. LocalsTypeOK
  BY DEF LocalsTypeOK, ZeroCount, Places
<1>3. RecordsTypeOK
  <2>1. <<>> \in Seq(Game)
    OBVIOUS
  <2>2. NewWriter \in [buf : Seq(Game), idxNext : Nat, out : Seq(Game)]
    BY <2>1 DEF NewWriter
  <2> QED
    BY <2>1, <2>2 DEF RecordsTypeOK
<1>4. TypeOK
  BY <1>1, <1>2, <1>3 DEF TypeOK
<1>5. GamesDealtOnce
  BY DEF GamesDealtOnce, Playing
<1>6. UndealtGamesUnscored /\ OutcomeKnown
  BY DEF UndealtGamesUnscored, OutcomeKnown
<1> QED
  BY <1>4, <1>5, <1>6 DEF IInv

(***************************************************************************)
(* A step of a worker keeps the types.                                     *)
(***************************************************************************)
LEMMA WorkerTypes ==
  ASSUME IInv, NEW w \in Worker, WorkerStep(w)
  PROVE  TypeOK'
<1> USE ScheduleFacts, SavingPlacesType
<1> USE DEF IInv, TypeOK, QueueTypeOK, LocalsTypeOK, RecordsTypeOK, queue, records,
            GoTo, At
<1>1. ASSUME Pop(w) PROVE TypeOK'
  <2>1. idx' \in 0 .. N
    BY <1>1 DEF Pop
  <2>3. QueueTypeOK'
    BY <1>1, <2>1 DEF Pop
  <2>2. LocalsTypeOK'
    <3>1. idx < N => idx \in Game
      BY DEF Game
    <3>2. job' \in [Worker -> Game \cup {NoJob}]
      BY <1>1, <3>1 DEF Pop
    <3>3. pc' \in [Worker -> Places]
      BY <1>1 DEF Pop, Places
    <3>4. UNCHANGED <<ei, wld, count>>
      BY <1>1 DEF Pop
    <3> QED
      BY <3>2, <3>3, <3>4
  <2> QED
    BY <1>1, <2>2, <2>3 DEF Pop
<1>2. ASSUME NEW i \in 1 .. 2, Start(w, i) PROVE TypeOK'
  <2>1. job[w] \in Game
    BY <1>2 DEF Start, StartPlace, GamesDealtOnce, Playing
  <2>2. Job(C, job[w]).ei[i] \in Engine
    BY <2>1
  <2>3. QueueTypeOK'
    BY <1>2, <2>2 DEF Start
  <2>4. LocalsTypeOK'
    <3>1. ei' \in [Worker -> [1 .. 2 -> Engine \cup {NoEngine}]]
      <4> DEFINE e == Job(C, job[w]).ei[i]
      <4>1. ei' = [ei EXCEPT ![w][i] = e] \/ ei' = ei
        BY <1>2 DEF Start
      <4>2. e \in Engine
        BY <2>2
      <4> HIDE DEF e
      <4>3. ei[w] \in [1 .. 2 -> Engine \cup {NoEngine}]
        OBVIOUS
      <4>4. [ei[w] EXCEPT ![i] = e] \in [1 .. 2 -> Engine \cup {NoEngine}]
        BY <4>2, <4>3, Zenon
      <4> QED
        BY <4>1, <4>4, Zenon
    <3>2. pc' \in [Worker -> Places]
      BY <1>2 DEF Start, AfterStart, Places
    <3> QED
      BY <1>2, <3>1, <3>2 DEF Start
  <2> QED
    BY <1>2, <2>3, <2>4 DEF Start
<1>3. ASSUME Play(w) PROVE TypeOK'
  <2>1. LocalsTypeOK'
    BY <1>3 DEF Play, Places, SavingPlaces
  <2> QED
    BY <1>3, <2>1 DEF Play
<1>4. ASSUME NEW f \in Files, PushGame(w, f) PROVE TypeOK'
  <2>1. job[w] \in Game
    BY <1>4 DEF PushGame, GamesDealtOnce, Playing, SavingPlaces
  <2>2. writers[f] \in Writers(Game)
    BY DEF Writers
  <2>3. Push(writers[f], job[w]) \in [buf : Seq(Game), idxNext : Nat, out : Seq(Game)]
    BY <2>1, <2>2, WriterOperationsType DEF Writers
  <2>4. RecordsTypeOK'
    BY <1>4, <2>3 DEF PushGame
  <2>5. LocalsTypeOK'
    BY <1>4 DEF PushGame, Places, SavingPlaces
  <2> QED
    BY <1>4, <2>4, <2>5 DEF PushGame
<1>5. ASSUME ExportSamples(w) PROVE TypeOK'
  <2>1. job[w] \in Game
    BY <1>5 DEF ExportSamples, GamesDealtOnce, Playing
  <2>2. Append(samples, job[w]) \in Seq(Game)
    BY <2>1, AppendProperties
  <2>3. LocalsTypeOK'
    BY <1>5 DEF ExportSamples, Places
  <2> QED
    BY <1>5, <2>2, <2>3 DEF ExportSamples
<1>6. ASSUME AddResult(w) PROVE TypeOK'
  <2> DEFINE p == Job(C, job[w]).pair
  <2>1. /\ job[w] \in Game /\ p \in Pair
        /\ wld[w] \in Outcome
    BY <1>6 DEF AddResult, GamesDealtOnce, Playing, OutcomeKnown
  <2>2. /\ results' = [results EXCEPT ![p][wld[w]] = @ + 1]
        /\ completed' = completed + 1
        /\ count' = [count EXCEPT ![w] = results'[p]]
        /\ score' = [score EXCEPT ![job[w]] = wld[w]]
    BY <1>6 DEF AddResult
  <2> HIDE DEF p
  <2>3. results' \in [Pair -> [Outcome -> Nat]]
    BY <2>1, <2>2
  <2>4. count' \in [Worker -> [Outcome -> Nat]]
    BY <2>1, <2>2, <2>3
  <2>5. QueueTypeOK'
    BY <1>6, <2>2, <2>3 DEF AddResult
  <2>6. LocalsTypeOK'
    BY <1>6, <2>4 DEF AddResult, Places
  <2>7. score' \in [Game -> Outcome \cup {NotScored}]
    BY <2>1, <2>2
  <2> QED
    BY <1>6, <2>5, <2>6, <2>7 DEF AddResult
<1>7. ASSUME SprtUpdate(w) PROVE TypeOK'
  <2>1. QueueTypeOK'
    BY <1>7 DEF SprtUpdate
  <2>2. LocalsTypeOK'
    BY <1>7 DEF SprtUpdate, Places
  <2> QED
    BY <1>7, <2>1, <2>2 DEF SprtUpdate
<1>8. ASSUME PrintResults(w) PROVE TypeOK'
  <2>1. LocalsTypeOK'
    BY <1>8 DEF PrintResults, Places, ZeroCount
  <2> QED
    BY <1>8, <2>1 DEF PrintResults
<1>9. ASSUME Quit(w) PROVE TypeOK'
  <2>1. LocalsTypeOK'
    BY <1>9 DEF Quit, Places
  <2> QED
    BY <1>9, <2>1 DEF Quit
<1> QED
  BY <1>1, <1>2, <1>3, <1>4, <1>5, <1>6, <1>7, <1>8, <1>9 DEF WorkerStep

(***************************************************************************)
(* A step that is not one of a worker's loop changes only the process, the *)
(* main thread, the files that are closed, or ends a worker (DIE).         *)
(***************************************************************************)
OtherStep ==
  \/ \E w \in Worker : Die(w)
  \/ MainStep \/ UseAfterDestroy \/ Interrupt \/ Terminated \/ UNCHANGED vars

\* Next, or a stuttering step, is one of the two kinds.
LEMMA StepCases ==
  ASSUME [Next]_vars
  PROVE  (\E w \in Worker : WorkerStep(w)) \/ OtherStep
BY DEF Next, OtherStep

\* Such a step keeps the types.
LEMMA OtherTypes ==
  ASSUME IInv, OtherStep
  PROVE  TypeOK'
<1> USE DEF IInv, TypeOK, QueueTypeOK, LocalsTypeOK, RecordsTypeOK, queue, locals,
            records, GoTo, At
<1>1. CASE \E w \in Worker : Die(w)
  BY <1>1 DEF Die, Places
<1>2. CASE MainPoll \/ MainJoin
  BY <1>2 DEF MainPoll, MainJoin
<1>3. CASE MainDestroy
  <2>1. ASSUME NEW f \in Files
        PROVE  CloseWriter(writers[f])
                 \in [buf : Seq(Game), idxNext : Nat, out : Seq(Game)]
    <3>1. writers[f] \in Writers(Game)
      BY DEF Writers
    <3> QED
      BY <3>1, WriterOperationsType DEF Writers
  <2>2. RecordsTypeOK'
    BY <1>3, <2>1 DEF MainDestroy
  <2> QED
    BY <1>3, <2>2 DEF MainDestroy
<1>4. CASE UseAfterDestroy \/ Interrupt
  BY <1>4 DEF UseAfterDestroy, Interrupt
<1>5. CASE Terminated \/ UNCHANGED vars
  BY <1>5 DEF Terminated, vars
<1> QED
  BY <1>1, <1>2, <1>3, <1>4, <1>5 DEF OtherStep, MainStep

(***************************************************************************)
(* A worker's step keeps the games apart: only Pop takes a game, the one   *)
(* at idx, which nobody has as every game in play lies before idx.         *)
(***************************************************************************)
LEMMA WorkerKeepsGamesDealtOnce ==
  ASSUME IInv, NEW w \in Worker, WorkerStep(w)
  PROVE  GamesDealtOnce'
<1> USE ScheduleFacts, SavingPlacesType
<1> USE DEF IInv, TypeOK, QueueTypeOK, LocalsTypeOK, GamesDealtOnce, queue, GoTo,
            At, Playing
<1>1. CASE Pop(w)
  <2>1. idx < N => idx \in Game /\ score[idx] = NotScored
    BY DEF Game, UndealtGamesUnscored
  <2>2. \A v \in Worker : pc[v] \in Playing => job[v] \in Game /\ job[v] < idx
    OBVIOUS
  <2>3. CASE idx < N
    <3>1. /\ job' = [job EXCEPT ![w] = idx] /\ pc' = [pc EXCEPT ![w] = "start1"]
          /\ idx' = idx + 1 /\ score' = score
      BY <1>1, <2>3 DEF Pop
    <3>2. \A v \in Worker : pc[v] \in Playing => job[v] # idx
      BY <2>2 DEF Game
    <3>3. \A v \in Worker : job'[v] = IF v = w THEN idx ELSE job[v]
      BY <3>1
    <3>4. \A v \in Worker \ {w} : pc'[v] \in Playing => pc[v] \in Playing
      BY <3>1
    <3>5. ASSUME NEW u \in Worker, pc'[u] \in Playing
          PROVE  /\ job'[u] \in Game /\ job'[u] < idx' /\ score[job'[u]] = NotScored
                 /\ \A v \in Worker \ {u} : pc'[v] \in Playing => job'[v] # job'[u]
      <4>1. CASE u = w
        BY <2>1, <2>3, <3>1, <3>2, <3>3, <3>4, <4>1
      <4>2. CASE u # w
        <5>1. pc[u] \in Playing /\ job'[u] = job[u]
          BY <3>3, <3>4, <3>5, <4>2
        <5>2. job[u] < idx + 1
          BY <2>2, <5>1 DEF Game
        <5> QED
          BY <2>2, <3>1, <3>2, <3>3, <3>4, <5>1, <5>2
      <4> QED
        BY <4>1, <4>2
    <3> QED
      BY <3>1, <3>5
  <2>4. CASE ~(idx < N)
    BY <1>1, <2>4 DEF Pop
  <2> QED
    BY <2>3, <2>4
<1>2. ASSUME NEW i \in 1 .. 2, Start(w, i) PROVE GamesDealtOnce'
  BY <1>2 DEF Start, StartPlace, AfterStart
<1>3. CASE Play(w)
  BY <1>3 DEF Play, SavingPlaces
<1>4. ASSUME NEW f \in Files, PushGame(w, f) PROVE GamesDealtOnce'
  BY <1>4 DEF PushGame, SavingPlaces
<1>5. CASE ExportSamples(w)
  BY <1>5 DEF ExportSamples
<1>6. CASE AddResult(w)
  <2>1. /\ pc' = [pc EXCEPT ![w] = IF Sprt THEN "sprt" ELSE "print"]
        /\ score' = [score EXCEPT ![job[w]] = wld[w]]
        /\ pc[w] = "score" /\ job' = job /\ idx' = idx
    BY <1>6 DEF AddResult
  <2> QED
    BY <2>1
<1>7. CASE SprtUpdate(w)
  <2>1. idx' \in {idx, N} /\ pc' = [pc EXCEPT ![w] = "print"]
        /\ job' = job /\ score' = score
    BY <1>7 DEF SprtUpdate
  <2> QED
    BY <2>1 DEF Game
<1>8. CASE PrintResults(w)
  BY <1>8 DEF PrintResults
<1>9. CASE Quit(w)
  BY <1>9 DEF Quit
<1> QED
  BY <1>1, <1>2, <1>3, <1>4, <1>5, <1>6, <1>7, <1>8, <1>9 DEF WorkerStep

(***************************************************************************)
(* A worker's step gives no result to a game not yet dealt: AddResult's    *)
(* game lies before idx, and idx never decreases.                          *)
(***************************************************************************)
LEMMA WorkerKeepsUndealtUnscored ==
  ASSUME IInv, NEW w \in Worker, WorkerStep(w)
  PROVE  UndealtGamesUnscored'
<1> USE ScheduleFacts
<1> USE DEF IInv, TypeOK, QueueTypeOK, UndealtGamesUnscored, queue, At
<1>1. CASE AddResult(w)
  <2>1. job[w] \in Game /\ job[w] < idx
    BY <1>1 DEF AddResult, GamesDealtOnce, Playing
  <2>2. score' = [score EXCEPT ![job[w]] = wld[w]] /\ idx' = idx
    BY <1>1 DEF AddResult
  <2> QED
    BY <2>1, <2>2 DEF Game
<1>2. CASE ~AddResult(w)
  <2>1. score' = score /\ idx' \in {idx, idx + 1, N}
    BY <1>2 DEF WorkerStep, Pop, Start, Play, PushGame, ExportSamples, SprtUpdate,
                PrintResults, Quit
  <2> QED
    BY <2>1 DEF Game
<1> QED
  BY <1>1, <1>2

(***************************************************************************)
(* A worker's step to a place where a game is saved or added is Play, which *)
(* sets the outcome, or comes from such a place.                           *)
(***************************************************************************)
LEMMA WorkerKeepsOutcomeKnown ==
  ASSUME IInv, NEW w \in Worker, WorkerStep(w)
  PROVE  OutcomeKnown'
<1> USE SavingPlacesType
<1> USE DEF IInv, TypeOK, LocalsTypeOK, OutcomeKnown, GoTo, At, queue
<1>1. CASE Pop(w)
  BY <1>1 DEF Pop
<1>2. ASSUME NEW i \in 1 .. 2, Start(w, i) PROVE OutcomeKnown'
  BY <1>2 DEF Start, AfterStart
<1>3. CASE Play(w)
  BY <1>3 DEF Play
<1>4. ASSUME NEW f \in Files, PushGame(w, f) PROVE OutcomeKnown'
  BY <1>4 DEF PushGame, SavingPlaces
<1>5. CASE ExportSamples(w)
  BY <1>5 DEF ExportSamples
<1>6. CASE AddResult(w)
  BY <1>6 DEF AddResult
<1>7. CASE SprtUpdate(w)
  BY <1>7 DEF SprtUpdate
<1>8. CASE PrintResults(w)
  BY <1>8 DEF PrintResults
<1>9. CASE Quit(w)
  BY <1>9 DEF Quit
<1> QED
  BY <1>1, <1>2, <1>3, <1>4, <1>5, <1>6, <1>7, <1>8, <1>9 DEF WorkerStep

\* A step outside of the workers' loops keeps the three of them.
LEMMA OtherKeepsIInv ==
  ASSUME IInv, OtherStep
  PROVE  (GamesDealtOnce /\ UndealtGamesUnscored /\ OutcomeKnown)'
<1> USE DEF IInv, queue, locals, records
<1>1. /\ idx' = idx /\ job' = job /\ score' = score /\ wld' = wld
      /\ pc' = pc \/ \E w \in Worker : pc' = [pc EXCEPT ![w] = "exit"]
  BY DEF OtherStep, Die, MainStep, MainPoll, MainJoin, MainDestroy, UseAfterDestroy,
         Interrupt, Terminated, vars, GoTo
<1>2. \A v \in Worker : pc'[v] = pc[v] \/ pc'[v] = "exit"
  BY <1>1 DEF TypeOK, LocalsTypeOK
<1>3. GamesDealtOnce'
  BY <1>1, <1>2 DEF GamesDealtOnce, Playing
<1> QED
  BY <1>1, <1>2, <1>3 DEF UndealtGamesUnscored, OutcomeKnown

(***************************************************************************)
(* IInv is inductive.    *)
(***************************************************************************)
LEMMA NextIInv == IInv /\ [Next]_vars => IInv'
<1> SUFFICES ASSUME IInv, [Next]_vars PROVE IInv'
  OBVIOUS
<1>1. ASSUME NEW w \in Worker, WorkerStep(w) PROVE IInv'
  BY <1>1, WorkerTypes, WorkerKeepsGamesDealtOnce, WorkerKeepsUndealtUnscored,
     WorkerKeepsOutcomeKnown DEF IInv
<1>2. ASSUME OtherStep PROVE IInv'
  BY <1>2, OtherTypes, OtherKeepsIInv DEF IInv
<1> QED
  BY <1>1, <1>2, StepCases

(***************************************************************************)
(* IInv holds throughout every run of a tournament.                        *)
(***************************************************************************)
THEOREM Invariance == Spec => []IInv
<1>1. Init => IInv
  BY InitIInv
<1>2. IInv /\ [Next]_vars => IInv'
  BY NextIInv
<1> QED
  BY <1>1, <1>2, PTL DEF Spec

(***************************************************************************)
(* The variables keep their types; no table of the queue is indexed        *)
(* outside.                                                                *)
(***************************************************************************)
THEOREM TypeCorrectness == Spec => []TypeOK
<1>1. IInv => TypeOK
  BY DEF IInv
<1> QED
  BY <1>1, Invariance, PTL

(***************************************************************************)
(* No two workers ever play the same game, and none plays a game that has  *)
(* a result.                                                               *)
(***************************************************************************)
THEOREM DealtOnce == Spec => []GamesDealtOnce
<1>1. IInv => GamesDealtOnce
  BY DEF IInv
<1> QED
  BY <1>1, Invariance, PTL

-----------------------------------------------------------------------------
(***************************************************************************)
(* The games are finitely many, and so are those with a result.            *)
(***************************************************************************)
LEMMA GamesFinite ==
  /\ IsFiniteSet(Game)
  /\ \A S \in SUBSET Game : IsFiniteSet(S) /\ Cardinality(S) \in Nat
<1>1. 0 \in Int /\ N - 1 \in Int
  BY ScheduleFacts
<1>2. IsFiniteSet(Game)
  BY <1>1, FS_Interval DEF Game
<1> QED
  BY <1>2, FS_Subset, FS_CardinalityType

(***************************************************************************)
(* Adding the result of a game that had none: its pair and outcome get one *)
(* more game, and no other pair or outcome does.                           *)
(***************************************************************************)
LEMMA AddResultKeepsTable ==
  ASSUME IInv, ResultsAreTheGames, NEW w \in Worker, AddResult(w)
  PROVE  ResultsAreTheGames'
<1> DEFINE k == job[w]
           q == Job(C, k).pair
           x == wld[w]
           Scored == {g \in Game : score[g] # NotScored}
<1>1. k \in Game /\ score[k] = NotScored /\ q \in Pair /\ x \in Outcome
  BY ScheduleFacts DEF IInv, GamesDealtOnce, OutcomeKnown, AddResult, At, Playing
<1>2. /\ score \in [Game -> Outcome \cup {NotScored}]
      /\ results \in [Pair -> [Outcome -> Nat]] /\ completed \in Nat
  BY DEF IInv, TypeOK, QueueTypeOK
<1>3. /\ score' = [score EXCEPT ![k] = x]
      /\ results' = [results EXCEPT ![q][x] = @ + 1]
      /\ completed' = completed + 1
  BY DEF AddResult
<1>4. x # NotScored
  BY <1>1 DEF Outcome, NotScored, LOSS, DRAW, WIN
<1> HIDE DEF k, q, x
<1>5. ASSUME NEW p \in Pair, NEW o \in Outcome
      PROVE  results'[p][o] = Cardinality(ScoredGames(p, o)')
  <2>1. ScoredGames(p, o) \in SUBSET Game
    BY DEF ScoredGames
  <2>2. results[p][o] = Cardinality(ScoredGames(p, o))
    BY DEF ResultsAreTheGames
  <2>3. CASE p = q /\ o = x
    <3>1. ScoredGames(p, o)' = ScoredGames(p, o) \cup {k}
      BY <1>1, <1>2, <1>3, <2>3 DEF ScoredGames, q
    <3>2. k \notin ScoredGames(p, o)
      BY <1>1, <1>4, <2>3 DEF ScoredGames
    <3>3. Cardinality(ScoredGames(p, o) \cup {k}) = Cardinality(ScoredGames(p, o)) + 1
      BY <2>1, <3>2, GamesFinite, FS_AddElement
    <3>4. results'[p][o] = results[p][o] + 1
      BY <1>1, <1>2, <1>3, <2>3
    <3> QED
      BY <2>2, <3>1, <3>3, <3>4
  <2>4. CASE ~(p = q /\ o = x)
    <3>1. ScoredGames(p, o)' = ScoredGames(p, o)
      <4>1. ASSUME NEW g \in Game
            PROVE  (Job(C, g).pair = p /\ score'[g] = o)
                     <=> (Job(C, g).pair = p /\ score[g] = o)
        <5>1. CASE g = k
          <6>1. score'[g] = x /\ score[g] = NotScored
            BY <1>1, <1>2, <1>3, <5>1
          <6>2. o # NotScored
            BY DEF Outcome, NotScored, LOSS, DRAW, WIN
          <6> QED
            BY <2>4, <5>1, <6>1, <6>2 DEF q
        <5>2. CASE g # k
          BY <1>1, <1>2, <1>3, <5>2
        <5> QED
          BY <5>1, <5>2
      <4> QED
        BY <4>1 DEF ScoredGames
    <3>2. results'[p][o] = results[p][o]
      BY <1>1, <1>2, <1>3, <2>4
    <3> QED
      BY <2>2, <3>1, <3>2
  <2> QED
    BY <2>3, <2>4
<1>6. completed' = Cardinality(Scored')
  <2>1. Scored \in SUBSET Game /\ k \notin Scored
    BY <1>1
  <2>2. Scored' = Scored \cup {k}
    BY <1>1, <1>2, <1>3, <1>4
  <2>3. Cardinality(Scored \cup {k}) = Cardinality(Scored) + 1
    BY <2>1, GamesFinite, FS_AddElement
  <2>4. completed = Cardinality(Scored)
    BY DEF ResultsAreTheGames
  <2> QED
    BY <1>3, <2>2, <2>3, <2>4
<1> QED
  BY <1>5, <1>6 DEF ResultsAreTheGames

(***************************************************************************)
(* The table of results is that of the games at every moment.              *)
(***************************************************************************)
THEOREM ResultsCorrect == Spec => []ResultsAreTheGames
<1>1. Init => ResultsAreTheGames
  <2> SUFFICES ASSUME Init PROVE ResultsAreTheGames
    OBVIOUS
  <2>1. \A p \in Pair, o \in Outcome : ScoredGames(p, o) = {}
    BY DEF Init, ScoredGames, Outcome, NotScored, LOSS, DRAW, WIN
  <2>2. {k \in Game : score[k] # NotScored} = {}
    BY DEF Init
  <2>3. \A p \in Pair, o \in Outcome : results[p][o] = 0
    BY DEF Init, ZeroCount
  <2>4. completed = 0
    BY DEF Init
  <2> QED
    BY <2>1, <2>2, <2>3, <2>4, FS_EmptySet DEF ResultsAreTheGames
<1>2. IInv /\ ResultsAreTheGames /\ [Next]_vars => ResultsAreTheGames'
  <2> SUFFICES ASSUME IInv, ResultsAreTheGames, [Next]_vars
               PROVE  ResultsAreTheGames'
    OBVIOUS
  <2>1. CASE \E w \in Worker : AddResult(w)
    BY <2>1, AddResultKeepsTable
  <2>2. CASE ~\E w \in Worker : AddResult(w)
    <3>1. results' = results /\ completed' = completed /\ score' = score
      BY <2>2, StepCases
         DEF WorkerStep, Pop, Start, Play, PushGame, ExportSamples, SprtUpdate,
             PrintResults, Quit, OtherStep, Die, MainStep, MainPoll, MainJoin,
             MainDestroy, UseAfterDestroy, Interrupt, Terminated, vars, queue
    <3> QED
      BY <3>1 DEF ResultsAreTheGames, ScoredGames
  <2> QED
    BY <2>1, <2>2
<1> QED
  BY <1>1, <1>2, Invariance, PTL DEF Spec

(***************************************************************************)
(* Results are never taken back and the next index never decreases.        *)
(***************************************************************************)
THEOREM ResultsGrow == Spec => ResultsOnlyGrow
<1> DEFINE Grow ==
             /\ idx' >= idx /\ completed' >= completed
             /\ \A p \in Pair, o \in Outcome : results'[p][o] >= results[p][o]
<1>1. IInv /\ [Next]_vars => [Grow]_vars
  <2> SUFFICES ASSUME IInv, [Next]_vars PROVE Grow
    OBVIOUS
  <2> USE ScheduleFacts DEF IInv, TypeOK, QueueTypeOK
  <2>1. CASE \E w \in Worker : AddResult(w)
    <3>1. PICK w \in Worker : AddResult(w)
      BY <2>1
    <3> DEFINE q == Job(C, job[w]).pair
               x == wld[w]
    <3>2. q \in Pair /\ x \in Outcome
      BY <3>1 DEF GamesDealtOnce, OutcomeKnown, AddResult, At, Playing
    <3>3. /\ results' = [results EXCEPT ![q][x] = @ + 1]
          /\ completed' = completed + 1 /\ idx' = idx
      BY <3>1 DEF AddResult
    <3> HIDE DEF q, x
    <3> QED
      BY <3>2, <3>3
  <2>2. CASE ~\E w \in Worker : AddResult(w)
    <3>1. /\ results' = results /\ completed' = completed
          /\ idx' \in {idx, idx + 1, N}
      BY <2>2, StepCases
         DEF WorkerStep, Pop, Start, Play, PushGame, ExportSamples, SprtUpdate,
             PrintResults, Quit, OtherStep, Die, MainStep, MainPoll, MainJoin,
             MainDestroy, UseAfterDestroy, Interrupt, Terminated, vars, queue
    <3> QED
      BY <3>1
  <2> QED
    BY <2>1, <2>2
<1> QED
  BY <1>1, Invariance, PTL DEF Spec, ResultsOnlyGrow

(***************************************************************************)
(* When main has returned and the destructors run, every worker has ended. *)
(***************************************************************************)
THEOREM NobodyUsesTheDestroyed == Spec => []DestroyedAlone
<1>1. Init => DestroyedAlone
  BY DEF Init, DestroyedAlone
<1>2. DestroyedAlone /\ [Next]_vars => DestroyedAlone'
  <2> SUFFICES ASSUME DestroyedAlone, [Next]_vars PROVE DestroyedAlone'
    OBVIOUS
  <2>1. CASE \E w \in Worker : WorkerStep(w)
    BY <2>1 DEF WorkerStep, Pop, Start, Play, PushGame, ExportSamples, AddResult,
                SprtUpdate, PrintResults, Quit, At, Alive, DestroyedAlone
  <2>2. CASE OtherStep
    BY <2>2 DEF OtherStep, Die, MainStep, MainPoll, MainJoin, MainDestroy,
                UseAfterDestroy, Interrupt, Terminated, vars, locals, DestroyedAlone,
                Alive, At
  <2> QED
    BY <2>1, <2>2, StepCases
<1> QED
  BY <1>1, <1>2, PTL DEF Spec

-----------------------------------------------------------------------------
(***************************************************************************)
(* The engines a worker carries along: it has started the first or both    *)
(* engines of its game, and the queue knows the name of each.              *)
(***************************************************************************)
EnginesCarried ==
  \A w \in Worker :
    /\ pc[w] = "start2" => ei[w][1] = Job(C, job[w]).ei[1]
    /\ pc[w] \in {"play"} \cup SavingPlaces => ei[w] = Job(C, job[w]).ei

NamesTold ==
  \A w \in Worker : \A i \in 1 .. 2 : ei[w][i] # NoEngine => ei[w][i] \in names

CarryInv == EnginesCarried /\ NamesTold /\ PrintedNamesAreKnown

\* A pair of engines is a function on 1 .. 2.
LEMMA PairAsFunction ==
  ASSUME NEW S, NEW f \in [1 .. 2 -> S], NEW A, NEW t \in A \X A,
         f[1] = t[1], f[2] = t[2]
  PROVE  f = t
OBVIOUS

(***************************************************************************)
(* A start puts the job's engine at its place; the second of them leaves   *)
(* the first as it is.                                                     *)
(***************************************************************************)
LEMMA StartCarries ==
  ASSUME IInv, CarryInv, NEW w \in Worker, NEW i \in 1 .. 2, Start(w, i)
  PROVE  CarryInv'
<1> DEFINE e == Job(C, job[w]).ei[i]
<1>1. job[w] \in Game /\ ei[w] \in [1 .. 2 -> Engine \cup {NoEngine}]
  BY DEF IInv, TypeOK, LocalsTypeOK, Start, StartPlace, At, GamesDealtOnce, Playing
<1>2. Job(C, job[w]).ei \in Engine \X Engine /\ e \in Engine /\ e # NoEngine
  BY <1>1, ScheduleFacts DEF Engine, NoEngine
<1>3. /\ \A v \in Worker \ {w} : ei'[v] = ei[v] /\ pc'[v] = pc[v]
      /\ \A j \in 1 .. 2 : ei'[w][j] = IF j = i THEN e ELSE ei[w][j]
      /\ ei'[w] \in [1 .. 2 -> Engine \cup {NoEngine}]
      /\ pc[w] = StartPlace[i] /\ pc'[w] = AfterStart[i]
      /\ names' = names \cup {e} \/ (names' = names /\ e = ei[w][i])
      /\ job' = job /\ results' = results
  <2> HIDE DEF e
  <2> QED
    BY <1>1, <1>2 DEF IInv, TypeOK, LocalsTypeOK, Start, At, GoTo, e
<1>4. NamesTold'
  BY <1>2, <1>3 DEF CarryInv, NamesTold
<1>5. EnginesCarried'
  <2>1. CASE i = 1
    BY <1>3, <2>1 DEF CarryInv, EnginesCarried, StartPlace, AfterStart, SavingPlaces
  <2>2. CASE i = 2
    <3>1. ei'[w] = Job(C, job[w]).ei
      <4>1. ei'[w][1] = Job(C, job[w]).ei[1] /\ ei'[w][2] = Job(C, job[w]).ei[2]
        BY <1>3, <2>2 DEF CarryInv, EnginesCarried, StartPlace
      <4> QED
        BY <1>2, <1>3, <4>1, PairAsFunction
    <3> QED
      BY <1>3, <2>2, <3>1
         DEF CarryInv, EnginesCarried, StartPlace, AfterStart, SavingPlaces
  <2> QED
    BY <2>1, <2>2
<1>6. PrintedNamesAreKnown'
  BY <1>3 DEF CarryInv, PrintedNamesAreKnown
<1> QED
  BY <1>4, <1>5, <1>6 DEF CarryInv

(***************************************************************************)
(* A result is added by a worker that has started both engines of its pair. *)
(***************************************************************************)
LEMMA AddResultCarries ==
  ASSUME IInv, CarryInv, NEW w \in Worker, AddResult(w)
  PROVE  CarryInv'
<1> DEFINE q == Job(C, job[w]).pair
           x == wld[w]
<1>1. /\ job[w] \in Game /\ q \in Pair /\ x \in Outcome
      /\ Job(C, job[w]).ei \in Engine \X Engine
  BY ScheduleFacts DEF IInv, GamesDealtOnce, OutcomeKnown, AddResult, At, Playing
<1>2. /\ results' = [results EXCEPT ![q][x] = @ + 1] /\ names' = names
      /\ ei' = ei /\ job' = job
      /\ pc' = [pc EXCEPT ![w] = IF Sprt THEN "sprt" ELSE "print"]
  BY DEF AddResult, GoTo
<1>3. Encounter(C, q) = Job(C, job[w]).ei
  <2>1. Valid(C)
    BY TournamentAssumption DEF Valid, C
  <2> QED
    BY <1>1, <2>1, JobType DEF Game, N
<1>4. {Encounter(C, q)[1], Encounter(C, q)[2]} \subseteq names
  <2>1. ei[w] = Job(C, job[w]).ei
    BY DEF CarryInv, EnginesCarried, AddResult, At, SavingPlaces
  <2>2. \A i \in 1 .. 2 : ei[w][i] # NoEngine
    BY <1>1, <2>1 DEF Engine, NoEngine
  <2> QED
    BY <1>3, <2>1, <2>2 DEF CarryInv, NamesTold
<1> HIDE DEF q, x
<1>5. PrintedNamesAreKnown'
  <2> SUFFICES ASSUME NEW p \in Pair, NEW o \in Outcome, results'[p][o] > 0
               PROVE  {Encounter(C, p)[1], Encounter(C, p)[2]} \subseteq names
    BY <1>2 DEF PrintedNamesAreKnown
  <2>1. CASE p = q
    BY <1>4, <2>1
  <2>2. CASE p # q
    BY <1>1, <1>2, <2>2 DEF IInv, TypeOK, QueueTypeOK, CarryInv, PrintedNamesAreKnown
  <2> QED
    BY <2>1, <2>2
<1>6. EnginesCarried' /\ NamesTold'
  BY <1>2 DEF IInv, TypeOK, LocalsTypeOK, CarryInv, EnginesCarried, NamesTold, SavingPlaces
<1> QED
  BY <1>5, <1>6 DEF CarryInv

(***************************************************************************)
(* The other steps change neither engines nor names nor results; a worker  *)
(* that takes a game goes to its start, and one that saves it comes from   *)
(* a place where it has both engines.                                      *)
(***************************************************************************)
LEMMA OthersCarry ==
  ASSUME IInv, CarryInv, [Next]_vars,
         ~\E w \in Worker : AddResult(w) \/ \E i \in 1 .. 2 : Start(w, i)
  PROVE  CarryInv'
<1>1. UNCHANGED <<ei, names, results>>
  BY StepCases
     DEF WorkerStep, Pop, Play, PushGame, ExportSamples, SprtUpdate, PrintResults, Quit,
         OtherStep, Die, MainStep, MainPoll, MainJoin, MainDestroy, UseAfterDestroy,
         Interrupt, Terminated, vars, queue, locals
<1>2. ASSUME NEW v \in Worker
      PROVE  /\ pc'[v] # "start2" \/ (pc[v] = "start2" /\ job'[v] = job[v])
             /\ pc'[v] \in {"play"} \cup SavingPlaces =>
                  pc[v] \in {"play"} \cup SavingPlaces /\ job'[v] = job[v]
  <2> USE SavingPlacesType DEF IInv, TypeOK, LocalsTypeOK
  <2>1. ASSUME NEW w \in Worker, WorkerStep(w)
        PROVE  /\ pc'[v] # "start2" \/ (pc[v] = "start2" /\ job'[v] = job[v])
               /\ pc'[v] \in {"play"} \cup SavingPlaces =>
                    pc[v] \in {"play"} \cup SavingPlaces /\ job'[v] = job[v]
    <3> USE DEF At, GoTo, queue
    <3>1. CASE Pop(w)
      BY <3>1 DEF Pop, SavingPlaces
    <3>2. CASE Play(w)
      BY <3>2 DEF Play, SavingPlaces
    <3>3. ASSUME NEW f \in Files, PushGame(w, f)
          PROVE  pc'[v] = pc[v] \/ {pc[v], pc'[v]} \subseteq SavingPlaces
      BY <3>3 DEF PushGame
    <3>4. ASSUME NEW f \in Files, PushGame(w, f) PROVE job' = job
      BY <3>4 DEF PushGame
    <3>5. CASE ExportSamples(w)
      BY <3>5 DEF ExportSamples, SavingPlaces
    <3>6. CASE SprtUpdate(w) \/ PrintResults(w) \/ Quit(w)
      BY <3>6 DEF SprtUpdate, PrintResults, Quit, SavingPlaces
    <3> QED
      BY <2>1, <3>1, <3>2, <3>3, <3>4, <3>5, <3>6 DEF WorkerStep, SavingPlaces
  <2>2. CASE OtherStep
    BY <2>2 DEF OtherStep, Die, MainStep, MainPoll, MainJoin, MainDestroy,
                UseAfterDestroy, Interrupt, Terminated, vars, locals, GoTo, SavingPlaces
  <2> QED
    BY <2>1, <2>2, StepCases
<1>3. EnginesCarried'
  BY <1>1, <1>2 DEF CarryInv, EnginesCarried
<1>4. NamesTold' /\ PrintedNamesAreKnown'
  BY <1>1 DEF CarryInv, NamesTold, PrintedNamesAreKnown
<1> QED
  BY <1>3, <1>4 DEF CarryInv

\* CarryInv holds throughout.
LEMMA Carrying == Spec => []CarryInv
<1>1. Init => CarryInv
  BY DEF Init, CarryInv, EnginesCarried, NamesTold, PrintedNamesAreKnown, SavingPlaces,
         ZeroCount
<1>2. IInv /\ CarryInv /\ [Next]_vars => CarryInv'
  BY StartCarries, AddResultCarries, OthersCarry
<1> QED
  BY <1>1, <1>2, Invariance, PTL DEF Spec

(***************************************************************************)
(* A game is always played by the two engines of its pair, whichever       *)
(* engines the worker had before.                                          *)
(***************************************************************************)
THEOREM EnginesOfThePair == Spec => []PlaysItsPair
<1>1. CarryInv => PlaysItsPair
  BY DEF CarryInv, EnginesCarried, PlaysItsPair, At
<1> QED
  BY <1>1, Carrying, PTL

(***************************************************************************)
(* A pair with a result has two known names.                               *)
(***************************************************************************)
THEOREM NamesKnown == Spec => []PrintedNamesAreKnown
<1>1. CarryInv => PrintedNamesAreKnown
  BY DEF CarryInv
<1> QED
  BY <1>1, Carrying, PTL

-----------------------------------------------------------------------------
(***************************************************************************)
(* The refinement of MatchBook.  A game is in play for the book as long as *)
(* a worker holds it, so that a worker without a game must not seem to     *)
(* hold its last one when DIE stops it.                                    *)
(***************************************************************************)
JobsDealt == \A w \in Worker : job[w] < idx

IdleWorkersScored ==
  \A w \in Worker :
    pc[w] \notin Playing \cup {"exit"} /\ job[w] # NoJob => score[job[w]] # NotScored

BookInv == JobsDealt /\ IdleWorkersScored

\* BookInv is kept.
LEMMA NextBookInv ==
  ASSUME IInv, BookInv, [Next]_vars
  PROVE  BookInv'
<1> USE ScheduleFacts, SavingPlacesType
<1> USE DEF IInv, TypeOK, QueueTypeOK, LocalsTypeOK, At, GoTo, queue, BookInv,
            JobsDealt, IdleWorkersScored, Playing
<1>1. ASSUME NEW w \in Worker, Pop(w) PROVE BookInv'
  <2>1. CASE idx < N
    <3>1. /\ job' = [job EXCEPT ![w] = idx] /\ pc' = [pc EXCEPT ![w] = "start1"]
          /\ idx' = idx + 1 /\ score' = score
      BY <1>1, <2>1 DEF Pop
    <3>2. ASSUME NEW v \in Worker PROVE job'[v] < idx'
      <4>1. idx \in Int /\ job[v] \in Int /\ job[v] < idx
        BY DEF Game, NoJob
      <4> QED
        BY <3>1, <4>1
    <3>3. IdleWorkersScored'
      BY <3>1
    <3> QED
      BY <3>2, <3>3
  <2>2. CASE ~(idx < N)
    BY <1>1, <2>2 DEF Pop
  <2> QED
    BY <2>1, <2>2
<1>2. ASSUME NEW w \in Worker, AddResult(w) PROVE BookInv'
  <2>1. /\ score' = [score EXCEPT ![job[w]] = wld[w]]
        /\ pc' = [pc EXCEPT ![w] = IF Sprt THEN "sprt" ELSE "print"]
        /\ job' = job /\ idx' = idx
    BY <1>2 DEF AddResult
  <2>2. wld[w] # NotScored
    BY <1>2 DEF AddResult, OutcomeKnown, Outcome, NotScored, LOSS, DRAW, WIN
  <2> QED
    BY <2>1, <2>2 DEF Game
<1>3. ASSUME NEW w \in Worker, SprtUpdate(w) PROVE BookInv'
  <2>1. idx' \in {idx, N} /\ pc' = [pc EXCEPT ![w] = "print"]
        /\ job' = job /\ score' = score /\ pc[w] = "sprt"
    BY <1>3 DEF SprtUpdate
  <2> QED
    BY <2>1 DEF Game, NoJob
<1>4. ASSUME NEW w \in Worker, WorkerStep(w) PROVE BookInv'
  <2>1. ASSUME ~Pop(w), ~AddResult(w), ~SprtUpdate(w)
        PROVE  /\ idx' = idx /\ job' = job /\ score' = score
               /\ \A v \in Worker : pc'[v] \in Playing \cup {"exit"}
                                     <=> pc[v] \in Playing \cup {"exit"}
    <3>1. ASSUME NEW i \in 1 .. 2, Start(w, i)
          PROVE  pc[w] \in Playing /\ pc' = [pc EXCEPT ![w] = AfterStart[i]]
                 /\ AfterStart[i] \in Playing
      BY <3>1 DEF Start, StartPlace, AfterStart
    <3>2. CASE Play(w)
      BY <3>2 DEF Play, SavingPlaces
    <3>3. ASSUME NEW f \in Files, PushGame(w, f)
          PROVE  pc[w] \in Playing /\ pc' = [pc EXCEPT ![w] = AfterPush(f)]
                 /\ AfterPush(f) \in Playing
      BY <3>3 DEF PushGame, SavingPlaces
    <3>4. CASE ExportSamples(w) \/ PrintResults(w) \/ Quit(w)
      BY <3>4 DEF ExportSamples, PrintResults, Quit
    <3>5. idx' = idx /\ job' = job /\ score' = score
      BY <1>4, <2>1 DEF WorkerStep, Start, Play, PushGame, ExportSamples, PrintResults, Quit
    <3> QED
      BY <1>4, <2>1, <3>1, <3>2, <3>3, <3>4, <3>5 DEF WorkerStep
  <2> QED
    BY <1>1, <1>2, <1>3, <1>4, <2>1
<1>5. CASE OtherStep
  <2>1. /\ idx' = idx /\ job' = job /\ score' = score
        /\ pc' = pc \/ \E w \in Worker : pc' = [pc EXCEPT ![w] = "exit"]
    BY <1>5 DEF OtherStep, Die, MainStep, MainPoll, MainJoin, MainDestroy,
                UseAfterDestroy, Interrupt, Terminated, vars, locals
  <2> QED
    BY <2>1
<1> QED
  BY <1>4, <1>5, StepCases

\* A worker holds game k.
Held(k) == \E w \in Worker : Holds(w, k)

Status(k) ==
  IF score[k] # NotScored THEN "scored"
  ELSE IF Held(k) THEN "playing"
  ELSE IF k >= idx THEN "waiting" ELSE "cancelled"

\* The guards of StatusOf exclude each other, before and after a step.
LEMMA StatusValue ==
  ASSUME IInv, BookInv, IInv', BookInv', NEW k \in Game
  PROVE  StatusOf(k) = Status(k) /\ StatusOf(k)' = Status(k)'
<1> USE ScheduleFacts DEF Game, Held, Holds, Status, StatusOf
<1>1. /\ k \in Int /\ idx \in Int /\ idx' \in Int
      /\ Held(k) => k < idx
      /\ Held(k)' => k < idx'
  BY DEF IInv, TypeOK, QueueTypeOK, BookInv, JobsDealt
<1>2. StatusOf(k) = Status(k)
  <2>1. CASE score[k] # NotScored
    BY <2>1
  <2>2. CASE score[k] = NotScored /\ Held(k)
    BY <1>1, <2>2
  <2>3. CASE score[k] = NotScored /\ ~Held(k)
    BY <1>1, <2>3
  <2> QED
    BY <2>1, <2>2, <2>3
<1>3. StatusOf(k)' = Status(k)'
  <2>1. CASE score'[k] # NotScored
    BY <2>1
  <2>2. CASE score'[k] = NotScored /\ Held(k)'
    BY <1>1, <2>2
  <2>3. CASE score'[k] = NotScored /\ ~Held(k)'
    BY <1>1, <2>3
  <2> QED
    BY <2>1, <2>2, <2>3
<1> QED
  BY <1>2, <1>3

\* A step that deals and scores nothing changes no status.
LEMMA StatusKept ==
  ASSUME idx' = idx, score' = score, \A k \in Game : Held(k)' <=> Held(k)
  PROVE  UNCHANGED <<[k \in Game |-> StatusOf(k)], score>>
<1>1. \A k \in Game : StatusOf(k)' = StatusOf(k)
  BY DEF StatusOf, Held
<1> QED
  BY <1>1

(***************************************************************************)
(* jq->pop deals the game at idx, the first of those that are waiting.     *)
(***************************************************************************)
LEMMA PopDeals ==
  ASSUME IInv, BookInv, IInv', BookInv', NEW w \in Worker, Pop(w)
  PROVE  [Book!Next]_(Book!vars)
<1> USE ScheduleFacts
<1> USE DEF IInv, TypeOK, QueueTypeOK, LocalsTypeOK, At, GoTo, BookInv, JobsDealt
<1>1. CASE idx < N
  <2>1. /\ job' = [job EXCEPT ![w] = idx] /\ pc' = [pc EXCEPT ![w] = "start1"]
        /\ idx' = idx + 1 /\ score' = score /\ pc[w] = "pop" /\ idx \in Game
    BY <1>1 DEF Pop, Game
  <2>2. ASSUME NEW k \in Game
        PROVE  /\ Held(k) => k < idx
               /\ Held(k)' <=> (Held(k) \/ k = idx)
    <3>1. \A v \in Worker : Holds(v, k) => job[v] = k /\ job[v] < idx /\ v # w
      BY <2>1 DEF Holds, Playing
    <3>2. Holds(w, k)' <=> (k = idx /\ score[k] = NotScored)
      BY <2>1 DEF Holds, Playing
    <3>3. \A v \in Worker \ {w} : Holds(v, k)' <=> Holds(v, k)
      BY <2>1 DEF Holds
    <3>4. score[idx] = NotScored
      BY <2>1 DEF UndealtGamesUnscored, Game
    <3> QED
      BY <3>1, <3>2, <3>3, <3>4 DEF Held
  <2>3. ASSUME NEW k \in Game
        PROVE  /\ StatusOf(k) = "waiting" <=> k >= idx
               /\ StatusOf(k)' = IF k = idx THEN "playing" ELSE StatusOf(k)
    <3>1. k \in Int /\ idx \in Int
      BY DEF Game
    <3>2. k >= idx => score[k] = NotScored /\ ~Held(k)
      BY <2>2, <3>1 DEF UndealtGamesUnscored
    <3>3. StatusOf(k) = Status(k) /\ StatusOf(k)' = Status(k)'
      BY StatusValue
    <3> HIDE DEF At, GoTo
    <3> QED
      BY <2>1, <2>2, <3>1, <3>2, <3>3 DEF Status
  <2>4. Book!Deal(idx)
    <3> DEFINE status == [k \in Game |-> StatusOf(k)]
               next == [k \in Game |-> StatusOf(k)']
    <3>1. {g \in Game : status[g] = "waiting"} = {g \in Game : g >= idx}
      BY <2>3
    <3>2. next = [status EXCEPT ![idx] = "playing"]
      BY <2>1, <2>3
    <3>3. Book!Waiting = {g \in Game : g >= idx}
      BY <3>1 DEF Book!Waiting
    <3>4. idx \in Book!Waiting /\ \A h \in Book!Waiting : idx <= h
      BY <2>1, <3>3 DEF Game
    <3>5. [k \in Game |-> StatusOf(k)]' = [status EXCEPT ![idx] = "playing"]
      BY <3>2
    <3> QED
      BY <2>1, <3>4, <3>5 DEF Book!Deal
  <2> QED
    BY <2>1, <2>4 DEF Book!Next
<1>2. CASE ~(idx < N)
  <2>1. /\ idx' = idx /\ score' = score /\ job' = job
        /\ pc' = [pc EXCEPT ![w] = "quit"] /\ pc[w] = "pop"
    BY <1>2 DEF Pop
  <2>2. \A k \in Game : Held(k)' <=> Held(k)
    BY <2>1 DEF Held, Holds, Playing
  <2> QED
    BY <2>1, <2>2, StatusKept DEF Book!vars
<1> QED
  BY <1>1, <1>2

(***************************************************************************)
(* jq->add_result scores a game in play.                                   *)
(***************************************************************************)
LEMMA AddResultScores ==
  ASSUME IInv, BookInv, IInv', BookInv', NEW w \in Worker, AddResult(w)
  PROVE  [Book!Next]_(Book!vars)
<1> DEFINE g == job[w]
           x == wld[w]
<1>1. g \in Game /\ score[g] = NotScored /\ x \in Outcome /\ x # NotScored
  BY DEF IInv, GamesDealtOnce, OutcomeKnown, AddResult, At, Playing, Outcome, NotScored,
         LOSS, DRAW, WIN
<1>2. /\ score' = [score EXCEPT ![g] = x] /\ idx' = idx /\ job' = job
      /\ pc' = [pc EXCEPT ![w] = IF Sprt THEN "sprt" ELSE "print"] /\ pc[w] = "score"
  BY DEF AddResult, GoTo, At
<1>3. Held(g)
  BY <1>1, <1>2 DEF Held, Holds, Playing
<1>4. g = job[w]
  OBVIOUS
<1> HIDE DEF g, x
<1>5. ASSUME NEW k \in Game \ {g}
      PROVE  score'[k] = score[k] /\ (Held(k)' <=> Held(k))
  <2>1. score'[k] = score[k]
    BY <1>1, <1>2 DEF IInv, TypeOK
  <2> QED
    BY <1>2, <1>4, <2>1 DEF Held, Holds, Playing, IInv, TypeOK, LocalsTypeOK
<1>6. \A k \in Game : StatusOf(k)' = IF k = g THEN "scored" ELSE StatusOf(k)
  <2>1. score'[g] = x
    BY <1>1, <1>2 DEF IInv, TypeOK
  <2> QED
    BY <1>1, <1>2, <1>5, <2>1, StatusValue DEF Status
<1>7. StatusOf(g) = "playing"
  BY <1>1, <1>3, StatusValue DEF Status
<1>8. Book!Score(g, x)
  BY <1>1, <1>2, <1>6, <1>7 DEF Book!Score
<1> QED
  BY <1>1, <1>8 DEF Book!Next

(***************************************************************************)
(* jq->stop cancels the games that are waiting.                            *)
(***************************************************************************)
LEMMA SprtUpdateCancels ==
  ASSUME IInv, BookInv, IInv', BookInv', NEW w \in Worker, SprtUpdate(w)
  PROVE  [Book!Next]_(Book!vars)
<1> USE ScheduleFacts
<1> USE DEF IInv, TypeOK, QueueTypeOK, LocalsTypeOK, At, GoTo, BookInv, JobsDealt
<1>1. /\ idx' \in {idx, N} /\ pc' = [pc EXCEPT ![w] = "print"] /\ pc[w] = "sprt"
      /\ job' = job /\ score' = score
  BY DEF SprtUpdate
<1>2. \A k \in Game : Held(k)' <=> Held(k)
  BY <1>1 DEF Held, Holds, Playing
<1>3. CASE idx' = idx
  BY <1>1, <1>2, <1>3, StatusKept DEF Book!vars
<1>4. CASE idx' = N
  <2>1. ASSUME NEW k \in Game
        PROVE  StatusOf(k)' = IF StatusOf(k) = "waiting" THEN "cancelled" ELSE StatusOf(k)
    <3>1. k \in Int /\ idx \in Int /\ k < N
      BY DEF Game
    <3>2. StatusOf(k) = Status(k) /\ StatusOf(k)' = Status(k)'
      BY StatusValue
    <3>3. score'[k] = score[k] /\ (Held(k)' <=> Held(k)) /\ idx' = N
      BY <1>1, <1>2, <1>4
    <3> HIDE DEF IInv, TypeOK, QueueTypeOK, LocalsTypeOK, At, GoTo, BookInv, JobsDealt
    <3> QED
      BY <3>1, <3>2, <3>3 DEF Status
  <2>2. Book!Cancel
    BY <1>1, <2>1 DEF Book!Cancel, Book!Waiting
  <2> QED
    BY <2>2 DEF Book!Next
<1> QED
  BY <1>1, <1>3, <1>4

(***************************************************************************)
(* No other step deals, scores or cancels a game: where a worker has a     *)
(* game it keeps it, also when DIE stops it.                               *)
(***************************************************************************)
LEMMA OthersStutter ==
  ASSUME IInv, BookInv, [Next]_vars,
         ~\E w \in Worker : Pop(w) \/ AddResult(w) \/ SprtUpdate(w)
  PROVE  UNCHANGED Book!vars
<1> USE SavingPlacesType
<1> USE DEF IInv, TypeOK, LocalsTypeOK, At, GoTo, queue, locals
<1>1. idx' = idx /\ score' = score /\ job' = job
  BY StepCases
     DEF WorkerStep, Start, Play, PushGame, ExportSamples, PrintResults, Quit, OtherStep,
         Die, MainStep, MainPoll, MainJoin, MainDestroy, UseAfterDestroy, Interrupt,
         Terminated, vars
<1>2. ASSUME NEW v \in Worker, NEW k \in Game
      PROVE  Holds(v, k)' <=> Holds(v, k)
  <2>1. ASSUME NEW w \in Worker, WorkerStep(w)
        PROVE  pc'[v] \in Playing \cup {"exit"} <=> pc[v] \in Playing \cup {"exit"}
    <3>1. ASSUME NEW i \in 1 .. 2, Start(w, i)
          PROVE  {pc[w], AfterStart[i]} \subseteq Playing
                 /\ pc' = [pc EXCEPT ![w] = AfterStart[i]]
      BY <3>1 DEF Start, StartPlace, AfterStart, Playing
    <3>2. CASE Play(w)
      BY <3>2 DEF Play, SavingPlaces, Playing
    <3>3. ASSUME NEW f \in Files, PushGame(w, f)
          PROVE  {pc[w], AfterPush(f)} \subseteq Playing
                 /\ pc' = [pc EXCEPT ![w] = AfterPush(f)]
      BY <3>3 DEF PushGame, SavingPlaces, Playing
    <3>4. CASE ExportSamples(w) \/ PrintResults(w) \/ Quit(w)
      BY <3>4 DEF ExportSamples, PrintResults, Quit, Playing
    <3> QED
      BY <2>1, <3>1, <3>2, <3>3, <3>4 DEF WorkerStep
  <2>2. CASE \E w \in Worker : WorkerStep(w)
    BY <1>1, <2>1, <2>2 DEF Holds
  <2>3. ASSUME NEW w \in Worker, Die(w)
        PROVE  Holds(v, k)' <=> Holds(v, k)
    <3>1. /\ pc' = [pc EXCEPT ![w] = "exit"]
          /\ pc[w] \in Playing \cup {"quit"}
      BY <2>3 DEF Die, Playing
    <3>2. pc[w] = "quit" /\ job[w] = k => score[k] # NotScored
      <4>1. k # NoJob
        BY ScheduleFacts DEF Game, NoJob
      <4> QED
        BY <4>1 DEF BookInv, IdleWorkersScored, Playing
    <3> QED
      BY <1>1, <3>1, <3>2 DEF Holds
  <2>4. CASE OtherStep /\ ~\E w \in Worker : Die(w)
    <3>1. pc' = pc
      BY <2>4 DEF OtherStep, MainStep, MainPoll, MainJoin, MainDestroy,
                  UseAfterDestroy, Interrupt, Terminated, vars
    <3> QED
      BY <1>1, <3>1 DEF Holds
  <2> QED
    BY <2>2, <2>3, <2>4, StepCases
<1> QED
  BY <1>1, <1>2, StatusKept DEF Held, Book!vars

(***************************************************************************)
(* However many workers there are and however they are scheduled, games    *)
(* are dealt in order, scored once, and cancelled for good.                *)
(***************************************************************************)
THEOREM BookKept == Spec => ImplementsMatchBook
<1>1. Init => BookInv /\ Book!Init
  <2> SUFFICES ASSUME Init PROVE BookInv /\ Book!Init
    OBVIOUS
  <2>1. BookInv
    BY DEF Init, BookInv, JobsDealt, IdleWorkersScored, NoJob
  <2>2. \A k \in Game : StatusOf(k) = "waiting"
    BY ScheduleFacts DEF Init, StatusOf, Holds, Playing, Game
  <2> QED
    BY <2>1, <2>2 DEF Init, Book!Init
<1>2. IInv /\ BookInv /\ [Next]_vars => BookInv' /\ [Book!Next]_(Book!vars)
  BY NextIInv, NextBookInv, PopDeals, AddResultScores, SprtUpdateCancels, OthersStutter
<1> QED
  BY <1>1, <1>2, Invariance, PTL DEF Spec, ImplementsMatchBook, Book!Spec

-----------------------------------------------------------------------------
\* What gets the records of the games: the writers, and the sample file.
Sinks == Files \cup (IF Sample THEN {"sample"} ELSE {})

\* Where a worker is that gave its game to g, or passed it.
PlacesAfter(g) ==
  CASE g = "pgn" -> {"sgf", "msg", "sample", "score"}
    [] g = "sgf" -> {"msg", "sample", "score"}
    [] g = "msg" -> {"sample", "score"}
    [] g = "sample" -> {"score"}

\* v gave the game it is about to add to g.
PushedTo(v, g) == pc[v] \in PlacesAfter(g) /\ IsSaved(wld[v])

\* The games that g was given: those that are scored, and a few more.
Given(g) == SavedGames \cup {job[v] : v \in {u \in Worker : PushedTo(u, g)}}

\* Only a game that is to be saved is given to a sink.
SavesWhatIsWanted ==
  \A w \in Worker : pc[w] \in {"pgn", "sgf", "msg", "sample"} => IsSaved(wld[w])

\* A writer has the records of Given, in the order of the games when closed.
WritersInv ==
  \A f \in Files :
    IF proc \in {"success", "failure"}
    THEN Increasing(writers[f].out) /\ ToSet(writers[f].out) = Given(f)
    ELSE Ordered(writers[f]) /\ Records(writers[f]) = Given(f)

\* The sample file has the same games, each once.
SamplesInv ==
  Sample =>
    /\ \A i, j \in 1 .. Len(samples) : i # j => samples[i] # samples[j]
    /\ ToSet(samples) = Given("sample")

RecordsInv == SavesWhatIsWanted /\ WritersInv /\ SamplesInv

(***************************************************************************)
(* A worker passes the sinks in one order, and none of those it has.       *)
(***************************************************************************)
LEMMA SinksInOrder ==
  /\ \A g \in Sinks : /\ "score" \in PlacesAfter(g)
                      /\ PlacesAfter(g) \subseteq SavingPlaces
                      /\ FromPgn \notin PlacesAfter(g)
                      /\ g \notin PlacesAfter(g)
  /\ \A f \in Files, g \in Sinks :
       AfterPush(f) \in PlacesAfter(g) <=> f = g \/ f \in PlacesAfter(g)
  /\ \A f \in Files : "sample" \in PlacesAfter(f)
<1>1. Files \subseteq {"pgn", "sgf", "msg"} /\ Sample \in BOOLEAN
  BY TournamentAssumption
<1>2. /\ PlacesAfter("pgn") = {"sgf", "msg", "sample", "score"}
      /\ PlacesAfter("sgf") = {"msg", "sample", "score"}
      /\ PlacesAfter("msg") = {"sample", "score"}
      /\ PlacesAfter("sample") = {"score"}
  BY DEF PlacesAfter
<1>3. /\ AfterPush("pgn") = FromSgf
      /\ AfterPush("sgf") = FromMsg
      /\ AfterPush("msg") = FromSample
  BY DEF AfterPush
<1>4. \A g \in Sinks : \/ g \in {"pgn", "sgf", "msg"} /\ g \in Files
                       \/ g = "sample" /\ Sample
  BY <1>1 DEF Sinks
<1>5. /\ FromSample = IF Sample THEN "sample" ELSE "score"
      /\ FromMsg = IF "msg" \in Files THEN "msg" ELSE FromSample
      /\ FromSgf = IF "sgf" \in Files THEN "sgf" ELSE FromMsg
      /\ FromPgn = IF "pgn" \in Files THEN "pgn" ELSE FromSgf
  BY DEF FromSample, FromMsg, FromSgf, FromPgn
<1>6. ASSUME NEW g \in Sinks
      PROVE  /\ "score" \in PlacesAfter(g)
             /\ PlacesAfter(g) \subseteq SavingPlaces
             /\ FromPgn \notin PlacesAfter(g)
             /\ g \notin PlacesAfter(g)
  <2>1. CASE g = "pgn"
    BY <1>2, <1>4, <1>5, <2>1 DEF SavingPlaces
  <2>2. CASE g = "sgf"
    BY <1>2, <1>4, <1>5, <2>2 DEF SavingPlaces
  <2>3. CASE g = "msg"
    BY <1>2, <1>4, <1>5, <2>3 DEF SavingPlaces
  <2>4. CASE g = "sample"
    BY <1>2, <1>4, <1>5, <2>4 DEF SavingPlaces
  <2> QED
    BY <1>4, <2>1, <2>2, <2>3, <2>4
<1>7. ASSUME NEW f \in Files, NEW g \in Sinks
      PROVE  AfterPush(f) \in PlacesAfter(g) <=> f = g \/ f \in PlacesAfter(g)
  <2>1. f \in {"pgn", "sgf", "msg"}
    BY <1>1
  <2>2. CASE g = "pgn"
    BY <1>2, <1>3, <1>5, <2>1, <2>2
  <2>3. CASE g = "sgf"
    BY <1>2, <1>3, <1>4, <1>5, <2>1, <2>3
  <2>4. CASE g = "msg"
    BY <1>2, <1>3, <1>4, <1>5, <2>1, <2>4
  <2>5. CASE g = "sample"
    BY <1>2, <1>3, <1>4, <1>5, <2>1, <2>5
  <2> QED
    BY <1>4, <2>2, <2>3, <2>4, <2>5
<1>8. \A f \in Files : "sample" \in PlacesAfter(f)
  BY <1>1, <1>2
<1> QED
  BY <1>6, <1>7, <1>8

(***************************************************************************)
(* What -loseonly saves is what the README says.                           *)
(***************************************************************************)
LEMMA SavedIsWanted == \A o : IsSaved(o) <=> Wanted(o)
BY TournamentAssumption DEF IsSaved, Wanted

(***************************************************************************)
(* A step that gives nothing to g, and after which the workers have given  *)
(* what they had, leaves its games.                                        *)
(***************************************************************************)
LEMMA GivenKept ==
  ASSUME NEW g, score' = score,
         \A v \in Worker : PushedTo(v, g)' <=> PushedTo(v, g),
         \A v \in Worker : PushedTo(v, g) => job'[v] = job[v]
  PROVE  Given(g)' = Given(g)
<1>1. SavedGames' = SavedGames
  BY DEF SavedGames
<1>2. {job'[v] : v \in {u \in Worker : PushedTo(u, g)'}}
        = {job[v] : v \in {u \in Worker : PushedTo(u, g)}}
  OBVIOUS
<1> QED
  BY <1>1, <1>2 DEF Given

(***************************************************************************)
(* The steps of a worker that is neither before nor behind the sinks.      *)
(***************************************************************************)
LEMMA QuietStepKeepsGiven ==
  ASSUME NEW w \in Worker, NEW g \in Sinks, score' = score,
         \A v \in Worker \ {w} :
           pc'[v] = pc[v] /\ job'[v] = job[v] /\ wld'[v] = wld[v],
         ~PushedTo(w, g), pc'[w] \in PlacesAfter(g) => ~IsSaved(wld'[w])
  PROVE  Given(g)' = Given(g)
<1>1. \A v \in Worker : PushedTo(v, g)' <=> PushedTo(v, g)
  BY DEF PushedTo
<1>2. \A v \in Worker : PushedTo(v, g) => job'[v] = job[v]
  OBVIOUS
<1> QED
  BY <1>1, <1>2, GivenKept

(***************************************************************************)
(* The game that a worker has in hand was given to no sink by another one, *)
(* and was not added before.                                               *)
(***************************************************************************)
LEMMA GameInHandNotGiven ==
  ASSUME IInv, NEW w \in Worker, pc[w] \in Playing, NEW g \in Sinks,
         ~PushedTo(w, g)
  PROVE  job[w] \in Game /\ job[w] \notin Given(g)
<1>1. job[w] \in Game /\ score[job[w]] = NotScored
  BY DEF IInv, GamesDealtOnce
<1>2. job[w] \notin SavedGames
  BY <1>1 DEF SavedGames
<1>3. ASSUME NEW v \in Worker, PushedTo(v, g)
      PROVE  job[v] # job[w]
  <2>1. v # w /\ pc[v] \in Playing
    BY <1>3, SinksInOrder DEF PushedTo, SavingPlaces, Playing
  <2> QED
    BY <2>1 DEF IInv, GamesDealtOnce
<1> QED
  BY <1>1, <1>2, <1>3 DEF Given

(***************************************************************************)
(* A worker at a sink gives its game to it, and to no other.               *)
(***************************************************************************)
LEMMA PushGives ==
  ASSUME NEW w \in Worker, NEW f \in Sinks, NEW g \in Sinks,
         pc \in [Worker -> Places], pc[w] = f, IsSaved(wld[w]),
         pc'[w] \in PlacesAfter(g) <=> f = g \/ f \in PlacesAfter(g),
         \A v \in Worker \ {w} : pc'[v] = pc[v],
         UNCHANGED <<job, wld, score>>
  PROVE  Given(g)' = IF f = g THEN Given(g) \cup {job[w]} ELSE Given(g)
<1>1. \A v \in Worker \ {w} : PushedTo(v, g)' <=> PushedTo(v, g)
  BY DEF PushedTo
<1>2. PushedTo(w, g)' <=> f = g \/ PushedTo(w, g)
  BY DEF PushedTo
<1>3. SavedGames' = SavedGames
  BY DEF SavedGames
<1>4. CASE f = g
  <2>1. {u \in Worker : PushedTo(u, g)'} = {u \in Worker : PushedTo(u, g)} \cup {w}
    BY <1>1, <1>2, <1>4
  <2>2. {job'[v] : v \in {u \in Worker : PushedTo(u, g)'}}
          = {job[v] : v \in {u \in Worker : PushedTo(u, g)}} \cup {job[w]}
    BY <2>1
  <2> QED
    BY <1>3, <1>4, <2>2 DEF Given
<1>5. CASE f # g
  <2>1. \A v \in Worker : PushedTo(v, g)' <=> PushedTo(v, g)
    BY <1>1, <1>2, <1>5
  <2> QED
    BY <1>5, <2>1, GivenKept
<1> QED
  BY <1>4, <1>5

(***************************************************************************)
(* add_result: the game was given to all sinks if it is to be saved, and   *)
(* is then one of the games that are saved.                                *)
(***************************************************************************)
LEMMA AddResultKeepsGiven ==
  ASSUME IInv, NEW w \in Worker, AddResult(w), NEW g \in Sinks
  PROVE  Given(g)' = Given(g)
<1>1. /\ pc[w] = "score" /\ pc' = [pc EXCEPT ![w] = IF Sprt THEN "sprt" ELSE "print"]
      /\ score' = [score EXCEPT ![job[w]] = wld[w]]
      /\ job' = job /\ wld' = wld
  BY DEF AddResult, At, GoTo
<1>2. /\ job[w] \in Game /\ score[job[w]] = NotScored
      /\ score \in [Game -> Outcome \cup {NotScored}]
      /\ pc \in [Worker -> Places] /\ wld[w] \in Outcome /\ wld[w] # NotScored
  BY <1>1 DEF IInv, TypeOK, LocalsTypeOK, GamesDealtOnce, OutcomeKnown, Playing,
              Outcome, NotScored, LOSS, DRAW, WIN
<1>3. "sprt" \notin PlacesAfter(g) /\ "print" \notin PlacesAfter(g)
      /\ "score" \in PlacesAfter(g)
  BY SinksInOrder DEF SavingPlaces
<1>4. PushedTo(w, g) <=> IsSaved(wld[w])
  BY <1>1, <1>3 DEF PushedTo
<1>5. ~PushedTo(w, g)'
  BY <1>1, <1>2, <1>3 DEF PushedTo
<1>6. \A v \in Worker \ {w} : PushedTo(v, g)' <=> PushedTo(v, g)
  BY <1>1, <1>2 DEF PushedTo
<1>7. \A k \in Game : score'[k] = IF k = job[w] THEN wld[w] ELSE score[k]
  BY <1>1, <1>2
<1>8. SavedGames' = SavedGames \cup (IF IsSaved(wld[w]) THEN {job[w]} ELSE {})
  <2>1. \A k \in Game : k \in SavedGames' <=>
          \/ k \in SavedGames
          \/ k = job[w] /\ IsSaved(wld[w])
    BY <1>2, <1>7, SavedIsWanted DEF SavedGames
  <2>2. SavedGames \subseteq Game /\ SavedGames' \subseteq Game
    BY DEF SavedGames
  <2> QED
    BY <1>2, <2>1, <2>2
<1>9. \A k : k \in Given(g) <=>
        k \in SavedGames \/ \E v \in Worker : PushedTo(v, g) /\ k = job[v]
  BY DEF Given
<1>10. \A k : k \in Given(g)' <=>
        k \in SavedGames' \/ \E v \in Worker : PushedTo(v, g)' /\ k = job[v]
  BY <1>1 DEF Given
<1>11. \A k : k \in Given(g)' <=> k \in Given(g)
  BY <1>4, <1>5, <1>6, <1>8, <1>9, <1>10
<1> QED
  BY <1>11 DEF Given

(***************************************************************************)
(* A step of a worker that is not a push leaves every sink's games, and no *)
(* worker at a sink with a game that is not to be saved.                   *)
(***************************************************************************)
LEMMA WorkerKeepsGiven ==
  ASSUME IInv, SavesWhatIsWanted, NEW w \in Worker, WorkerStep(w),
         \A f \in Files : ~PushGame(w, f), ~ExportSamples(w)
  PROVE  /\ UNCHANGED records
         /\ \A g \in Sinks : Given(g)' = Given(g)
         /\ SavesWhatIsWanted'
<1> USE DEF GoTo, At
<1>1. /\ pc \in [Worker -> Places] /\ wld \in [Worker -> Outcome \cup {NotScored}]
      /\ job \in [Worker -> Game \cup {NoJob}]
  BY DEF IInv, TypeOK, LocalsTypeOK
<1>2. ASSUME NEW g \in Sinks
      PROVE  PlacesAfter(g) \subseteq SavingPlaces /\ FromPgn \notin PlacesAfter(g)
  BY SinksInOrder
<1>3. ASSUME pc[w] \notin SavingPlaces, score' = score,
             \A v \in Worker \ {w} :
               pc'[v] = pc[v] /\ job'[v] = job[v] /\ wld'[v] = wld[v],
             \/ pc'[w] \notin SavingPlaces
             \/ pc'[w] = FromPgn /\ IsSaved(wld'[w])
             \/ pc'[w] = "score" /\ ~IsSaved(wld'[w])
      PROVE  (\A g \in Sinks : Given(g)' = Given(g)) /\ SavesWhatIsWanted'
  <2>1. ASSUME NEW g \in Sinks
        PROVE  Given(g)' = Given(g)
    <3>1. ~PushedTo(w, g)
      BY <1>2, <1>3 DEF PushedTo
    <3>2. pc'[w] \in PlacesAfter(g) => ~IsSaved(wld'[w])
      BY <1>2, <1>3
    <3> QED
      BY <1>3, <3>1, <3>2, QuietStepKeepsGiven
  <2>2. SavesWhatIsWanted'
    BY <1>3 DEF SavesWhatIsWanted, SavingPlaces
  <2> QED
    BY <2>1, <2>2
<1>4. CASE Pop(w)
  <2>1. /\ pc[w] = "pop" /\ pc'[w] \in {"start1", "quit"}
        /\ score' = score /\ UNCHANGED records
        /\ \A v \in Worker \ {w} :
             pc'[v] = pc[v] /\ job'[v] = job[v] /\ wld'[v] = wld[v]
    BY <1>1, <1>4 DEF Pop
  <2> QED
    BY <1>3, <2>1 DEF SavingPlaces
<1>5. ASSUME NEW i \in 1 .. 2, Start(w, i)
      PROVE  /\ UNCHANGED records
             /\ \A g \in Sinks : Given(g)' = Given(g)
             /\ SavesWhatIsWanted'
  <2>1. /\ pc[w] \in {"start1", "start2"} /\ pc'[w] \in {"start2", "play"}
        /\ score' = score /\ UNCHANGED records
        /\ \A v \in Worker \ {w} :
             pc'[v] = pc[v] /\ job'[v] = job[v] /\ wld'[v] = wld[v]
    BY <1>1, <1>5 DEF Start, StartPlace, AfterStart
  <2> QED
    BY <1>3, <2>1 DEF SavingPlaces
<1>6. CASE Play(w)
  <2>1. PICK o \in Outcome :
          /\ wld' = [wld EXCEPT ![w] = o]
          /\ pc' = [pc EXCEPT ![w] = IF IsSaved(o) THEN FromPgn ELSE "score"]
    BY <1>6 DEF Play
  <2>2. /\ pc[w] = "play" /\ score' = score /\ UNCHANGED records
        /\ wld'[w] = o /\ pc'[w] = IF IsSaved(o) THEN FromPgn ELSE "score"
        /\ \A v \in Worker \ {w} :
             pc'[v] = pc[v] /\ job'[v] = job[v] /\ wld'[v] = wld[v]
    BY <1>1, <1>6, <2>1 DEF Play
  <2> QED
    BY <1>3, <2>2 DEF SavingPlaces
<1>7. CASE AddResult(w)
  <2>1. /\ UNCHANGED records /\ wld' = wld
        /\ pc' = [pc EXCEPT ![w] = IF Sprt THEN "sprt" ELSE "print"]
    BY <1>7 DEF AddResult
  <2>2. SavesWhatIsWanted'
    BY <1>1, <2>1 DEF SavesWhatIsWanted
  <2> QED
    BY <1>7, <2>1, <2>2, AddResultKeepsGiven
<1>8. CASE SprtUpdate(w)
  <2>1. /\ pc[w] = "sprt" /\ pc'[w] = "print" /\ score' = score /\ UNCHANGED records
        /\ \A v \in Worker \ {w} :
             pc'[v] = pc[v] /\ job'[v] = job[v] /\ wld'[v] = wld[v]
    BY <1>1, <1>8 DEF SprtUpdate
  <2> QED
    BY <1>3, <2>1 DEF SavingPlaces
<1>9. CASE PrintResults(w)
  <2>1. /\ pc[w] = "print" /\ pc'[w] = "pop" /\ score' = score /\ UNCHANGED records
        /\ \A v \in Worker \ {w} :
             pc'[v] = pc[v] /\ job'[v] = job[v] /\ wld'[v] = wld[v]
    BY <1>1, <1>9 DEF PrintResults
  <2> QED
    BY <1>3, <2>1 DEF SavingPlaces
<1>10. CASE Quit(w)
  <2>1. /\ pc[w] = "quit" /\ pc'[w] = "ended" /\ score' = score /\ UNCHANGED records
        /\ \A v \in Worker \ {w} :
             pc'[v] = pc[v] /\ job'[v] = job[v] /\ wld'[v] = wld[v]
    BY <1>1, <1>10 DEF Quit
  <2> QED
    BY <1>3, <2>1 DEF SavingPlaces
<1> QED
  BY <1>4, <1>5, <1>6, <1>7, <1>8, <1>9, <1>10 DEF WorkerStep

(***************************************************************************)
(* A worker's push gives its game to one writer.                           *)
(***************************************************************************)
LEMMA PushGameKeepsRecords ==
  ASSUME IInv, RecordsInv, NEW w \in Worker, NEW f \in Files, PushGame(w, f)
  PROVE  RecordsInv'
<1>1. /\ Alive /\ pc[w] = f /\ pc' = [pc EXCEPT ![w] = AfterPush(f)]
      /\ writers' = [writers EXCEPT ![f] = Push(writers[f], job[w])]
      /\ UNCHANGED <<job, wld, samples, score, proc>>
  BY DEF PushGame, At, GoTo
<1>2. /\ pc \in [Worker -> Places]
      /\ writers \in [Files -> [buf : Seq(Game), idxNext : Nat, out : Seq(Game)]]
  BY DEF IInv, TypeOK, LocalsTypeOK, RecordsTypeOK
<1>3. /\ f \in {"pgn", "sgf", "msg"} /\ f \in Sinks /\ IsSaved(wld[w])
      /\ proc \notin {"success", "failure"} /\ pc[w] \in Playing
  <2>1. f \in {"pgn", "sgf", "msg"}
    BY TournamentAssumption
  <2> QED
    BY <1>1, <2>1 DEF Sinks, RecordsInv, SavesWhatIsWanted, Alive, Playing
<1>4. \A g \in Sinks :
        Given(g)' = IF f = g THEN Given(g) \cup {job[w]} ELSE Given(g)
  <2> SUFFICES ASSUME NEW g \in Sinks
               PROVE  Given(g)' = IF f = g THEN Given(g) \cup {job[w]} ELSE Given(g)
    OBVIOUS
  <2>1. pc'[w] = AfterPush(f) /\ \A v \in Worker \ {w} : pc'[v] = pc[v]
    BY <1>1, <1>2
  <2>2. pc'[w] \in PlacesAfter(g) <=> f = g \/ f \in PlacesAfter(g)
    BY <2>1, SinksInOrder
  <2> QED
    BY <1>1, <1>2, <1>3, <2>1, <2>2, PushGives
<1>5. SavesWhatIsWanted'
  <2>1. \A v \in Worker : pc'[v] = IF v = w THEN AfterPush(f) ELSE pc[v]
    BY <1>1, <1>2
  <2> QED
    BY <1>1, <1>3, <2>1 DEF RecordsInv, SavesWhatIsWanted
<1>6. job[w] \in Nat /\ job[w] \notin Given(f)
  <2>1. ~PushedTo(w, f)
    BY <1>1, <1>3, SinksInOrder DEF PushedTo
  <2>2. job[w] \in Game /\ job[w] \notin Given(f)
    BY <1>3, <2>1, GameInHandNotGiven
  <2> QED
    BY <2>2, ScheduleFacts DEF Game
<1>7. Ordered(writers[f]) /\ Records(writers[f]) = Given(f)
  BY <1>3 DEF RecordsInv, WritersInv
<1>8. /\ Ordered(Push(writers[f], job[w]))
      /\ Records(Push(writers[f], job[w])) = Given(f) \cup {job[w]}
  BY <1>6, <1>7, PushKeepsOrder
<1>9. WritersInv'
  <2> SUFFICES ASSUME NEW g \in Files
               PROVE  Ordered(writers'[g]) /\ Records(writers'[g]) = Given(g)'
    BY <1>1, <1>3 DEF WritersInv
  <2>1. CASE g = f
    BY <1>1, <1>2, <1>3, <1>4, <1>8, <2>1
  <2>2. CASE g # f
    <3>1. writers'[g] = writers[g] /\ g \in Sinks
      BY <1>1, <1>2, <2>2 DEF Sinks
    <3>2. Ordered(writers[g]) /\ Records(writers[g]) = Given(g)
      BY <1>3 DEF RecordsInv, WritersInv
    <3> QED
      BY <1>4, <2>2, <3>1, <3>2
  <2> QED
    BY <2>1, <2>2
<1>10. SamplesInv'
  <2>1. Sample => "sample" \in Sinks /\ f # "sample"
    BY <1>3 DEF Sinks
  <2> QED
    BY <1>1, <1>4, <2>1 DEF RecordsInv, SamplesInv
<1> QED
  BY <1>5, <1>9, <1>10 DEF RecordsInv

(***************************************************************************)
(* A record at the end of a file.                                          *)
(***************************************************************************)
LEMMA AppendedRecord ==
  ASSUME NEW S, NEW s \in Seq(S), NEW e \in S, e \notin ToSet(s),
         \A i, j \in 1 .. Len(s) : i # j => s[i] # s[j]
  PROVE  /\ ToSet(Append(s, e)) = ToSet(s) \cup {e}
         /\ \A i, j \in 1 .. Len(Append(s, e)) :
              i # j => Append(s, e)[i] # Append(s, e)[j]
<1> DEFINE t == Append(s, e)
<1>1. /\ t \in Seq(S) /\ Len(t) = Len(s) + 1 /\ Len(s) \in Nat
      /\ \A i \in 1 .. Len(s) : t[i] = s[i]
      /\ t[Len(s) + 1] = e
      /\ DOMAIN s = 1 .. Len(s)
  BY AppendProperties, LenProperties
<1> HIDE DEF t
<1>2. DOMAIN t = 1 .. Len(s) + 1
  BY <1>1, LenProperties
<1>3. /\ ToSet(t) = {t[i] : i \in 1 .. Len(s) + 1}
      /\ ToSet(s) = {s[i] : i \in 1 .. Len(s)}
  BY <1>1, <1>2 DEF ToSet
<1>4. \A i : i \in 1 .. Len(s) + 1 <=> i \in 1 .. Len(s) \/ i = Len(s) + 1
  BY <1>1
<1>5. ToSet(t) = ToSet(s) \cup {e}
  BY <1>1, <1>3, <1>4
<1>6. ASSUME NEW i \in 1 .. Len(t), NEW j \in 1 .. Len(t), i # j
      PROVE  t[i] # t[j]
  <2>1. /\ i \in 1 .. Len(s) \/ i = Len(s) + 1
        /\ j \in 1 .. Len(s) \/ j = Len(s) + 1
    BY <1>1, <1>4
  <2>2. \A k \in 1 .. Len(s) : s[k] # e
    BY <1>3
  <2> QED
    BY <1>1, <1>6, <2>1, <2>2
<1> QED
  BY <1>5, <1>6 DEF t

(***************************************************************************)
(* export_samples gives the game to the sample file.                       *)
(***************************************************************************)
LEMMA ExportSamplesKeepsRecords ==
  ASSUME IInv, RecordsInv, NEW w \in Worker, ExportSamples(w)
  PROVE  RecordsInv'
<1>1. /\ Alive /\ pc[w] = "sample" /\ pc' = [pc EXCEPT ![w] = "score"]
      /\ samples' = Append(samples, job[w])
      /\ UNCHANGED <<job, wld, writers, score, proc>>
  BY DEF ExportSamples, At, GoTo
<1>2. pc \in [Worker -> Places] /\ samples \in Seq(Game)
  BY DEF IInv, TypeOK, LocalsTypeOK, RecordsTypeOK
<1>3. IsSaved(wld[w]) /\ pc[w] \in Playing
  BY <1>1 DEF RecordsInv, SavesWhatIsWanted, Playing
<1>4. pc'[w] = "score" /\ \A v \in Worker \ {w} : pc'[v] = pc[v]
  BY <1>1, <1>2
<1>5. SavesWhatIsWanted'
  <2>1. \A v \in Worker : pc'[v] = IF v = w THEN "score" ELSE pc[v]
    BY <1>4
  <2> QED
    BY <1>1, <2>1 DEF RecordsInv, SavesWhatIsWanted
<1>6. WritersInv'
  <2>1. ASSUME NEW f \in Files
        PROVE  Given(f)' = Given(f)
    <3>1. /\ "sample" \in PlacesAfter(f) /\ "score" \in PlacesAfter(f)
      BY SinksInOrder DEF Sinks
    <3>2. \A v \in Worker : PushedTo(v, f)' <=> PushedTo(v, f)
      BY <1>1, <1>4, <3>1 DEF PushedTo
    <3> QED
      BY <1>1, <3>2, GivenKept
  <2> QED
    BY <1>1, <2>1 DEF RecordsInv, WritersInv
<1>7. SamplesInv'
  <2> SUFFICES ASSUME Sample
               PROVE  /\ \A i, j \in 1 .. Len(samples') :
                           i # j => samples'[i] # samples'[j]
                      /\ ToSet(samples') = Given("sample")'
    BY DEF SamplesInv
  <2>1. /\ "sample" \in Sinks /\ "score" \in PlacesAfter("sample")
        /\ "sample" \notin PlacesAfter("sample")
    BY SinksInOrder DEF Sinks
  <2>2. Given("sample")' = Given("sample") \cup {job[w]}
    BY <1>1, <1>2, <1>3, <1>4, <2>1, PushGives
  <2>3. job[w] \in Game /\ job[w] \notin Given("sample")
    <3>1. ~PushedTo(w, "sample")
      BY <1>1, <2>1 DEF PushedTo
    <3> QED
      BY <1>3, <2>1, <3>1, GameInHandNotGiven
  <2>4. /\ ToSet(samples) = Given("sample")
        /\ \A i, j \in 1 .. Len(samples) : i # j => samples[i] # samples[j]
    BY DEF RecordsInv, SamplesInv
  <2> QED
    <3>1. job[w] \notin ToSet(samples)
      BY <2>3, <2>4
    <3>2. /\ ToSet(Append(samples, job[w])) = ToSet(samples) \cup {job[w]}
          /\ \A i, j \in 1 .. Len(Append(samples, job[w])) :
               i # j => Append(samples, job[w])[i] # Append(samples, job[w])[j]
      BY <1>2, <2>3, <2>4, <3>1, AppendedRecord
    <3>3. samples' = Append(samples, job[w])
      BY <1>1
    <3>4. ToSet(samples') = Given("sample")'
      BY <2>2, <2>4, <3>2, <3>3
    <3> QED
      BY <3>2, <3>3, <3>4, Zenon
<1> QED
  BY <1>5, <1>6, <1>7 DEF RecordsInv

(***************************************************************************)
(* The other steps push nothing; main_destroy closes the writers.          *)
(***************************************************************************)
LEMMA OtherKeepsRecords ==
  ASSUME IInv, RecordsInv, OtherStep
  PROVE  RecordsInv'
<1>1. /\ job' = job /\ score' = score /\ wld' = wld /\ samples' = samples
      /\ \/ pc' = pc
         \/ \E w \in Worker : /\ pc' = [pc EXCEPT ![w] = "exit"]
                              /\ pc[w] \in {"start1", "start2", "play", "quit"}
  BY DEF OtherStep, Die, MainStep, MainPoll, MainJoin, MainDestroy, UseAfterDestroy,
         Interrupt, Terminated, vars, GoTo, queue, locals, records
<1>2. \A v \in Worker :
        \/ pc'[v] = pc[v]
        \/ pc'[v] \notin SavingPlaces /\ pc[v] \notin SavingPlaces
  BY <1>1 DEF IInv, TypeOK, LocalsTypeOK, SavingPlaces
<1>3. ASSUME NEW g \in Sinks
      PROVE  Given(g)' = Given(g)
  <2>1. PlacesAfter(g) \subseteq SavingPlaces
    BY SinksInOrder
  <2>2. \A v \in Worker : PushedTo(v, g)' <=> PushedTo(v, g)
    BY <1>1, <1>2, <2>1 DEF PushedTo
  <2> QED
    BY <1>1, <2>2, GivenKept
<1>4. SavesWhatIsWanted'
  BY <1>1, <1>2 DEF RecordsInv, SavesWhatIsWanted, SavingPlaces
<1>5. SamplesInv'
  <2>1. Sample => "sample" \in Sinks
    BY DEF Sinks
  <2> QED
    BY <1>1, <1>3, <2>1 DEF RecordsInv, SamplesInv
<1>6. WritersInv'
  <2>1. \A f \in Files : Given(f)' = Given(f)
    BY <1>3 DEF Sinks
  <2>2. CASE MainDestroy
    <3>1. /\ proc \in {"exiting", "dying"} /\ proc' \in {"success", "failure"}
          /\ writers' = [f \in Files |-> CloseWriter(writers[f])]
      BY <2>2 DEF MainDestroy
    <3>2. ASSUME NEW f \in Files
          PROVE  Increasing(writers'[f].out) /\ ToSet(writers'[f].out) = Given(f)
      <4>1. Ordered(writers[f]) /\ Records(writers[f]) = Given(f)
        BY <3>1 DEF RecordsInv, WritersInv
      <4>2. /\ IsSorted(CloseWriter(writers[f]).out, <)
            /\ ToSet(CloseWriter(writers[f]).out) = Given(f)
        BY <4>1, CloseWritesAll
      <4>3. Increasing(CloseWriter(writers[f]).out)
        BY <4>2 DEF IsSorted, Increasing
      <4> QED
        BY <3>1, <4>2, <4>3
    <3> QED
      BY <2>1, <3>1, <3>2 DEF WritersInv
  <2>3. CASE ~MainDestroy
    <3>1. /\ writers' = writers
          /\ proc' \in {"success", "failure"} <=> proc \in {"success", "failure"}
      BY <2>3 DEF OtherStep, Die, MainStep, MainPoll, MainJoin, UseAfterDestroy,
                  Interrupt, Terminated, vars, queue, locals, records
    <3> QED
      BY <2>1, <3>1 DEF RecordsInv, WritersInv
  <2> QED
    BY <2>2, <2>3
<1> QED
  BY <1>4, <1>5, <1>6 DEF RecordsInv

(***************************************************************************)
(* RecordsInv holds throughout every run of a tournament.                  *)
(***************************************************************************)
LEMMA RecordsKept == Spec => []RecordsInv
<1>1. Init => RecordsInv
  <2> SUFFICES ASSUME Init
               PROVE  RecordsInv
    OBVIOUS
  <2>1. /\ \A w \in Worker : pc[w] = "pop"
        /\ \A k \in Game : score[k] = NotScored
        /\ writers = [f \in Files |-> NewWriter] /\ samples = <<>>
        /\ proc = "running"
    BY DEF Init
  <2>2. SavesWhatIsWanted
    BY <2>1 DEF SavesWhatIsWanted
  <2>3. ASSUME NEW g \in Sinks
        PROVE  Given(g) = {}
    <3>1. \A w \in Worker : ~PushedTo(w, g)
      BY <2>1, SinksInOrder DEF PushedTo, SavingPlaces
    <3> QED
      BY <2>1, <3>1 DEF Given, SavedGames
  <2>4. <<>> \in Seq(Nat) /\ Len(<<>>) = 0 /\ ToSet(<<>>) = {}
    BY DEF ToSet
  <2>5. Ordered(NewWriter) /\ Records(NewWriter) = {}
    <3>1. NewWriter.buf = <<>> /\ NewWriter.idxNext = 0 /\ NewWriter.out = <<>>
          /\ NewWriter \in Writers(Nat)
      BY <2>4 DEF NewWriter, Writers
    <3> QED
      BY <2>4, <3>1 DEF Ordered, Records, Increasing
  <2>6. WritersInv
    BY <2>1, <2>3, <2>5 DEF WritersInv, Sinks
  <2>7. SamplesInv
    <3>1. Sample => "sample" \in Sinks
      BY DEF Sinks
    <3>2. Len(samples) = 0 /\ ToSet(samples) = {}
      BY <2>1, <2>4, Zenon
    <3>3. \A i, j \in 1 .. Len(samples) : i # j => samples[i] # samples[j]
      BY <3>2
    <3> QED
      BY <2>3, <3>1, <3>2, <3>3 DEF SamplesInv
  <2> QED
    BY <2>2, <2>6, <2>7 DEF RecordsInv
<1>2. IInv /\ RecordsInv /\ [Next]_vars => RecordsInv'
  <2> SUFFICES ASSUME IInv, RecordsInv, [Next]_vars
               PROVE  RecordsInv'
    OBVIOUS
  <2>1. ASSUME NEW w \in Worker, WorkerStep(w)
        PROVE  RecordsInv'
    <3>1. ASSUME NEW f \in Files, PushGame(w, f)
          PROVE  RecordsInv'
      BY <3>1, PushGameKeepsRecords
    <3>2. CASE ExportSamples(w)
      BY <3>2, ExportSamplesKeepsRecords
    <3>3. CASE (\A f \in Files : ~PushGame(w, f)) /\ ~ExportSamples(w)
      <4>1. /\ UNCHANGED records /\ SavesWhatIsWanted'
            /\ \A g \in Sinks : Given(g)' = Given(g)
        BY <2>1, <3>3, WorkerKeepsGiven DEF RecordsInv
      <4>2. proc' = proc
        BY <2>1, <3>3 DEF WorkerStep, Pop, Start, Play, AddResult, SprtUpdate,
                          PrintResults, Quit
      <4>3. WritersInv'
        BY <4>1, <4>2 DEF RecordsInv, WritersInv, Sinks, records
      <4>4. SamplesInv'
        <5>1. Sample => "sample" \in Sinks
          BY DEF Sinks
        <5> QED
          BY <4>1, <5>1 DEF RecordsInv, SamplesInv, records
      <4> QED
        BY <4>1, <4>3, <4>4 DEF RecordsInv
    <3> QED
      BY <3>1, <3>2, <3>3
  <2>2. CASE OtherStep
    BY <2>2, OtherKeepsRecords
  <2> QED
    BY <2>1, <2>2, StepCases
<1> QED
  BY <1>1, <1>2, Invariance, PTL DEF Spec

(***************************************************************************)
(* When all of the workers have ended, the sinks have the saved games.     *)
(***************************************************************************)
LEMMA GivenAtTheEnd ==
  ASSUME NEW g \in Sinks, \A w \in Worker : pc[w] = "ended"
  PROVE  Given(g) = SavedGames
<1>1. \A w \in Worker : ~PushedTo(w, g)
  BY SinksInOrder DEF PushedTo, SavingPlaces
<1> QED
  BY <1>1 DEF Given

(***************************************************************************)
(* FilesAreComplete: whatever the order in which the games end, and        *)
(* whether -sprt or DIE ends the tournament, no saved game is missing.     *)
(***************************************************************************)
THEOREM FilesComplete == Spec => []FilesAreComplete
<1>1. RecordsInv /\ DestroyedAlone => FilesAreComplete
  <2> SUFFICES ASSUME RecordsInv, DestroyedAlone, NEW f \in Files
               PROVE  /\ proc = "success" =>
                           /\ IsSorted(writers[f].out, <)
                           /\ ToSet(writers[f].out) = SavedGames
                      /\ proc = "failure" => SavedGames \subseteq ToSet(writers[f].out)
    BY DEF FilesAreComplete
  <2>1. proc \in {"success", "failure"} =>
          Increasing(writers[f].out) /\ ToSet(writers[f].out) = Given(f)
    BY DEF RecordsInv, WritersInv
  <2>2. SavedGames \subseteq Given(f)
    BY DEF Given
  <2>3. ASSUME proc = "success"
        PROVE  /\ IsSorted(writers[f].out, <)
               /\ ToSet(writers[f].out) = SavedGames
    <3>1. Given(f) = SavedGames
      BY <2>3, GivenAtTheEnd DEF DestroyedAlone, Sinks
    <3>2. IsSorted(writers[f].out, <)
      BY <2>1, <2>3 DEF IsSorted, Increasing
    <3> QED
      BY <2>1, <2>3, <3>1, <3>2
  <2> QED
    BY <2>1, <2>2, <2>3
<1> QED
  BY <1>1, RecordsKept, NobodyUsesTheDestroyed, PTL

(***************************************************************************)
(* SamplesAreComplete: the sample file of a tournament that ended by       *)
(* itself has every saved game once.                                       *)
(***************************************************************************)
THEOREM SamplesComplete == Spec => []SamplesAreComplete
<1>1. IInv /\ RecordsInv /\ DestroyedAlone => SamplesAreComplete
  <2> SUFFICES ASSUME IInv, RecordsInv, DestroyedAlone, proc = "success", Sample
               PROVE  /\ ToSet(samples) = SavedGames
                      /\ Len(samples) = Cardinality(SavedGames)
    BY DEF SamplesAreComplete
  <2>1. Given("sample") = SavedGames
    BY GivenAtTheEnd DEF DestroyedAlone, Sinks
  <2>2. /\ samples \in Seq(Game) /\ ToSet(samples) = Given("sample")
        /\ \A i, j \in 1 .. Len(samples) : i # j => samples[i] # samples[j]
    BY DEF IInv, TypeOK, RecordsTypeOK, RecordsInv, SamplesInv
  <2>3. Cardinality(ToSet(samples)) = Len(samples)
    BY <2>2, DifferentRecords
  <2> QED
    BY <2>1, <2>2, <2>3
<1> QED
  BY <1>1, Invariance, RecordsKept, NobodyUsesTheDestroyed, PTL
=============================================================================
