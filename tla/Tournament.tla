----------------------------- MODULE Tournament -----------------------------
(***************************************************************************)
(* c-gomoku-cli's run of a tournament (main.cpp, jobs.cpp): the workers    *)
(* (thread_start) take games from the JobQueue, play them, push records to *)
(* the SeqWriters and the sample file and add the results; the main thread *)
(* polls until the queue is empty, joins the workers and destroys all.     *)
(* JobQueue and SeqWriter have a mutex each, held for one call: one call   *)
(* is one step here.  What happens inside a game is one step too (Play).   *)
(***************************************************************************)
EXTENDS Schedule, SeqBuffer

CONSTANTS Worker,    \* the worker threads (-concurrency)
          Engines, Rounds, Games, Gauntlet,
          LoseOnly,  \* -loseonly
          Sprt,      \* -sprt, with alpha + beta < 1
          Files,     \* those of "pgn", "sgf", "msg" that are written
          Sample     \* is there a sample file

\* options_parse: two engines at least, and no more with -sprt.
ASSUME TournamentAssumption ==
  /\ IsFiniteSet(Worker)
  /\ Engines \in Nat /\ Engines >= 2
  /\ Rounds \in Nat /\ Games \in Nat
  /\ {Gauntlet, LoseOnly, Sprt, Sample} \subseteq BOOLEAN
  /\ Sprt => Engines = 2
  /\ Files \subseteq {"pgn", "sgf", "msg"}

C == [engines |-> Engines, rounds |-> Rounds, games |-> Games,
      gauntlet |-> Gauntlet]

N == NumJobs(C)
Game == 0 .. N - 1
Engine == 0 .. Engines - 1
Pair == 0 .. NumPairs(C) - 1

\* RESULT_LOSS, RESULT_DRAW, RESULT_WIN, from the view of ei[0]
LOSS == 0
DRAW == 1
WIN == 2
Outcome == {LOSS, DRAW, WIN}
NotScored == -1

NoJob == -1
NoEngine == -1

VARIABLES
  idx, completed, results, names,   \* the JobQueue
  pc,        \* where each worker is in its loop
  job,       \* thread_start's idx: the game it took last
  ei,        \* thread_start's ei[2]: the engines it has started
  wld,       \* the outcome of its game, NotScored outside an iteration
  count,     \* wldCount, the totals that add_result gave it
  writers,   \* the SeqWriter of each of Files
  samples,   \* the games in the sample file
  update,    \* completed, as the last tournament update showed it (0: none yet)
  main,      \* the main thread: "poll", "join", "returned"
  proc,      \* the process
  score      \* history: the outcome each game was added with

queue == <<idx, completed, results, names>>
locals == <<pc, job, ei, wld, count>>
records == <<writers, samples>>
vars == <<queue, locals, records, update, main, proc, score>>

ZeroCount == [o \in Outcome |-> 0]

Init ==
  /\ idx = 0 /\ completed = 0
  /\ results = [p \in Pair |-> ZeroCount]
  /\ names = {}
  /\ pc = [w \in Worker |-> "pop"]
  /\ job = [w \in Worker |-> NoJob]
  /\ ei = [w \in Worker |-> [i \in 1 .. 2 |-> NoEngine]]
  /\ wld = [w \in Worker |-> NotScored]
  /\ count = [w \in Worker |-> ZeroCount]
  /\ writers = [f \in Files |-> NewWriter]
  /\ samples = <<>>
  /\ update = 0
  /\ main = "poll" /\ proc = "running"
  /\ score = [k \in Game |-> NotScored]

\* The threads run until the process ends, also while exit() is called.
Alive == proc \in {"running", "dying"}

At(w, place) == Alive /\ pc[w] = place
GoTo(w, place) == pc' = [pc EXCEPT ![w] = place]

-----------------------------------------------------------------------------
\* Mutation: the next index is not written back.
PopKeepsIndex(w) ==
  /\ At(w, "pop")
  /\ \/ /\ idx < N
        /\ job' = [job EXCEPT ![w] = idx]
        /\ GoTo(w, "start1")
     \/ /\ ~(idx < N)
        /\ GoTo(w, "quit")
        /\ UNCHANGED job
  /\ UNCHANGED <<queue, ei, wld, count, records, update, main, proc, score>>

\* Mutation: one game more than there is.
PopOneMore(w) ==
  /\ At(w, "pop")
  /\ \/ /\ idx <= N
        /\ job' = [job EXCEPT ![w] = idx]
        /\ idx' = idx + 1
        /\ GoTo(w, "start1")
     \/ /\ ~(idx <= N)
        /\ GoTo(w, "quit")
        /\ UNCHANGED <<idx, job>>
  /\ UNCHANGED <<completed, results, names, ei, wld, count, records, update,
                 main, proc, score>>

\* jq->pop
Pop(w) ==
  /\ At(w, "pop")
  /\ \/ /\ idx < N
        /\ job' = [job EXCEPT ![w] = idx]
        /\ idx' = idx + 1
        /\ GoTo(w, "start1")
     \/ /\ ~(idx < N)
        /\ GoTo(w, "quit")
        /\ UNCHANGED <<idx, job>>
  /\ UNCHANGED <<completed, results, names, ei, wld, count, records, update,
                 main, proc, score>>

StartPlace == <<"start1", "start2">>
AfterStart == <<"start2", "play">>

\* Mutation: only a worker's first engines are told to the queue.
StartNamesOnce(w, i) ==
  /\ At(w, StartPlace[i])
  /\ LET e == Job(C, job[w]).ei[i]
     IN  \/ /\ e # ei[w][i]
            /\ ei' = [ei EXCEPT ![w][i] = e]
            /\ names' = IF ei[w][i] = NoEngine THEN names \cup {e} ELSE names
         \/ e = ei[w][i] /\ UNCHANGED <<ei, names>>
  /\ GoTo(w, AfterStart[i])
  /\ UNCHANGED <<idx, completed, results, job, wld, count, records, update,
                 main, proc, score>>

\* Mutation: the engines are started for the first game only.
StartOnce(w, i) ==
  /\ At(w, StartPlace[i])
  /\ LET e == Job(C, job[w]).ei[i]
     IN  \/ /\ ei[w][i] = NoEngine
            /\ ei' = [ei EXCEPT ![w][i] = e]
            /\ names' = names \cup {e}
         \/ ei[w][i] # NoEngine /\ UNCHANGED <<ei, names>>
  /\ GoTo(w, AfterStart[i])
  /\ UNCHANGED <<idx, completed, results, job, wld, count, records, update,
                 main, proc, score>>

\* Another engine is stopped, the job's one started and its name told to the
\* queue.  An engine that stays is started again if it crashed: same ei[i].
Start(w, i) ==
  /\ At(w, StartPlace[i])
  /\ LET e == Job(C, job[w]).ei[i]
     IN  \/ /\ e # ei[w][i]
            /\ ei' = [ei EXCEPT ![w][i] = e]
            /\ names' = names \cup {e}
         \/ e = ei[w][i] /\ UNCHANGED <<ei, names>>
  /\ GoTo(w, AfterStart[i])
  /\ UNCHANGED <<idx, completed, results, job, wld, count, records, update,
                 main, proc, score>>

\* Where a finished game goes: the writers that exist, the sample file, the
\* queue.
FromSample == IF Sample THEN "sample" ELSE "score"
FromMsg == IF "msg" \in Files THEN "msg" ELSE FromSample
FromSgf == IF "sgf" \in Files THEN "sgf" ELSE FromMsg
FromPgn == IF "pgn" \in Files THEN "pgn" ELSE FromSgf

AfterPush(f) ==
  CASE f = "pgn" -> FromSgf
    [] f = "sgf" -> FromMsg
    [] f = "msg" -> FromSample

\* Mutation: -loseonly looks at the other engine.
IsSavedWon(outcome) == ~Gauntlet \/ ~LoseOnly \/ outcome = WIN

\* !options.gauntlet || !options.saveLoseOnly || wld == RESULT_LOSS
IsSaved(outcome) == ~Gauntlet \/ ~LoseOnly \/ outcome = LOSS

\* The opening, game.play: the outcome is the engines'.
Play(w) ==
  /\ At(w, "play")
  /\ \E o \in Outcome :
       /\ wld' = [wld EXCEPT ![w] = o]
       /\ GoTo(w, IF IsSaved(o) THEN FromPgn ELSE "score")
  /\ UNCHANGED <<queue, job, ei, count, records, update, main, proc, score>>

\* pgnSeqWriter->push, sgfSeqWriter->push, msgSeqWriter->push
PushGame(w, f) ==
  /\ At(w, f)
  /\ writers' = [writers EXCEPT ![f] = Push(@, job[w])]
  /\ GoTo(w, AfterPush(f))
  /\ UNCHANGED <<queue, job, ei, wld, count, samples, update, main, proc, score>>

\* game.export_samples, under the FileLock of the sample file
ExportSamples(w) ==
  /\ At(w, "sample")
  /\ samples' = Append(samples, job[w])
  /\ GoTo(w, "score")
  /\ UNCHANGED <<queue, job, ei, wld, count, writers, update, main, proc, score>>

\* Mutation: completed is the caller's number of the game.
AddResultByIndex(w) ==
  LET p == Job(C, job[w]).pair
  IN  /\ At(w, "score")
      /\ results' = [results EXCEPT ![p][wld[w]] = @ + 1]
      /\ completed' = job[w] + 1
      /\ count' = [count EXCEPT ![w] = results'[p]]
      /\ score' = [score EXCEPT ![job[w]] = wld[w]]
      /\ GoTo(w, IF Sprt THEN "sprt" ELSE "print")
      /\ UNCHANGED <<idx, names, job, ei, wld, records, update, main, proc>>

\* Mutation: no result is added to a queue that was stopped.
AddResultUnlessStopped(w) ==
  LET p == Job(C, job[w]).pair
  IN  /\ At(w, "score")
      /\ IF idx = N
         THEN UNCHANGED <<results, completed, count, score>>
         ELSE /\ results' = [results EXCEPT ![p][wld[w]] = @ + 1]
              /\ completed' = completed + 1
              /\ count' = [count EXCEPT ![w] = results'[p]]
              /\ score' = [score EXCEPT ![job[w]] = wld[w]]
      /\ GoTo(w, IF Sprt THEN "sprt" ELSE "print")
      /\ UNCHANGED <<idx, names, job, ei, wld, records, update, main, proc>>

\* jq->add_result
AddResult(w) ==
  LET p == Job(C, job[w]).pair
  IN  /\ At(w, "score")
      /\ results' = [results EXCEPT ![p][wld[w]] = @ + 1]
      /\ completed' = completed + 1
      /\ count' = [count EXCEPT ![w] = results'[p]]
      /\ score' = [score EXCEPT ![job[w]] = wld[w]]
      /\ GoTo(w, IF Sprt THEN "sprt" ELSE "print")
      /\ UNCHANGED <<idx, names, job, ei, wld, records, update, main, proc>>

\* SPRTParam::done: sprt_llr is 0, between the bounds, until two of the three
\* counts are not zero; then its value, and so the verdict, is left open.
Verdicts(c) ==
  IF Cardinality({o \in Outcome : c[o] > 0}) < 2 THEN {FALSE} ELSE BOOLEAN

\* Mutation: the queue is stopped by forgetting its next job.
SprtUpdateRewinds(w) ==
  /\ At(w, "sprt")
  /\ \E done \in Verdicts(count[w]) : idx' = IF done THEN 0 ELSE idx
  /\ GoTo(w, "print")
  /\ UNCHANGED <<completed, results, names, job, ei, wld, count, records,
                 update, main, proc, score>>

\* Mutation: the queue is stopped beyond its last job.
SprtUpdateOvershoots(w) ==
  /\ At(w, "sprt")
  /\ \E done \in Verdicts(count[w]) : idx' = IF done THEN N + 1 ELSE idx
  /\ GoTo(w, "print")
  /\ UNCHANGED <<completed, results, names, job, ei, wld, count, records,
                 update, main, proc, score>>

\* if done, jq->stop
SprtUpdate(w) ==
  /\ At(w, "sprt")
  /\ \E done \in Verdicts(count[w]) : idx' = IF done THEN N ELSE idx
  /\ GoTo(w, "print")
  /\ UNCHANGED <<completed, results, names, job, ei, wld, count, records,
                 update, main, proc, score>>

\* jq->print_results(options.games); wld and wldCount end with the iteration
PrintResults(w) ==
  /\ At(w, "print")
  /\ update' = IF completed > 0 /\ completed % Games = 0 THEN completed ELSE update
  /\ wld' = [wld EXCEPT ![w] = NotScored]
  /\ count' = [count EXCEPT ![w] = ZeroCount]
  /\ GoTo(w, "pop")
  /\ UNCHANGED <<queue, job, ei, records, main, proc, score>>

\* The engines are terminated and the thread ends.
Quit(w) ==
  /\ At(w, "quit")
  /\ GoTo(w, "ended")
  /\ UNCHANGED <<queue, job, ei, wld, count, records, update, main, proc, score>>

\* DIE in a worker: an engine that cannot be started, an illegal opening, an
\* engine error under -fatalerror, a system call that fails.  exit() is called.
Die(w) ==
  /\ proc = "running"
  /\ pc[w] \in {"start1", "start2", "play", "quit"}
  /\ proc' = "dying"
  /\ GoTo(w, "exit")
  /\ UNCHANGED <<queue, job, ei, wld, count, records, update, main, score>>

-----------------------------------------------------------------------------
\* Mutation: the workers are not joined.
MainPollReturns ==
  /\ Alive /\ main = "poll" /\ idx = N
  /\ main' = "returned" /\ proc' = IF proc = "running" THEN "exiting" ELSE proc
  /\ UNCHANGED <<queue, locals, records, update, score>>

\* The loop of main ends: jq->done()
MainPoll ==
  /\ Alive /\ main = "poll" /\ idx = N
  /\ main' = "join"
  /\ UNCHANGED <<queue, locals, records, update, proc, score>>

\* All of the threads were joined: main returns.
MainJoin ==
  /\ proc = "running" /\ main = "join"
  /\ \A w \in Worker : pc[w] = "ended"
  /\ main' = "returned" /\ proc' = "exiting"
  /\ UNCHANGED <<queue, locals, records, update, score>>

\* Mutation: the files are not closed by SeqWriter's destructor.
MainDestroyNoFlush ==
  /\ proc \in {"exiting", "dying"}
  /\ proc' = IF proc = "exiting" THEN "success" ELSE "failure"
  /\ UNCHANGED <<queue, locals, records, update, main, score>>

\* main_destroy, called by exit
MainDestroy ==
  /\ proc \in {"exiting", "dying"}
  /\ writers' = [f \in Files |-> CloseWriter(writers[f])]
  /\ proc' = IF proc = "exiting" THEN "success" ELSE "failure"
  /\ UNCHANGED <<queue, locals, samples, update, main, score>>

\* main_destroy deletes what the threads that DIE did not stop still use, the
\* main thread always (workers[i]): anything may happen then.
UseAfterDestroy ==
  /\ proc = "dying"
  /\ proc' = "undefined"
  /\ UNCHANGED <<queue, locals, records, update, main, score>>

\* SIGINT: signal_handler closes the sample file and calls _Exit.
Interrupt ==
  /\ proc \in {"running", "exiting", "dying"}
  /\ proc' = "interrupted"
  /\ UNCHANGED <<queue, locals, records, update, main, score>>

Over == proc \in {"success", "failure", "interrupted", "undefined"}

Terminated == Over /\ UNCHANGED vars

WorkerStep(w) ==
  \/ Pop(w)
  \/ \E i \in 1 .. 2 : Start(w, i)
  \/ Play(w)
  \/ \E f \in Files : PushGame(w, f)
  \/ ExportSamples(w)
  \/ AddResult(w) \/ SprtUpdate(w) \/ PrintResults(w)
  \/ Quit(w)

MainStep == MainPoll \/ MainJoin \/ MainDestroy

Next ==
  \/ \E w \in Worker : WorkerStep(w) \/ Die(w)
  \/ MainStep
  \/ UseAfterDestroy \/ Interrupt \/ Terminated

Spec == Init /\ [][Next]_vars

(***************************************************************************)
(* The threads are scheduled by the operating system and every mutex is    *)
(* held for a few instructions.  That Play and Start end, that is, that an *)
(* engine answers or is killed, is assumed here; EngineIO is about it.     *)
(***************************************************************************)
Fairness == WF_vars(MainStep) /\ \A w \in Worker : WF_vars(WorkerStep(w))

FairSpec == Spec /\ Fairness

-----------------------------------------------------------------------------
\* The values a worker's place in the loop can have.
Places ==
  {"pop", "start1", "start2", "play", "pgn", "sgf", "msg", "sample", "score",
   "sprt", "print", "quit", "ended", "exit"}

QueueTypeOK ==
  /\ idx \in 0 .. N
  /\ completed \in Nat
  /\ results \in [Pair -> [Outcome -> Nat]]
  /\ names \subseteq Engine

LocalsTypeOK ==
  /\ pc \in [Worker -> Places]
  /\ job \in [Worker -> Game \cup {NoJob}]
  /\ ei \in [Worker -> [1 .. 2 -> Engine \cup {NoEngine}]]
  /\ wld \in [Worker -> Outcome \cup {NotScored}]
  /\ count \in [Worker -> [Outcome -> Nat]]

RecordsTypeOK ==
  /\ writers \in [Files -> [buf : Seq(Game), idxNext : Nat, out : Seq(Game)]]
  /\ samples \in Seq(Game)

\* Every variable has a value of its type; results[] is never indexed outside.
TypeOK ==
  /\ QueueTypeOK
  /\ LocalsTypeOK
  /\ RecordsTypeOK
  /\ update \in Nat
  /\ main \in {"poll", "join", "returned"}
  /\ proc \in {"running", "dying", "exiting", "success", "failure",
               "interrupted", "undefined"}
  /\ score \in [Game -> Outcome \cup {NotScored}]

-----------------------------------------------------------------------------
\* The places where a worker has a game that it has not yet added.
Playing ==
  {"start1", "start2", "play", "pgn", "sgf", "msg", "sample", "score"}

Holds(w, k) == pc[w] \in Playing \cup {"exit"} /\ job[w] = k /\ score[k] = NotScored

(***************************************************************************)
(* jq->pop gives a game to one worker only, and never one whose result is  *)
(* in already: workers do not share a game, and what they play is not yet  *)
(* scored and lies before the next index.                                  *)
(***************************************************************************)
GamesDealtOnce ==
  \A w \in Worker :
    pc[w] \in Playing =>
      /\ job[w] \in Game /\ job[w] < idx
      /\ score[job[w]] = NotScored
      /\ \A v \in Worker \ {w} : pc[v] \in Playing => job[v] # job[w]

\* The games of a pair that ended with o.
ScoredGames(p, o) == {k \in Game : Job(C, k).pair = p /\ score[k] = o}

(***************************************************************************)
(* add_result: whatever the interleaving of the workers, the table has one *)
(* entry per finished game, at its pair and outcome, and completed counts  *)
(* them.                                                                   *)
(***************************************************************************)
ResultsAreTheGames ==
  /\ \A p \in Pair, o \in Outcome : results[p][o] = Cardinality(ScoredGames(p, o))
  /\ completed = Cardinality({k \in Game : score[k] # NotScored})

(***************************************************************************)
(* The engines a worker carries over from one game to the next are those   *)
(* of the game it plays: games of other pairs do not use a stale engine.   *)
(***************************************************************************)
PlaysItsPair ==
  \A w \in Worker : At(w, "play") => ei[w] = Job(C, job[w]).ei

(***************************************************************************)
(* print_results: the names of the engines are discovered while workers    *)
(* run, yet both names of every line that is printed are known.            *)
(***************************************************************************)
PrintedNamesAreKnown ==
  \A p \in Pair :
    (\E o \in Outcome : results[p][o] > 0) =>
      {Encounter(C, p)[1], Encounter(C, p)[2]} \subseteq names

\* README.md:51: the outcomes whose games are to be saved.
Wanted(outcome) == (Gauntlet /\ LoseOnly) => outcome = LOSS

SavedGames == {k \in Game : score[k] # NotScored /\ Wanted(score[k])}

(***************************************************************************)
(* A tournament that ends by itself leaves in every file the games to be   *)
(* saved in the order of the schedule, also when -sprt ended it early or   *)
(* -loseonly left gaps.  After DIE no finished game is missing either.     *)
(***************************************************************************)
FilesAreComplete ==
  \A f \in Files :
    /\ proc = "success" =>
         IsSorted(writers[f].out, <) /\ ToSet(writers[f].out) = SavedGames
    /\ proc = "failure" => SavedGames \subseteq ToSet(writers[f].out)

(***************************************************************************)
(* README.md:51: the samples of the saved games, each once, are in the     *)
(* sample file when the tournament ends, in the order they ended.          *)
(***************************************************************************)
SamplesAreComplete ==
  (proc = "success" /\ Sample) =>
    /\ ToSet(samples) = SavedGames
    /\ Len(samples) = Cardinality(SavedGames)

(***************************************************************************)
(* main does not return while a worker runs: the destructors of the queue, *)
(* the writers and the workers run alone unless a worker called DIE.       *)
(***************************************************************************)
DestroyedAlone ==
  proc \in {"exiting", "success"} => \A w \in Worker : pc[w] = "ended"

StatusOf(k) ==
  CASE score[k] # NotScored -> "scored"
    [] \E w \in Worker : Holds(w, k) -> "playing"
    [] k >= idx /\ score[k] = NotScored -> "waiting"
    [] OTHER -> "cancelled"

Book == INSTANCE MatchBook WITH status <- [k \in Game |-> StatusOf(k)]

(***************************************************************************)
(* The workers, the queue and jq->stop implement MatchBook: no game is     *)
(* dealt twice or out of order, none is lost, and none is dealt after the  *)
(* verdict of -sprt.                                                       *)
(***************************************************************************)
ImplementsMatchBook == Book!Spec

(***************************************************************************)
(* Results are never taken back, nor is the queue refilled.                *)
(***************************************************************************)
ResultsOnlyGrow ==
  [][/\ idx' >= idx /\ completed' >= completed
     /\ \A p \in Pair, o \in Outcome : results'[p][o] >= results[p][o]]_vars

(***************************************************************************)
(* The run ends: the queue gets empty, every worker comes back from its    *)
(* last game, main joins them and the exit handlers close the files.       *)
(***************************************************************************)
TournamentEnds == <>Over

(***************************************************************************)
(* A game that was dealt is scored, also when -sprt stops the queue in the *)
(* meantime, unless the process ends for another reason.                   *)
(***************************************************************************)
DealtGamesAreScored ==
  \A k \in Game :
    (\E w \in Worker : Holds(w, k)) ~>
      (score[k] # NotScored \/ proc \in {"failure", "interrupted", "undefined"})
=============================================================================
