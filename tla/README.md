# A formal model of c-gomoku-cli

c-gomoku-cli plays tournaments between gomoku engines. Worker threads take games from
a shared queue, run two engine processes each over pipes, judge and record the games;
the main thread enforces the deadlines of the engines. This directory holds TLA+
models of that program, the TLC configurations that check them and proofs for TLAPS.
`PROJECT.json` names, for every definition, the lines of C++ it stands for.

All line numbers are of the files in `src/` of the repository unless another
directory is given; `README.md:n` in a module is a line of the repository's README.

## The system

| Part | State | Operations | Modules |
|---|---|---|---|
| Schedule (`jobs.cpp`) | `jobs[]`, the encounters of `results[]` | the constructor of `JobQueue`, the opening of a job (`main.cpp:198`, `openings.cpp:83`) | `Schedule`, `ScheduleLoops` |
| Job queue and workers (`main.cpp`, `jobs.cpp`) | `idx`, `completed`, `results`, `names`; per worker the job, the engines kept from the last game, the outcome | `pop`, `add_result`, `stop`, `done`, `set_name`, `print_results`, `thread_start`, `main`, `main_destroy`, `signal_handler` | `Tournament`, `MatchBook` |
| Sequential writer (`seqwriter.cpp`) | sorted buffer, next index, the file | `push`, `write_to_i`, destructor | `SeqBuffer`, `SeqWriter`, `OrderedLog` |
| Engines and deadlines (`engine.cpp`, `workers.cpp`) | `pid`, `in`, `out`; the deadline of each worker | `start`, `terminate`, `readln`, `writeln`, `wait_for_ok`, `bestmove`; `deadline_set`, `deadline_clear`, `deadline_overdue`, `deadline_callback_once`, `wait_callback_done` | `EngineIO` |
| Game (`game.cpp`, `Engine::bestmove`) | positions, clocks, adjudication counters, samples, the result | `play`, `bestmove`, `compute_time_left`, `decode_state` | `Game` |
| Position (`position.cpp`, `position.h`) | stones, move history, the side to move | `move`, `undo`, `transform`, `is_legal_move`, `gomostr_to_move`, openings in two notations, five in line, renju's forbidden points | `PackedMove`, `Board`, `Renju`, `RenjuRule`, `BoardPlay` |
| Samples (`game.cpp:546-763`) | none of their own | `export_samples` in csv, bin and binpack | `Samples`, with the games of `Game` |
| Openings (`openings.cpp`) | offsets of the lines, shuffled | constructor, `next` | `ScheduleLoops`, `Schedule`; the lines in `Board` |
| Options (`options.cpp`) | the option records | the options, sections, the merge of `-each`, the checks | `CommandLine` |
| SPRT (`sprt.cpp`) | none | `done`, `validate` | when a verdict is possible, in `Tournament`; `validate` in `CommandLine` |
| Utilities, vendored LZ4 and xxHash | | | only as their callers use them |

How they meet: a worker calls the queue (a mutex, held for a call), the sequential
writers (a mutex each), the sample file (the lock of the stdio stream) and its engines
(pipes). The main thread and a worker share that worker's deadline (a mutex) and,
through the callback of the deadline, the `Engine` object itself, which has no lock.
The exit handler `main_destroy` deletes all that is shared.

What is hard here, and what correctness means for each part:

- *Queue and workers.* Several locked calls make up the end of a game; SPRT empties the
  queue while games are in play; `DIE` runs the exit handler in one thread while others
  run on. Games must be dealt once and in order, be scored when they were dealt, the
  table must be the sum of the games, the names that are printed must be known, the
  program must end and destroy nothing that is in use.
- *Writer.* Games end in any order, `-loseonly` leaves gaps, SIGINT comes at any time.
  The file must be in order, complete at the end, and not lag behind without a reason.
- *Engines.* The main thread terminates an engine while the worker reads from it, writes
  to it, or has just been answered. The right engine must be hit, no closed stream be
  used, the two threads not wait for each other, a timeout be told from a crash, and
  every dialog end.
- *Game.* The side to move of the opening, `reverse` and the colours are combined in
  several places that must agree on who lost; `TURN` relies on what the engine was told
  before; adjudication counts moves of two engines; clocks are corrected for late moves.
- *Schedule and openings.* Nested loops count pairs, rounds and games; openings depend on
  the job number alone, over a file whose lines are shuffled in place.
- *Position.* A move is 16 bits with a margin of five points around the board; the board
  and the move history say the same twice; renju's threes and double threes are defined
  by each other, on boards with a stone more; lines are counted by loops that treat
  their two ends differently.
- *Samples.* A sample is written in three encodings and must read back as a position of the
  game; `-sample freq` leaves gaps that binpack fills.
- *Options.* `-each` is merged field by field into engines named before and after it, with
  0 for "not set"; some values are checked when they are read, some at the end.

The list `hazards` of `PROJECT.json` has each of these at its line.

## The modules and the code

**`Schedule`** gives `jobs[k]` in closed form, as a function of the options and `k`
(all other modules use it), with `FirstMover` and the opening of a job.
**`ScheduleLoops`** is the constructor of `JobQueue` as the loops it is, one call of
`job_queue_init_pair` per step, and shows that both agree; then the constructor of
`Openings`, the index of a file and its shuffle, one exchange per step.

**`SeqBuffer`** has `push` and the destructor as operators on a record
`[buf, idxNext, out]`; a game record is its number. `Tournament` uses the operators in
one step, because a mutex is held. **`SeqWriter`** takes the same operations apart: every
`fputs`, what stdio still holds, the flush, the destructor, and `_Exit` in between.
**`OrderedLog`** is what they promise: a file that grows along the sorted records.

**`Tournament`** composes the queue, the workers' loop, the writers, the sample file, the
main thread and the ways the process can end. An action is a locked call, or what a
thread does alone between two. `pc` names the place in `thread_start`; `job`, `ei`, `wld`
and `count` are its locals. The value of `sprt_llr` is a logarithm and left open, except
that there is no verdict before two of the three counts are positive.
**`MatchBook`** is its abstract specification: games are waiting, in play, scored or
cancelled, and are dealt in order.

**`EngineIO`** is one worker with its two engines and the main thread, at the grain of the
accesses to `pid`, `in`, `out` and the deadline, for POSIX. The engines are external:
they answer, send messages, hang where `setting` allows it, crash at any time. Time is one
bit, whether the deadline has passed. A worker waits in `getline` with the lock of the
stream, as stdio does; `ForceCloseIn` needs that lock. `setting`, chosen in the initial
state, says in which dialogs engines may hang and what the program does then
(`-fatalerror`, whether `main` polls, whether SIGPIPE ends the process).

**`Game`** is `Game::play` with `bestmove` inside: START of both engines, the loop of
turns, the order of the checks on an answer, samples, the result. A position is its
sequence of moves; whether it has a five or a move is forbidden in renju is left open
(with the minimum length of a five). `known`, what an engine has been told, belongs to
the environment. `opt`, chosen in the initial state, holds the options of the game.
`Five` is 5 in the code and smaller on the small board of a run.

**`PackedMove`** is a point and a move as the numbers they are, with the width of each
conversion; `Game`, `Samples` and the board use it. **`Board`** is `Position` as operators
on records `[board, hist, turn]`: `move`, `undo`, the transforms, the openings (an opening
is the sequence of the numbers in its line), and `check_five_in_line_side` over the lines
in the order of its loops. **`Renju`** is `isFive` to `isDoubleThree`, for black, which is
the only colour they are asked about; `setPiece` and `delPiece` around a question are a
board with a stone more. `isOpenThree` and `isDoubleThree` call each other: the second is
a recursive function, which the first has as a parameter. **`RenjuRule`** says what the
rules are, in windows of points and sets of stones: it is the reference and stands for no code.
**`BoardPlay`** puts `load_opening`, `game_apply_rules` and the checks of an answer
together: what `Game` leaves open is decided here.

**`Samples`** has the entries of the three formats as numbers and sequences; `Game` extends
it, so that every game of its run is written and read back.

**`CommandLine`** is `options_parse`: an action per kind of argument, then the merge and
the checks. Numbers and sections come converted and split.

`Tournament` takes a whole game for one step (`Play`), a dialog with an engine for part
of a step (`Start`, `Play`, `Quit`); `Game` and `EngineIO` open these steps. There is no
shared state between `Game` and `EngineIO` but the verdict on an engine that does not
answer, which `EngineIO` derives and `Game` takes as an input (`EngineFails`).

## Runs

Passing runs:

| Run | Bounds | Shows |
|---|---|---|
| `schedule` | up to 5 engines, 3 rounds, 4 games, 3 opening lines, with and without `-gauntlet` and `-repeat`, every shuffle | The loops compute the table of `Schedule`, and the place in `results[]`; every pair plays games × rounds games; with even `-games`, `-repeat` makes the two engines swap sides on an opening; no line comes twice in a round of the file, and the transform changes after all lines only. Three lines are few, but each exchange of the shuffle is like the one before. |
| `seqwriter` | 7 games, the fourth unsaved | All orders of pushes, the destructor or SIGINT anywhere: nothing lost or doubled, `OrderedLog` implemented, ready records written. Seven games put up to three records before and three behind the gap. |
| `tournament` | 2 workers, 3 engines, `-gauntlet`, 2 games of each of the two pairs, all files, samples, `-loseonly` | Games dealt once, the table is the games, engines follow the pair, names known when printed, files have the lost games, also after `DIE`, samples complete when `main` returns, `main_destroy` alone. Two pairs are needed for engines to be exchanged, two games per pair for them to be kept; with four games one worker can finish the first three of its own while the other is in one. |
| `sprt` | 2 workers, 4 games, `-sprt` | `MatchBook` is implemented, results only grow, dealt games are scored, the program ends. Four games are two for a verdict, one in play when it comes, one cancelled. |
| `engine_io` | 2 engines, unbounded number of games, two settings: hanging at START and at moves while `main` polls; no hanging, with `-fatalerror`, SIGPIPE and a `main` that may leave its loop | The forced termination hits the engine of the dialog, leaves consistent streams, cannot deadlock, is told from a crash; the program dies only for a cause; every dialog ends, and so does a worker without a job. |
| `game` | 4 points, 3 openings with either side to move, four settings: evaluations -1, 0, 1 with `-draw` 1, renju and `-resign` 2, or `-resign` 1 and `-sendbyboard`; clocks with `-drawafter` 2, match time 4, one turn limit, one increment, tolerance 2; clocks over more turns, match time 3, increment 1, tolerance 1 | Engines know the position when they think; records, samples and table agree on the loser; adjudication exactly at the end of its run of evaluations; the clocks are fair whatever the time of messages and moves. The samples of each of these games, with every choice of gaps between them, read back from csv, bin and binpack as the game. |
| `boardplay` | 9×9; some 180 shapes of stones, most of them all subsets of two to four of eight points on two lines through the centre, the others named ones (false threes, two fours in a line, overlines, walls, a full board, lines that do not fit), in two transforms, three rules; two answers of five | Board and history agree after openings, transforms and moves; exactly the move that makes five (or more, where that wins) ends the game; the forbidden points of the centre and of a neighbour are those of `RenjuRule`, in all eight transforms; openings read back in both notations. |
| `command_line` | up to 4 arguments of 22, legal or not | `-each` reaches every engine, field by field, the last one winning; what is accepted has two engines, a board that fits in its margin, a known rule and two hypotheses for SPRT. |

The state spaces of `Tournament`, `SeqWriter`, `Game` and `EngineIO` are finite without a
cut-off: counters end with the games and the board, `EngineIO` has none. `BoardPlay`
stops after `MaxMoves` answers, because its openings already bring the stones; a position
after an answer is judged like one after an opening. `CommandLine` reads `MaxArgs`
arguments: two engines, an `-each` before and one after them are four. The bounds are
constants of the configurations only. Worker symmetry is used in the run without temporal
properties.

Runs that find a disagreement between the code and what a comment or the README says:

| Run | Property | What happens |
|---|---|---|
| `wrong_kill` | `KillsOnlyTheLate` | Between `deadline_overdue` and `deadline_callback_once` the late engine answers and the next dialog begins: an engine that is not late is terminated. |
| `last_games` | `HungMovesEnd` | `main` stops polling when the last game is dealt: an engine that hangs after that is never terminated. |
| `failed_start` | `FailedStartIsRecorded` | The engine that fails at START loses in the table; the records name the side to move. |
| `off_board` | `OffBoardIsIllegal` | An answer outside of the board, whose coordinates name a free point modulo 32, is played there. |

Behaviours met while modelling that have no run of their own:

- A worker that is not in `string_getline` when the callback runs comes to `readln` or
  `writeln` while the main thread is between `fclose(in)` and `in = nullptr`
  (`engine.cpp:405-411`) and uses the closed stream, which the comment of
  `engine.cpp:422-423` excludes: `proc = "undefined"` in `EngineIO` is reachable.
- A write to an engine that has died raises SIGPIPE, which nobody ignores
  (`main.cpp:109`), so that the program ends before the failed `fflush` can be taken
  for the sign of a crash (`engine.cpp:454`): `proc = "sigpipe"` is reachable.
- Under `-fatalerror` the START deadline has an empty callback (`engine.cpp:474`): an
  engine that hangs there blocks its worker, where README.md:58 has the program
  terminate. `DialogsEnd` fails with `hangs = {"start"}` and `fatalError`.
- With odd `-games`, `-repeat` gives an opening to two pairs, or twice to the same side.
- `waitpid` has no limit: an engine that ignores END blocks its worker. `DialogsEnd` fails
  in a setting with `hangs = {"exit"}`.
- An engine that ignores ABOUT blocks its worker, and the branch of `main` that would
  `DIE` then is unreachable. `DialogsEnd` fails with `hangs = {"about"}`.
- `-each` without `tolerance` or `maxmemory` resets an engine's own to the default, which is
  not 0; `-each tc=0/5` keeps an engine's own match time. `EachReachesAllEngines` states
  the merge as it is.
- In binpack the last move of a gap has the evaluation of the first sample, a game with one
  sample is not written, and the moves after the last sample are not in the entry.
  `BinpackReplays` states what a reader can rely on.
- A repeated point in an opening is not noticed. A move that makes a five and an overline at
  once is a forbidden overline.
- A move that comes without a message before it is accepted up to the full tolerance
  (`engine.cpp:521`), one after a message up to half of it.

The setting of a run switches off what another run is about: `engine_io` lets SIGPIPE end
the process only where no engine hangs (it would end every behaviour at the first
crash), and lets no engine hang where the code cannot end
the wait. Outcomes of undefined behaviour are the value `"undefined"` of `proc`,
after which nothing is claimed.

## Fairness

- *Threads are scheduled.* `WF` on a worker's step, on the main thread's and on the
  threads inside `write_to_i`. Mutexes are held for a few instructions or, in
  `deadline_callback_once`, for the callback, which the model includes.
- *The clock runs* (`TimePasses`): deadlines are absolute times of a running clock.
- *Engines answer where the setting does not let them hang* (`SF` on `Answers`). The
  fairness is strong because an answer is impossible while an earlier message is unread in
  the pipe, which holds one line in the model: an engine that sends messages again and
  again and answers never would satisfy weak fairness. Nothing is assumed where an engine
  may hang, and no engine has to send messages or crash.
- *`Tournament`* assumes that `Play` and `Start` end. `EngineIO` shows when that is so
  (`DialogsEnd`), and the run `last_games` when it is not.
- Nothing is assumed of SIGINT, `DIE` or SPRT's verdict.

## Proofs

The theorems hold for all values of the constants that satisfy the `ASSUME`s of the
modules, which say no more than `options_parse` does: any finite set of workers, at least
two engines, any rounds and games, any sets of record files, any settings of an engine
process, boards of up to 22 rows and any opening on them, any command line. `Valid` in
`LibraryProofs` is what `options_parse` guarantees of a tournament. Every component has a
module of proofs.
Where an invariant needs a stronger one, the stronger one was first checked by TLC in the
run of the component. The steps of a proof are the actions of the model.

**`LibraryProofs`** has the lemmas that several components use. Of the schedule,
`EncounterType` and `JobType`: the `pair` of every job is an index
of `results[]` and its engines exist. `Encounter` is a `CHOOSE` by rank, the number of
earlier encounters. The ranks are an injection of the encounters into
`0 .. NumPairs - 1`, a set of the same cardinality, hence a surjection (`FS_Injection`):
each pair number is the rank of an encounter. `JobAt` gives the job at a place computed
from round, pair and game. Of the writer, lemmas about `push`, `write_to_i` and the
destructor: what `InsertSorted` inserts and that it keeps the order, that the written
prefix has no gap, that the destructor writes everything. Of loops: a loop of the code is
a recursive function over `0 .. n` in the models, and TLA+ defines such a function by a
`CHOOSE`. `LoopExists` shows that there is a function with the equations of the loop, so
that the `CHOOSE` finds one. `Induction`, which is `SmallestElement` turned around, then
carries an invariant from one turn of the loop to the next. Both speak of sets of numbers
and not of predicates, which the provers could not instantiate. `RecursionExists` is the
same for a recursion over boards: if every call lowers a measure, the function exists.

**`ScheduleLoopsProofs`.** `IInv` says where the loops are: the number of encounters
before `at` (`Passed`) is the length of `results[]` in the first loop nest and `pair` in
the second one, and `jobs[]` has `(r * NumPairs + pair) * games` entries, each of which is
`Job`. `NextPlace` is the heart of it: a step of the pair loops passes exactly the
encounter they were at, and they end when all are passed. From `IInv` follow
`LoopsFillTheTable` (hence the table that `Tournament` is built on is the one the code
builds), `SidesAreSwapped` (an even number of games keeps two jobs that share an opening
in one pair) and `AllPairsPlay`, by a bijection from rounds and games to the jobs of a
pair. `IndexInv`, that the index stays a permutation of the lines when two of them are
exchanged, gives `RoundsOfTheFile`.

**`SeqWriterProofs`.** `IInv` relates the buffer, the place in `write_to_i`, what stdio
holds and the file: the file and stdio's buffer are the first records of one sequence, at
`At(buf, idxNext, k)`, and the buffer has all pushed records from `idxNext` on, sorted.
`NothingLostNorDoubled` is not inductive without the order and the counters. From `IInv`
follow `RecordsKept` and, step by step, the refinement `WriterImplementsLog`.

**`TournamentProofs`** proves

    IInv == TypeOK /\ GamesDealtOnce /\ UndealtGamesUnscored /\ OutcomeKnown

`GamesDealtOnce` is not inductive alone: that a game just popped is not yet scored needs
that no game from `idx` on is scored (`UndealtGamesUnscored`, which holds because workers
hold games below `idx` only). `TypeOK` needs that a worker that adds a result has an
outcome (`OutcomeKnown`). From it follow `TypeCorrectness`, `DealtOnce`, `ResultsCorrect`
(one more entry in the table is one more game in `ScoredGames`, because the game was not
scored before), `ResultsGrow` and `NobodyUsesTheDestroyed`. Three more invariants are
proved on top of it:

- `CarryInv`: which engines a worker holds at each place, and that their names are known.
  `EnginesOfThePair` and `NamesKnown`.
- `BookInv`: a worker that is not in a game has scored its last one. With it each action
  is a step of `MatchBook` or a stutter: the refinement `BookKept`.
- `RecordsInv`: for each record file and the samples, the games given to it are those
  whose worker has passed that place (`Given`, `PlacesAfter`), and the writer has each of
  them once and in order. `FilesComplete` and `SamplesComplete`.

**`EngineIOProofs`.** `RunningInv` says for every place of the worker and of the main
thread what the two know of each other: a deadline is set exactly in a dialog
(`DeadlineCoversDialog`), the callback runs only for a worker that cannot leave its dialog
(`CallbackInDialog`), which combinations of `pid`, `in`, `out` and the child's state there
are (`EngineStates`), who is started, and why a dialog failed. `StreamsConsistent` alone
is broken by the steps inside of the callback, which it does not see. Nothing is claimed
after undefined behaviour, as in the runs (`Running`). From it follow
`RightEngineTerminated`, `StreamsStayConsistent`, `NoStreamDeadlock`, `DeathHasACause` and
the action property `VerdictsAreRight`.

**`GameProofs`.** `IInv` has a part for each table of the game. `KnownInv`: the engine
that waits lacks nothing, and the one whose turn begins lacks exactly the last move, if it
has got the board at all. `MoverInv`: `ei`, `names[]` and the turn name one engine.
`DrawRunInv` and `ResignRunInv`: a counter is the length of the run that the evaluations
end with, of both engines or of every other one, and the evaluation before the run is not
in it; without that last part "not a move later" cannot be proved. `ClockInv`: what is
left on a clock, turn by turn. From `IInv` follow `EnginesKnowTheGame`, `RecordIsRight`,
`SamplesAgree`, `ClocksFair`, `AdjudicationIsExact` and, with lemmas about packed moves
and points for boards of up to 22 rows, `SamplesAreReadBack`. `BinpackIsReplayed` is an
invariant along the loop that packs the samples: what the reader makes of the entries so
far is the game up to the last sample packed, with the gaps filled.

**`BoardPlayProofs`.** `Recorded` says of a position that the stones on the board are the
moves of the history, in turn and no two on a point. `move` onto a free point keeps it
(`MoveRecorded`). So does `transform`, because each transform is injective on the board
(`TransformInjective`, for any size). `StepByStep` shows that the recursion in
`ApplyOpening` defines the positions an opening comes through, and `OpeningRecorded` that
all of them are recorded. `UndoMove` and `StonesCounted` lead to `TwoRecordsAgree`.
`PositionsReadBack` shows number by number that what is printed of a recorded position is
parsed to its points again, and move by move that these make the same position.
`ScanFindsTheFives` says that the scan of all lines finds a five exactly if some stone of
the side is in one: along a line, `continueCount` is the length of the run of stones that
ends there, and each row, column and diagonal through a point is one of `Lines`.
`FiveByTheLastMove` adds that the stone of the last move is in that five, because before
the move there was none.

The renju part proves that the program and the rule agree on every board, to any depth of
threes that depend on further points (`ForbiddenPointsOfTheRule`):

1. Both are recursive functions on boards and sets of points. `RecursionExists` gives
   them the equations they are written with: a question about a point is asked with one
   empty point less than the question it comes from.
2. `Axis` makes a line through a point a set of whole numbers. On it, a run counted to
   the left and then to the right is five exactly if there is a five of the rule
   (`CountIs`, `LinesOfTheRule`), and the two ends where the loops stop are the only
   points that can make a line of four a five.
3. Fours: `isDoubleFour` counts two for a line that both ends make a five and that is no
   straight four; the rule counts sets of four stones. Both find two for the same stones
   (`FoursAre`, `DoubleFourIs`).
4. Threes: the point that makes the straight four may be looked for at the two ends of the
   line only (`OpenThreeIs`).
5. `VerdictIs` is one level of the recursion, `AllJudgedByTheRule` the induction on the
   number of empty points.

`RulesOfTransforms` is proved over the rule and carried to the program by the above. A
`Symmetry` maps points to points and directions to directions, up to sign; each of the
eight transforms is one (`TransformIsSymmetry`), because five steps from a point no line
has left the margin and come in on the other side. Fives, overlines, fours and straight
fours keep their numbers under it, so do threes if the points they ask about are judged
alike, and `FoulMoved` is again an induction on the number of free points.

What the proof found: `foul` was once a `CASE` whose guards for an overline and for a
five could both hold (a stone can make both, in two directions), so that its value was
whichever TLC took. It is now an `IF` in the order of the rule, overlines first.

Three hypotheses stand in the theorems of this module because the code checks none of them.
`OpeningsOnce`: a line of the opening file is a sequence of integers and names no point
twice (see the remarks above). `AnswersInMargin`: an answer fits in the bits of a point.
`OpeningsUndecided`, for `FiveByTheLastMove` only: an opening has no five of either side.
With one in it, of the side that does not move last in the opening, the scan of all lines
would end the game at that side's next move, wherever that move is. The run `boardplay`
meets all three. The run `off_board` shows what happens to answers outside of the margin;
`MarginIsIllegal` proves that inside of it what the assertion in `gomostr_to_move` says is
true.

**`CommandLineProofs`.** `OptionsFit` says what the checks made while the arguments are
read guarantee of the options, and the two checks at the end make `AcceptedIsPlayable` of
it (`AcceptedCanBePlayed`). `EachInv` says where the reading of engines is: `each` holds
what all the `-each` read so far give, and an engine what its own `-engine` gives, both
as the last setting of each field (`ParsedEngine`). The merge at the end fills the fields
an engine leaves unset (`MergeReaches`), so that the order of `-each` and `-engine` does
not matter (`EachReachesEveryEngine`).

Only model-checked:

- Liveness (`DialogsEnd`, `WorkerQuits`, `ReadyRecordsAreWritten`, `TournamentEnds`,
  `DealtGamesAreScored`), which TLAPS cannot prove under fairness.

Every invariant and every action property of the passing runs is stated by a theorem.

## Not modelled

- Texts: PGN, SGF and message formats, logs, the output of the table, Elo values.
- Failing system calls other than those that involve an engine, beyond that `DIE` may
  come at any place of a worker where one is made.
- The Windows branches of `engine.cpp`.
- The likelihood of SPRT and the random numbers of sampling and of the shuffle: every
  outcome is possible.
- A file without openings, for which the shuffle and `next` have undefined behaviour.
- Text to numbers: `atoi`, the characters of the notations, an option whose parameter is
  missing at the end of the command line.
- The bytes of a sample entry, the LZ4 frame and SIGINT inside it.
- The process that `fork` makes, when `chdir` or `execvp` fails in it.
- Vendored code in `src/extern`.

## Plan

Written first, because they carry the program: the queue and its workers, the schedule,
the writer, then engines with deadlines and the game; after them the position with
renju's rules, the samples, the openings and the command line. What is left:

1. Composition: several workers of `EngineIO` with one main thread, which polls them in
   turn and can wait in a callback for one while the others are late.
2. A forked child whose `execvp` fails and that runs `main_destroy` (`engine.cpp:276-277`):
   an extension of `SeqWriter` to two processes on one file.
3. The LZ4 frame with SIGINT on any thread; the lock of the stream is recursive, so that a
   handler on the writing thread enters it.
