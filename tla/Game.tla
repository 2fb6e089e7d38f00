-------------------------------- MODULE Game --------------------------------
(***************************************************************************)
(* One game (Game::play in game.cpp, Engine::bestmove in engine.cpp): the  *)
(* START of both engines, the turns with their clocks, the commands that   *)
(* tell an engine the position, the order in which an answer is judged,    *)
(* and the result, the record and the samples that come out of it.         *)
(*                                                                         *)
(* A position is the sequence of the points of its moves; their colours    *)
(* alternate.  Whether a move connects five, or is forbidden in renju, is  *)
(* left open: the module BoardPlay decides it from the stones.  One unit   *)
(* of time is the time a line needs at least.  The game is played without  *)
(* -fatalerror.                                                            *)
(***************************************************************************)
EXTENDS Samples, Integers, SequencesExt

CONSTANTS Cell,     \* the points of the board
          Five,     \* moves a position needs to have a five: 5 in the code
          Opening,  \* the openings of the file, sequences of cells
          Score,    \* the evaluations engines send
          Settings  \* the options of the games; one of them is chosen in Init

Player == {0, 1}   \* an index of engines[]

\* Options and EngineOptions, as far as a game looks at them
Options ==
  [renju : BOOLEAN, useTURN : BOOLEAN,
   drawAfter : Nat, drawCount : Nat, drawScore : Nat,
   resignCount : Nat, resignScore : Nat,
   matchTime : [Player -> Nat], turnTime : [Player -> Nat],
   increment : [Player -> Nat], tolerance : Nat]

ASSUME GameAssumption ==
  /\ IsFiniteSet(Cell) /\ Cell \subseteq Nat
  /\ Five \in Nat
  /\ Opening \subseteq Seq(Cell)
  /\ Score \subseteq Int
  /\ Settings \subseteq Options

\* options.cpp:292: a board has at most 22 rows.
ASSUME BoardAssumption == Cell \subseteq {POS(x, y) : x \in 0 .. 21, y \in 0 .. 21}

Color == {BLACK, WHITE}

LOSS == 0
DRAW == 1
WIN == 2

Losses == {"five_connect", "time_loss", "crashed", "illegal_move",
           "forbidden_move", "resign"}
Draws == {"insufficient_space", "draw_adjudication"}

Off == -1             \* an answer that is no free point of the board
Unlimited == 2147483647   \* INT32_MAX
Negative == -1        \* INT64_MIN: the turn is over

VARIABLES
  opt,        \* the options of this game
  reverse,    \* engines[reverse] moves first after the opening
  opened,     \* number of moves of the opening
  moves,      \* the moves of pos[ply]
  ei,         \* engines[ei] has the move; the engine at START before that
  canUseTurn,
  timeLeft,   \* timeLeft[], the clocks
  pc,         \* "start", "rules", "think", "judge", "over", "aborted"
  used,       \* bestmove: time since its start
  stopped,    \* bestmove: YXSTOP was written
  best, score,           \* what bestmove returned
  drawPlyCount, resignCount,
  samples,    \* the recorded positions, with the result from the view of the turn
  state,      \* STATE_*
  result,     \* what play returns
  known,      \* what each engine was told of the position (external)
  spent, turns, evals    \* history: time used, turns begun, evaluations judged

setup == <<opt, reverse, opened>>
clocks == <<timeLeft, used, stopped, spent, turns>>
counters == <<drawPlyCount, resignCount, evals>>
outcome == <<state, result, samples>>
vars == <<setup, moves, ei, canUseTurn, clocks, pc, best, score, counters,
          outcome, known>>

Unknown == <<Off>>

Renju == opt.renju             \* -rule 4
UseTURN == opt.useTURN         \* FALSE with -sendbyboard
DrawAfter == opt.drawAfter
DrawCount == opt.drawCount
DrawScore == opt.drawScore
ResignCount == opt.resignCount
ResignScore == opt.resignScore
MatchTime == opt.matchTime     \* the tc of each engine
TurnTime == opt.turnTime
Increment == opt.increment
Tolerance == opt.tolerance
Overhead == Tolerance \div 2   \* bestmove: moveOverhead

\* Evaluations that no option looks at are not told apart.
Evaluations == IF DrawCount + ResignCount = 0 THEN {0} ELSE Score

Init ==
  /\ opt \in Settings
  /\ reverse \in Player
  /\ moves \in Opening /\ opened = Len(moves)
  /\ ei = 0
  /\ canUseTurn = [e \in Player |-> FALSE]
  /\ timeLeft = MatchTime
  /\ pc = "start"
  /\ used = 0 /\ stopped = FALSE
  /\ best = Off /\ score = 0
  /\ drawPlyCount = 0 /\ resignCount = [e \in Player |-> 0]
  /\ samples = <<>> /\ state = "none" /\ result = -1
  /\ known = [e \in Player |-> Unknown]
  /\ spent = [e \in Player |-> 0] /\ turns = [e \in Player |-> 0]
  /\ evals = <<>>

Other(e) == 1 - e

\* pos[ply].get_turn() after n moves: openings begin with black
TurnAfter(n) == n % 2
Turn == TurnAfter(Len(moves))

\* Mutation: names[] does not look at the side that moves after the opening.
NameWithoutTurn(color) == (color + reverse) % 2

\* names[color], as the index of the engine: color ^ pos[0].get_turn() ^ reverse
Name(color) == (color + TurnAfter(opened) + reverse) % 2

\* play's return value when e lost
LostBy(e) == IF e = 0 THEN LOSS ELSE WIN

-----------------------------------------------------------------------------
\* START is written and OK comes back; gomocup_game_info_command follows.
StartOk ==
  /\ pc = "start"
  /\ known' = [known EXCEPT ![ei] = Unknown]
  /\ IF ei = 0 THEN ei' = 1 /\ UNCHANGED pc
               ELSE ei' = reverse /\ pc' = "rules"
  /\ UNCHANGED <<setup, moves, canUseTurn, clocks, best, score, counters, outcome>>

\* No OK: the engine crashed, was late, or answered ERROR.
StartFails ==
  /\ pc = "start"
  /\ state' \in {"crashed", "time_loss"}
  /\ result' = LostBy(ei)
  /\ pc' = "aborted"
  /\ UNCHANGED <<setup, moves, ei, canUseTurn, clocks, best, score, counters,
                 samples, known>>

\* Mutation: samples are filled with black's result, whoever had the turn.
FilledUnsigned(st, s) ==
  LET bpov == IF Turn = BLACK THEN LOSS ELSE WIN
  IN  [i \in DOMAIN s |-> [s[i] EXCEPT !.result = IF st \in Losses THEN bpov ELSE DRAW]]

\* The samples at the end of play: none, or with the result from the view of
\* the side that had the turn.
Filled(st, s) ==
  LET wpov == CASE st \notin Losses -> DRAW
                [] st \in Losses /\ Turn = WHITE -> LOSS
                [] st \in Losses /\ Turn = BLACK -> WIN
  IN  IF st \in {"time_loss", "crashed", "illegal_move"} THEN <<>>
      ELSE [i \in DOMAIN s |->
              [s[i] EXCEPT !.result = IF TurnAfter(Len(s[i].pos)) = WHITE THEN wpov
                                                                         ELSE 2 - wpov]]

\* break out of the loop of play with state st
Finish(st) ==
  /\ state' = st
  /\ samples' = Filled(st, samples)
  /\ result' = IF st \in Losses THEN LostBy(ei) ELSE DRAW
  /\ pc' = "over"

\* game_apply_rules, and -drawafter
GameEnds ==
  /\ pc = "rules"
  /\ \/ Len(moves) >= Five /\ Finish("five_connect")
     \/ Len(moves) = Cardinality(Cell) /\ Finish("insufficient_space")
     \/ /\ Len(moves) < Cardinality(Cell)
        /\ DrawAfter > 0 /\ Len(moves) >= DrawAfter
        /\ Finish("draw_adjudication")
  /\ UNCHANGED <<setup, moves, ei, canUseTurn, clocks, best, score, counters, known>>

\* compute_time_left
TurnClock(e) ==
  IF MatchTime[e] > 0 THEN timeLeft[e] + Increment[e] ELSE Unlimited

\* Mutation: an engine that has not got the board may be sent TURN.
TellAlwaysTurn ==
  IF moves = <<>> THEN <<>>
  ELSE IF UseTURN /\ known[ei] # Unknown THEN Append(known[ei], Last(moves))
       ELSE <<Last(moves)>>

\* What an engine knows after BEGIN, TURN or BOARD: TURN tells the last move.
Tell ==
  CASE moves = <<>> -> <<>>
    [] moves # <<>> /\ UseTURN /\ canUseTurn[ei] -> Append(known[ei], Last(moves))
    [] OTHER -> moves

\* The game goes on: the clock, the command, and bestmove begins.
BeginTurn ==
  /\ pc = "rules"
  /\ Len(moves) < Cardinality(Cell)
  /\ DrawAfter = 0 \/ Len(moves) < DrawAfter
  /\ timeLeft' = [timeLeft EXCEPT ![ei] = TurnClock(ei)]
  /\ canUseTurn' = [canUseTurn EXCEPT ![ei] = TRUE]
  /\ known' = [known EXCEPT ![ei] = Tell]
  /\ used' = 0 /\ stopped' = FALSE
  /\ turns' = [turns EXCEPT ![ei] = @ + 1]
  /\ pc' = "think"
  /\ UNCHANGED <<setup, moves, ei, spent, best, score, counters, outcome>>

-----------------------------------------------------------------------------
\* bestmove

\* min(timeLeft, maxTurnTime), from the start of the turn
Limit ==
  IF TurnTime[ei] > 0 /\ TurnTime[ei] < timeLeft[ei] THEN TurnTime[ei]
                                                    ELSE timeLeft[ei]

\* The times at which a line can come before the main thread ends the engine.
LineTimes == used + 1 .. Limit + Tolerance

\* A message.  The loop is left, and YXSTOP written, when it came too late.
EngineMessage ==
  /\ pc = "think"
  /\ used' \in LineTimes
  /\ stopped' = (stopped \/ used' > Limit + Overhead)
  /\ UNCHANGED <<setup, moves, ei, canUseTurn, timeLeft, spent, turns, pc, best,
                 score, counters, outcome, known>>

\* Mutation: time is counted from the last line, not from the start of the turn.
ClockSinceLastLine(now) ==
  IF stopped THEN Negative
  ELSE IF timeLeft[ei] > now - used THEN timeLeft[ei] - (now - used) ELSE 0

\* The clock that bestmove leaves after an answer at the time now
ClockAfter(now) ==
  IF stopped THEN Negative
  ELSE IF timeLeft[ei] > now THEN timeLeft[ei] - now ELSE 0

\* A move, on a free point of the board or not, is accepted whenever it comes.
EngineMove ==
  /\ pc = "think"
  /\ \E now \in LineTimes :
       /\ timeLeft' = [timeLeft EXCEPT ![ei] = ClockAfter(now)]
       /\ spent' = [spent EXCEPT ![ei] = @ + now]
       /\ used' = now
  /\ best' \in Cell \cup {Off}
  /\ score' \in Evaluations
  /\ pc' = "judge"
  /\ UNCHANGED <<setup, moves, ei, canUseTurn, stopped, turns, counters, outcome,
                 known>>

\* readln failed.
EngineFails ==
  /\ pc = "think"
  /\ \/ Finish("crashed") \/ Finish("time_loss")
  /\ UNCHANGED <<setup, moves, ei, canUseTurn, clocks, best, score, counters, known>>

-----------------------------------------------------------------------------
\* play, after bestmove returned true

\* ~is_legal_move
Illegal == best = Off \/ best \in ToSet(moves)

\* An engine without a time control is never out of time.
OutOfTime ==
  MatchTime[ei] + TurnTime[ei] + Increment[ei] > 0 /\ timeLeft[ei] < 0

\* The clock first, then the move.
LoseByMove ==
  /\ pc = "judge"
  /\ \/ OutOfTime /\ Finish("time_loss")
     \/ ~OutOfTime /\ Illegal /\ Finish("illegal_move")
     \/ /\ ~OutOfTime /\ ~Illegal
        /\ Renju /\ Turn = BLACK
        /\ Finish("forbidden_move")
  /\ UNCHANGED <<setup, moves, ei, canUseTurn, clocks, best, score, counters, known>>

Abs(n) == IF n < 0 THEN -n ELSE n

\* Mutation: a move that is not a draw does not end the run.
DrawRunKept ==
  IF DrawCount > 0 /\ Abs(score) <= DrawScore THEN drawPlyCount + 1 ELSE drawPlyCount

DrawRun ==
  IF DrawCount > 0 /\ Abs(score) <= DrawScore THEN drawPlyCount + 1 ELSE 0

ResignRun ==
  IF ResignCount > 0 /\ score <= -ResignScore THEN resignCount[ei] + 1 ELSE 0

AdjudicatedDraw == DrawCount > 0 /\ DrawRun >= 2 * DrawCount
AdjudicatedLoss == ResignCount > 0 /\ ResignRun >= ResignCount

\* A legal move whose evaluation ends the game: it is not played.
Adjudicate ==
  /\ pc = "judge" /\ ~OutOfTime /\ ~Illegal
  /\ evals' = Append(evals, score)
  /\ drawPlyCount' = DrawRun
  /\ \/ /\ AdjudicatedDraw
        /\ Finish("draw_adjudication")
        /\ UNCHANGED resignCount
     \/ /\ ~AdjudicatedDraw /\ AdjudicatedLoss
        /\ resignCount' = [resignCount EXCEPT ![ei] = ResignRun]
        /\ Finish("resign")
  /\ UNCHANGED <<setup, moves, ei, canUseTurn, clocks, best, score, known>>

\* The evaluation of a sample has 16 bits.
Saturated(n) ==
  CASE n > 32767 -> 32767 [] n < -32768 -> -32768 [] OTHER -> n

Sample == [pos |-> moves, move |-> best, result |-> -1, eval |-> Saturated(score)]

\* A sample is taken or not (-sample freq); the move is made and the other
\* engine has the move.
PlayMove ==
  /\ pc = "judge" /\ ~OutOfTime /\ ~Illegal
  /\ ~AdjudicatedDraw /\ ~AdjudicatedLoss
  /\ evals' = Append(evals, score)
  /\ drawPlyCount' = DrawRun
  /\ resignCount' = [resignCount EXCEPT ![ei] = ResignRun]
  /\ \/ samples' = Append(samples, Sample)
     \/ UNCHANGED samples
  /\ moves' = Append(moves, best)
  /\ known' = [known EXCEPT ![ei] = Append(@, best)]
  /\ ei' = Other(ei)
  /\ pc' = "rules"
  /\ UNCHANGED <<setup, canUseTurn, clocks, best, score, state, result>>

Over == pc \in {"over", "aborted"} /\ UNCHANGED vars

Next ==
  \/ StartOk \/ StartFails
  \/ GameEnds \/ BeginTurn
  \/ EngineMessage \/ EngineMove \/ EngineFails
  \/ LoseByMove \/ Adjudicate \/ PlayMove
  \/ Over

Spec == Init /\ [][Next]_vars

-----------------------------------------------------------------------------
(***************************************************************************)
(* When an engine is told to think it has the whole position: the opening, *)
(* its own moves and those of the other engine, whichever of BEGIN, TURN   *)
(* and BOARD it was sent (canUseTurn is kept per engine).                  *)
(***************************************************************************)
EnginesSeeTheBoard == pc = "think" => known[ei] = moves

\* decode_state: a lost game was lost by the side that has the turn.
RecordedLoser == Name(Turn)

\* play: RESULT_LOSS is a loss of engines[0]
ScoredLoser == IF result = LOSS THEN 0 ELSE 1

(***************************************************************************)
(* The colour that the PGN and SGF records and the log line say has lost   *)
(* is the colour of the engine that loses in the table: the opening, the   *)
(* turn and reverse are combined three times, in play (names[], ei) and in *)
(* decode_state.                                                           *)
(***************************************************************************)
RecordNamesTheLoser ==
  (pc = "over" /\ state \in Losses) => RecordedLoser = ScoredLoser

(***************************************************************************)
(* README.md:138: the result in a sample is the game's, seen from the side *)
(* to move in it.  An engine's samples then say what the table says of it. *)
(***************************************************************************)
SamplesAgreeWithResult ==
  pc = "over" =>
    \A i \in DOMAIN samples :
      samples[i].result = IF Name(TurnAfter(Len(samples[i].pos))) = 0 THEN result
                                                                     ELSE 2 - result

\* The game as the coordinates of its points
Played == [i \in DOMAIN moves |-> <<CoordX(moves[i]), CoordY(moves[i])>>]

FromNotation(pair) == <<pair[1], pair[2] - 1>>

(***************************************************************************)
(* README.md:138-157: what a reader gets out of a csv line and out of a    *)
(* bin entry is a position of the game with the move that was played in    *)
(* it, although the numbers in the file are not those of the program.      *)
(***************************************************************************)
SamplesReadBack ==
  pc = "over" =>
    \A i \in DOMAIN samples :
      LET entry == BinEntry(samples[i])  line == CsvLine(samples[i])
          read == Append(ReadMoves(entry.position), ReadPoint(entry.move))
          text == Append(line.pos, line.move)
      IN  /\ entry.ply = Len(entry.position) /\ entry.result = line.result
          /\ IsPrefix(read, Played)
          /\ read = [j \in DOMAIN text |-> FromNotation(text[j])]

(***************************************************************************)
(* README.md:161: the samples of a game make one entry of a binpack file,  *)
(* that replays the game from its first sample to its last: every position *)
(* sampled after the first is on the way, with its move and evaluation,    *)
(* however many moves were not sampled in between.                         *)
(***************************************************************************)
BinpackReplays ==
  pc = "over" /\ Len(samples) >= 2 =>
    /\ Len(Binpack(samples)) = 1
    /\ LET entry == Head(Binpack(samples))
           replay == ReadMoves(Replay(entry))
       IN  /\ IsPrefix(replay, Played)
           /\ Len(replay) = Len(Last(samples).pos) + 1
           /\ entry.result = Head(samples).result
           /\ Len(entry.opening) = Len(Head(samples).pos)
           /\ \A i \in 2 .. Len(samples) :
                entry.seq[Len(samples[i].pos) - Len(entry.opening) + 1].eval = samples[i].eval

\* The engine that gave evaluation number i.
Evaluator(i) == (reverse + i - 1) % 2

DrawnFrom(i) == \A j \in i .. Len(evals) : Abs(evals[j]) <= DrawScore

ResignedFrom(i) ==
  \A j \in i .. Len(evals) :
    Evaluator(j) = Evaluator(Len(evals)) => evals[j] <= -ResignScore

(***************************************************************************)
(* -draw and -resign: a game is adjudicated exactly when the last moves,   *)
(* DrawCount of each engine or ResignCount of one engine, were all within  *)
(* the score, with no move in between that was not; and not a move later.  *)
(***************************************************************************)
AdjudicatedByARun ==
  LET draw == /\ DrawCount > 0 /\ Len(evals) >= 2 * DrawCount
              /\ DrawnFrom(Len(evals) - 2 * DrawCount + 1)
      loss == /\ ResignCount > 0 /\ Len(evals) >= 2 * ResignCount - 1
              /\ ResignedFrom(Len(evals) - 2 * ResignCount + 2)
  IN  /\ state = "resign" => loss
      /\ (state = "draw_adjudication" /\ DrawAfter = 0) => draw
      /\ pc \in {"rules", "think"} => ~draw /\ ~loss

(***************************************************************************)
(* Nobody's clock runs wrong: an engine has at least what its match time   *)
(* and increments leave of the time it used, and it gains at most its      *)
(* tolerance in a turn that ends too late.                                 *)
(***************************************************************************)
ClocksAreFair ==
  \A e \in Player :
    LET due == MatchTime[e] + Increment[e] * turns[e] - spent[e]
    IN  (MatchTime[e] > 0 /\ timeLeft[e] # Negative) =>
          timeLeft[e] \in due .. due + Tolerance * turns[e]

(***************************************************************************)
(* README.md:58: an engine that fails at START has lost the game.  It is   *)
(* the engine that the records of the game name as the loser.              *)
(***************************************************************************)
FailedStartIsRecorded == pc = "aborted" => RecordedLoser = ScoredLoser
=============================================================================
