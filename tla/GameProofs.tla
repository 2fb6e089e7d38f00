----------------------------- MODULE GameProofs -----------------------------
(***************************************************************************)
(* Proofs about Game for every board, opening, set of options and range of *)
(* evaluations.  IInv is the inductive invariant: the mover is the engine  *)
(* that every later computation of it yields, what each engine was told    *)
(* lags behind the game by known moves, the clocks are off by what the     *)
(* turns before this one explain, and the two counters of a run of         *)
(* evaluations are the lengths of the runs that evals ends with.           *)
(***************************************************************************)
EXTENDS Game, LibraryProofs

\* The game goes on: both engines run.
Active == {"rules", "think", "judge"}

SampleType == [pos : Seq(Cell), move : Cell, result : Int, eval : Int]

PositionTypeOK ==
  /\ opt \in Settings /\ reverse \in Player /\ opened \in Nat
  /\ moves \in Seq(Cell)
  /\ ei \in Player
  /\ canUseTurn \in [Player -> BOOLEAN]
  /\ known \in [Player -> Seq(Int)]
  /\ best \in Cell \cup {Off} /\ score \in Int

ClockTypeOK ==
  /\ timeLeft \in [Player -> Int]
  /\ used \in Nat /\ stopped \in BOOLEAN
  /\ spent \in [Player -> Nat] /\ turns \in [Player -> Nat]

OutcomeTypeOK ==
  /\ pc \in Active \cup {"start", "over", "aborted"}
  /\ drawPlyCount \in Nat /\ resignCount \in [Player -> Nat]
  /\ evals \in Seq(Int)
  /\ samples \in Seq(SampleType)
  /\ state \in {"none"} \cup Losses \cup Draws
  /\ result \in {-1, LOSS, DRAW, WIN}

TypeOK == PositionTypeOK /\ ClockTypeOK /\ OutcomeTypeOK

\* Nothing has happened before the game starts.
StartInv ==
  pc = "start" =>
    /\ Len(moves) = opened
    /\ canUseTurn = [e \in Player |-> FALSE]
    /\ evals = <<>> /\ samples = <<>>

\* ei, names[] and the turn of the position name the same engine.
MoverInv ==
  /\ pc \in Active \cup {"over"} => ei = Name(Turn)
  /\ pc \in Active => ei = Evaluator(Len(evals) + 1)

\* An engine that has got the board lacks the last move when its turn begins,
\* and nothing else ever.
KnownInv ==
  /\ pc \in {"think", "judge"} => known[ei] = moves /\ canUseTurn[ei]
  /\ pc \in Active /\ canUseTurn[Other(ei)] => known[Other(ei)] = moves
  /\ pc = "rules" /\ canUseTurn[ei] =>
       moves # <<>> /\ moves = Append(known[ei], Last(moves))

\* The turns that are over can each have given an engine its tolerance.
TurnsOver(e) == IF pc = "think" /\ e = ei THEN turns[e] - 1 ELSE turns[e]

Due(e) == MatchTime[e] + Increment[e] * turns[e] - spent[e]
Late(e) == Tolerance * TurnsOver(e)

ClockOf(e) ==
  \/ timeLeft[e] >= 0 /\ timeLeft[e] \in Due(e) .. Due(e) + Late(e)
  \/ timeLeft[e] = Negative /\ pc \in {"judge", "over"} /\ e = ei

ClockInv ==
  /\ pc = "think" => turns[ei] > 0
  /\ \A e \in Player : MatchTime[e] > 0 => ClockOf(e)

\* drawPlyCount is the length of the run of draw scores that evals ends with.
DrawRunInv ==
  /\ drawPlyCount \in 0 .. Len(evals)
  /\ DrawCount = 0 => drawPlyCount = 0
  /\ DrawCount > 0 =>
       /\ drawPlyCount < 2 * DrawCount
       /\ DrawnFrom(Len(evals) - drawPlyCount + 1)
       /\ drawPlyCount < Len(evals) => Abs(evals[Len(evals) - drawPlyCount]) > DrawScore

\* The number of the last evaluation of e; 0 or less if it gave none.
LastOf(e) == IF Evaluator(Len(evals)) = e THEN Len(evals) ELSE Len(evals) - 1

\* resignCount[e] is the length of the run that the evaluations of e, every
\* other one, end with.
ResignRunInv(e) ==
  /\ ResignCount = 0 => resignCount[e] = 0
  /\ ResignCount > 0 =>
       /\ resignCount[e] < ResignCount
       /\ resignCount[e] > 0 => 2 * resignCount[e] - 1 <= LastOf(e)
       /\ \A j \in 1 .. LastOf(e) :
            j > LastOf(e) - 2 * resignCount[e] /\ Evaluator(j) = e =>
              evals[j] <= -ResignScore
       /\ LastOf(e) - 2 * resignCount[e] >= 1 =>
            evals[LastOf(e) - 2 * resignCount[e]] > -ResignScore

RunInv == pc \in Active \cup {"start"} => DrawRunInv /\ \A e \in Player : ResignRunInv(e)

\* The state says adjudicated only after such a run.
VerdictInv ==
  /\ pc \in Active \cup {"start"} => state = "none"
  /\ state = "resign" =>
       /\ ResignCount > 0 /\ Len(evals) >= 2 * ResignCount - 1
       /\ ResignedFrom(Len(evals) - 2 * ResignCount + 2)
  /\ state = "draw_adjudication" /\ DrawAfter = 0 =>
       /\ DrawCount > 0 /\ Len(evals) >= 2 * DrawCount
       /\ DrawnFrom(Len(evals) - 2 * DrawCount + 1)

\* The result of a lost game is the mover's loss.
ResultInv ==
  pc = "over" =>
    /\ state \in Losses => result = LostBy(ei)
    /\ SamplesAgreeWithResult

IInv ==
  /\ TypeOK /\ StartInv /\ MoverInv /\ KnownInv /\ ClockInv /\ RunInv
  /\ VerdictInv /\ ResultInv

-----------------------------------------------------------------------------
(***************************************************************************)
(* The options have the types that Options gives them.                     *)
(***************************************************************************)
LEMMA OptionTypes ==
  ASSUME TypeOK
  PROVE  /\ UseTURN \in BOOLEAN
         /\ DrawAfter \in Nat /\ DrawCount \in Nat /\ DrawScore \in Nat
         /\ ResignCount \in Nat /\ ResignScore \in Nat /\ Tolerance \in Nat
         /\ MatchTime \in [Player -> Nat] /\ TurnTime \in [Player -> Nat]
         /\ Increment \in [Player -> Nat]
         /\ Cell \subseteq Nat /\ Score \subseteq Int
BY GameAssumption
   DEF TypeOK, PositionTypeOK, Options, UseTURN, DrawAfter, DrawCount, DrawScore,
       ResignCount, ResignScore, Tolerance, MatchTime, TurnTime, Increment

(***************************************************************************)
(* The engines and turns are 0 and 1, and engines take turns.              *)
(***************************************************************************)
LEMMA Alternation ==
  ASSUME NEW i \in Int, TypeOK
  PROVE  /\ TurnAfter(i) \in Player /\ Turn \in Player
         /\ Evaluator(i) \in Player
         /\ Evaluator(i + 1) = Other(Evaluator(i))
         /\ TurnAfter(i + 1) = Other(TurnAfter(i))
<1>1. Len(moves) \in Nat /\ reverse \in {0, 1}
  BY DEF TypeOK, PositionTypeOK, Player
<1> QED
  BY <1>1 DEF Player, TurnAfter, Turn, Evaluator, Other

(***************************************************************************)
(* What the end of play does to the samples: none is left, or each keeps   *)
(* its position and move and gets the loss if the loser had its turn.      *)
(***************************************************************************)
LEMMA FilledSamples ==
  ASSUME TypeOK, NEW st, NEW s \in Seq(SampleType)
  PROVE  /\ Filled(st, s) \in Seq(SampleType)
         /\ \A i \in DOMAIN Filled(st, s) :
              /\ i \in DOMAIN s
              /\ Filled(st, s)[i].pos = s[i].pos
              /\ Filled(st, s)[i].move = s[i].move
              /\ Filled(st, s)[i].result =
                   IF st \notin Losses THEN DRAW
                   ELSE IF TurnAfter(Len(s[i].pos)) = Turn THEN LOSS ELSE WIN
<1> DEFINE wpov == CASE st \notin Losses -> DRAW
                     [] st \in Losses /\ Turn = WHITE -> LOSS
                     [] st \in Losses /\ Turn = BLACK -> WIN
           sign(i) == IF TurnAfter(Len(s[i].pos)) = WHITE THEN wpov ELSE 2 - wpov
           filled == [i \in DOMAIN s |-> [s[i] EXCEPT !.result = sign(i)]]
<1>1. wpov = IF st \notin Losses THEN DRAW ELSE IF Turn = WHITE THEN LOSS ELSE WIN
  BY Alternation, 0 \in Int DEF Player, WHITE, BLACK
<1> HIDE DEF wpov
<1>2. \A i \in DOMAIN s : s[i] \in SampleType
  OBVIOUS
<1>3. \A i \in DOMAIN s :
        sign(i) = IF st \notin Losses THEN DRAW
                  ELSE IF TurnAfter(Len(s[i].pos)) = Turn THEN LOSS ELSE WIN
  <2> SUFFICES ASSUME NEW i \in DOMAIN s
               PROVE  sign(i) = IF st \notin Losses THEN DRAW
                                ELSE IF TurnAfter(Len(s[i].pos)) = Turn THEN LOSS ELSE WIN
    OBVIOUS
  <2>1. Len(s[i].pos) \in Int
    BY <1>2 DEF SampleType
  <2>2. TurnAfter(Len(s[i].pos)) \in {0, 1} /\ Turn \in {0, 1}
    BY <2>1, Alternation DEF Player
  <2> QED
    BY <1>1, <2>2 DEF WHITE, LOSS, DRAW, WIN
<1> HIDE DEF sign
<1>4. \A i \in DOMAIN s : sign(i) \in Int
  BY <1>3 DEF LOSS, DRAW, WIN
<1>5. \A i \in DOMAIN s :
        /\ filled[i] \in SampleType /\ filled[i].result = sign(i)
        /\ filled[i].pos = s[i].pos /\ filled[i].move = s[i].move
  BY <1>2, <1>4 DEF SampleType
<1>6. filled \in Seq(SampleType) /\ DOMAIN filled = DOMAIN s
  <2>1. DOMAIN s = 1 .. Len(s) /\ Len(s) \in Nat
    OBVIOUS
  <2>2. filled \in [1 .. Len(s) -> SampleType]
    BY <1>5, <2>1
  <2> HIDE DEF filled
  <2> QED
    BY <2>1, <2>2, SeqDef
<1>7. Filled(st, s) = IF st \in {"time_loss", "crashed", "illegal_move"} THEN <<>> ELSE filled
  BY DEF Filled, sign, wpov
<1> HIDE DEF filled
<1>8. CASE st \in {"time_loss", "crashed", "illegal_move"}
  BY <1>7, <1>8, EmptySeq
<1>9. CASE st \notin {"time_loss", "crashed", "illegal_move"}
  BY <1>3, <1>5, <1>6, <1>7, <1>9
<1> QED
  BY <1>8, <1>9

-----------------------------------------------------------------------------
(***************************************************************************)
(* Types: Finish and the actions.                                          *)
(***************************************************************************)
LEMMA FinishTypes ==
  ASSUME TypeOK, NEW st \in Losses \cup Draws, Finish(st)
  PROVE  /\ pc' = "over" /\ state' = st
         /\ samples' \in Seq(SampleType)
         /\ result' = IF st \in Losses THEN LostBy(ei) ELSE DRAW
         /\ result' \in {LOSS, DRAW, WIN}
BY FilledSamples DEF Finish, TypeOK, OutcomeTypeOK, LostBy

FinishingStep == GameEnds \/ EngineFails \/ LoseByMove \/ Adjudicate

\* A step that ends the loop of play finishes the game with some state.
LEMMA FinishingSteps ==
  ASSUME FinishingStep
  PROVE  \E st \in Losses \cup Draws :
           /\ Finish(st)
           /\ st = "resign" => Adjudicate /\ ~AdjudicatedDraw
           /\ st = "draw_adjudication" =>
                DrawAfter > 0 \/ (Adjudicate /\ AdjudicatedDraw)
BY DEF FinishingStep, GameEnds, EngineFails, LoseByMove, Adjudicate, Losses, Draws

LEMMA InitIInv == Init => IInv
<1> SUFFICES ASSUME Init PROVE IInv
  OBVIOUS
<1>1. moves \in Seq(Cell) /\ opt \in Options
  BY GameAssumption DEF Init
<1>2. TypeOK
  <2>1. MatchTime \in [Player -> Nat]
    BY <1>1 DEF Options, MatchTime
  <2>2. PositionTypeOK
    BY <1>1 DEF Init, PositionTypeOK, Player, Off, Unknown
  <2>3. ClockTypeOK
    <3>1. timeLeft = MatchTime /\ timeLeft \in [Player -> Int]
      BY <2>1 DEF Init
    <3> QED
      BY <3>1 DEF Init, ClockTypeOK
  <2>4. OutcomeTypeOK
    BY EmptySeq DEF Init, OutcomeTypeOK, Active
  <2> QED
    BY <2>2, <2>3, <2>4 DEF TypeOK
<1>3. ClockInv
  BY <1>2, OptionTypes DEF Init, ClockInv, ClockOf, Due, Late, TurnsOver, Player
<1>4. StartInv /\ MoverInv /\ KnownInv /\ VerdictInv /\ ResultInv
  BY DEF Init, StartInv, MoverInv, KnownInv, Active, VerdictInv, ResultInv
<1>5. DrawRunInv
  BY <1>2, OptionTypes DEF Init, DrawRunInv, DrawnFrom
<1>6. ASSUME NEW e \in Player PROVE ResignRunInv(e)
  <2>1. LastOf(e) \in {-1, 0} /\ resignCount[e] = 0
    BY DEF Init, LastOf
  <2> QED
    BY <1>2, <2>1, OptionTypes DEF ResignRunInv
<1> QED
  BY <1>2, <1>3, <1>4, <1>5, <1>6 DEF IInv, RunInv

LEMMA NextTypes ==
  ASSUME TypeOK, [Next]_vars
  PROVE  TypeOK'
<1> USE DEF setup, clocks, counters, outcome, Active
<1>0. PositionTypeOK /\ ClockTypeOK /\ OutcomeTypeOK
  BY DEF TypeOK
<1>1. CASE StartOk
  <2>1. PositionTypeOK'
    BY <1>0, <1>1 DEF StartOk, PositionTypeOK, Unknown, Off, Player
  <2>2. ClockTypeOK' /\ OutcomeTypeOK'
    BY <1>0, <1>1 DEF StartOk, ClockTypeOK, OutcomeTypeOK
  <2> QED
    BY <2>1, <2>2 DEF TypeOK
<1>2. CASE StartFails
  <2>1. PositionTypeOK' /\ ClockTypeOK'
    BY <1>0, <1>2 DEF StartFails, PositionTypeOK, ClockTypeOK
  <2>2. OutcomeTypeOK'
    BY <1>0, <1>2 DEF StartFails, OutcomeTypeOK, Losses, LostBy
  <2> QED
    BY <2>1, <2>2 DEF TypeOK
<1>5. /\ DrawRun \in Nat /\ ResignRun \in Nat
      /\ \A now \in LineTimes : now \in Nat
  <2>1. DrawRun \in Nat /\ ResignRun \in Nat
    BY <1>0 DEF DrawRun, ResignRun, OutcomeTypeOK, PositionTypeOK
  <2>2. \A now \in LineTimes : now \in Nat
    BY <1>0, OptionTypes DEF LineTimes, Limit, ClockTypeOK, PositionTypeOK
  <2> QED
    BY <2>1, <2>2
<1>3. CASE FinishingStep
  <2>1. PICK st \in Losses \cup Draws : Finish(st)
    BY <1>3, FinishingSteps
  <2>2. /\ pc' = "over" /\ state' = st /\ samples' \in Seq(SampleType)
        /\ result' \in {LOSS, DRAW, WIN}
    BY <2>1, FinishTypes
  <2>3. PositionTypeOK' /\ ClockTypeOK'
    BY <1>0, <1>3 DEF FinishingStep, GameEnds, EngineFails, LoseByMove, Adjudicate,
                      PositionTypeOK, ClockTypeOK
  <2>4. drawPlyCount' \in Nat /\ resignCount' \in [Player -> Nat] /\ evals' \in Seq(Int)
    <3>1. CASE GameEnds \/ EngineFails \/ LoseByMove
      BY <1>0, <3>1 DEF GameEnds, EngineFails, LoseByMove, OutcomeTypeOK
    <3>2. CASE Adjudicate
      <4>1. /\ drawPlyCount' = DrawRun /\ evals' = Append(evals, score)
            /\ \/ resignCount' = resignCount
               \/ resignCount' = [resignCount EXCEPT ![ei] = ResignRun]
        BY <3>2 DEF Adjudicate
      <4>2. drawPlyCount' \in Nat /\ evals' \in Seq(Int)
        BY <1>0, <1>5, <4>1 DEF OutcomeTypeOK, PositionTypeOK
      <4>3. resignCount' \in [Player -> Nat]
        BY <1>0, <1>5, <4>1 DEF OutcomeTypeOK, PositionTypeOK
      <4> QED
        BY <4>2, <4>3
    <3> QED
      BY <1>3, <3>1, <3>2 DEF FinishingStep
  <2> QED
    BY <1>0, <2>2, <2>3, <2>4 DEF TypeOK, OutcomeTypeOK
<1>4. CASE BeginTurn
  <2>1. TurnClock(ei) \in Int
    <3>1. timeLeft[ei] \in Int /\ Increment[ei] \in Nat
      BY <1>0, OptionTypes DEF ClockTypeOK, PositionTypeOK
    <3>2. Unlimited \in Int
      BY SMT DEF Unlimited
    <3> QED
      BY <3>1, <3>2 DEF TurnClock
  <2>2. Tell \in Seq(Int)
    <3>1. moves \in Seq(Int) /\ known[ei] \in Seq(Int)
      BY <1>0, OptionTypes DEF PositionTypeOK
    <3>2. moves # <<>> => Last(moves) \in Int
      BY <3>1 DEF Last
    <3> QED
      BY <3>1, <3>2 DEF Tell
  <2>3. PositionTypeOK'
    BY <1>0, <1>4, <2>2 DEF BeginTurn, PositionTypeOK
  <2>4. ClockTypeOK'
    <3>1. /\ timeLeft' = [timeLeft EXCEPT ![ei] = TurnClock(ei)]
          /\ used' = 0 /\ stopped' = FALSE /\ spent' = spent
          /\ turns' = [turns EXCEPT ![ei] = @ + 1]
      BY <1>4 DEF BeginTurn
    <3>2. timeLeft' \in [Player -> Int]
      BY <1>0, <2>1, <3>1 DEF ClockTypeOK, PositionTypeOK
    <3>3. turns' \in [Player -> Nat]
      BY <1>0, <3>1 DEF ClockTypeOK, PositionTypeOK
    <3> QED
      BY <1>0, <3>1, <3>2, <3>3 DEF ClockTypeOK
  <2>5. OutcomeTypeOK'
    BY <1>0, <1>4 DEF BeginTurn, OutcomeTypeOK
  <2> QED
    BY <2>3, <2>4, <2>5 DEF TypeOK
<1>6. CASE EngineMessage
  BY <1>0, <1>5, <1>6 DEF EngineMessage, TypeOK, PositionTypeOK, ClockTypeOK, OutcomeTypeOK
<1>7. CASE EngineMove
  <2>1. PICK now \in LineTimes :
          /\ timeLeft' = [timeLeft EXCEPT ![ei] = ClockAfter(now)]
          /\ spent' = [spent EXCEPT ![ei] = @ + now]
          /\ used' = now
    BY <1>7 DEF EngineMove
  <2>2. now \in Nat /\ ClockAfter(now) \in Int
    BY <1>0, <1>5 DEF ClockAfter, Negative, ClockTypeOK, PositionTypeOK
  <2>3. score' \in Int
    BY <1>7, OptionTypes DEF EngineMove, Evaluations
  <2>4. ClockTypeOK'
    BY <1>0, <1>7, <2>1, <2>2 DEF EngineMove, ClockTypeOK, PositionTypeOK
  <2>5. PositionTypeOK'
    BY <1>0, <1>7, <2>3 DEF EngineMove, PositionTypeOK
  <2>6. OutcomeTypeOK'
    BY <1>0, <1>7 DEF EngineMove, OutcomeTypeOK
  <2> QED
    BY <2>4, <2>5, <2>6 DEF TypeOK
<1>8. CASE PlayMove
  <2>1. best \in Cell /\ best \in Int /\ Saturated(score) \in Int
    BY <1>0, <1>8, OptionTypes, SMT DEF PlayMove, Illegal, PositionTypeOK, Saturated
  <2>2. Sample \in SampleType
    BY <1>0, <2>1 DEF Sample, SampleType, PositionTypeOK
  <2>3. drawPlyCount' \in Nat /\ resignCount' \in [Player -> Nat] /\ evals' \in Seq(Int)
    BY <1>0, <1>5, <1>8 DEF PlayMove, OutcomeTypeOK, PositionTypeOK
  <2>4. ei' \in Player
    BY <1>0, <1>8 DEF PlayMove, Other, Player, PositionTypeOK
  <2>5. moves' \in Seq(Cell) /\ known' \in [Player -> Seq(Int)]
    BY <1>0, <1>8, <2>1 DEF PlayMove, PositionTypeOK
  <2>6. samples' \in Seq(SampleType)
    <3> HIDE DEF outcome
    <3>1. samples' = Append(samples, Sample) \/ samples' = samples
      BY <1>8 DEF PlayMove
    <3>2. samples \in Seq(SampleType)
      BY <1>0 DEF OutcomeTypeOK
    <3> QED
      BY <2>2, <3>1, <3>2, AppendProperties
  <2>7. PositionTypeOK'
    BY <1>0, <1>8, <2>4, <2>5 DEF PlayMove, PositionTypeOK
  <2>8. ClockTypeOK' /\ OutcomeTypeOK'
    BY <1>0, <1>8, <2>3, <2>6 DEF PlayMove, ClockTypeOK, OutcomeTypeOK
  <2> QED
    BY <2>7, <2>8 DEF TypeOK
<1>9. CASE UNCHANGED vars
  BY <1>0, <1>9 DEF vars, TypeOK, PositionTypeOK, ClockTypeOK, OutcomeTypeOK
<1> QED
  BY <1>1, <1>2, <1>3, <1>4, <1>6, <1>7, <1>8, <1>9 DEF Next, Over, FinishingStep

-----------------------------------------------------------------------------
(***************************************************************************)
(* The actions by what they leave alone.                                   *)
(***************************************************************************)
LEMMA StepCases ==
  ASSUME [Next]_vars
  PROVE  \/ StartOk \/ StartFails \/ FinishingStep \/ BeginTurn
         \/ EngineMessage \/ EngineMove \/ PlayMove \/ UNCHANGED vars
BY DEF Next, Over, FinishingStep

\* The game's end is no turn: it changes neither the position nor the clocks.
LEMMA FinishingFrame ==
  ASSUME FinishingStep
  PROVE  /\ UNCHANGED <<setup, moves, ei, canUseTurn, clocks, known>>
         /\ pc \in Active /\ pc' = "over"
         /\ UNCHANGED evals \/ (pc = "judge" /\ evals' = Append(evals, score))
BY DEF FinishingStep, GameEnds, EngineFails, LoseByMove, Adjudicate, Finish, Active,
       counters

\* A turn that begins or goes on, up to the answer.
TurnStep == BeginTurn \/ EngineMessage \/ EngineMove

LEMMA TurnFrame ==
  ASSUME TurnStep
  PROVE  /\ UNCHANGED <<setup, moves, ei, counters, outcome>>
         /\ pc \in Active /\ pc' \in Active
BY DEF TurnStep, BeginTurn, EngineMessage, EngineMove, Active

LEMMA StartStep ==
  ASSUME IInv, [Next]_vars
  PROVE  StartInv'
<1> USE DEF Active, setup, counters, outcome
<1>1. CASE StartOk
  BY <1>1 DEF StartOk, IInv, StartInv
<1>2. CASE StartFails
  BY <1>2 DEF StartFails, StartInv
<1>3. CASE FinishingStep
  BY <1>3, FinishingFrame DEF StartInv
<1>4. CASE TurnStep
  BY <1>4, TurnFrame DEF StartInv
<1>5. CASE PlayMove
  BY <1>5 DEF PlayMove, StartInv
<1>6. CASE UNCHANGED vars
  BY <1>6 DEF vars, IInv, StartInv
<1> QED
  BY <1>1, <1>2, <1>3, <1>4, <1>5, <1>6, StepCases DEF TurnStep

(***************************************************************************)
(* The mover and the turn change together.                                 *)
(***************************************************************************)
LEMMA MoverStep ==
  ASSUME IInv, [Next]_vars
  PROVE  MoverInv'
<1> USE DEF Active, setup, counters, outcome
<1>0. /\ reverse \in {0, 1} /\ opened \in Nat /\ Len(moves) \in Nat /\ Len(evals) \in Nat
      /\ ei \in {0, 1}
  BY DEF IInv, TypeOK, PositionTypeOK, OutcomeTypeOK, Player
<1>1. CASE StartOk
  <2>1. CASE pc' = "start"
    BY <2>1 DEF MoverInv
  <2>2. CASE pc' # "start"
    <3>1. /\ ei' = reverse /\ reverse' = reverse /\ opened' = opened /\ moves' = moves
          /\ evals' = <<>> /\ Len(moves) = opened
      BY <1>1, <2>2 DEF StartOk, IInv, StartInv
    <3>2. Name(Turn)' = reverse
      BY <1>0, <3>1 DEF Name, Turn, TurnAfter
    <3>3. Evaluator(Len(evals) + 1)' = reverse
      BY <1>0, <3>1 DEF Evaluator
    <3> QED
      BY <3>1, <3>2, <3>3 DEF MoverInv
  <2> QED
    BY <2>1, <2>2
<1>2. CASE StartFails
  BY <1>2 DEF StartFails, MoverInv
<1>3. CASE FinishingStep
  BY <1>3, FinishingFrame DEF IInv, MoverInv, Name, Turn
<1>4. CASE TurnStep
  BY <1>4, TurnFrame DEF IInv, MoverInv, Name, Turn, Evaluator
<1>5. CASE PlayMove
  <2>1. /\ reverse' = reverse /\ opened' = opened /\ moves' = Append(moves, best)
        /\ evals' = Append(evals, score) /\ ei' = 1 - ei /\ pc \in Active
    BY <1>5 DEF PlayMove, Other
  <2>2. Len(moves') = Len(moves) + 1 /\ Len(evals') = Len(evals) + 1
    BY <2>1 DEF IInv, TypeOK, PositionTypeOK, OutcomeTypeOK
  <2>3. ei = ((Len(moves) % 2) + (opened % 2) + reverse) % 2
        /\ ei = (reverse + Len(evals)) % 2
    BY <1>0, <2>1 DEF IInv, MoverInv, Name, Turn, TurnAfter, Evaluator
  <2>4. ASSUME NEW m \in Nat, NEW o \in Nat, NEW b \in Nat
        PROVE  /\ (((m + 1) % 2) + (o % 2) + b) % 2 = 1 - (((m % 2) + (o % 2) + b) % 2)
               /\ (b + (m + 1)) % 2 = 1 - ((b + m) % 2)
    BY ONLY <2>4, SMTT(30)
  <2>5. /\ ei' = ((Len(moves') % 2) + (opened' % 2) + reverse') % 2
        /\ ei' = (reverse' + Len(evals')) % 2
    BY <1>0, <2>1, <2>2, <2>3, <2>4
  <2> QED
    BY <1>0, <2>1, <2>2, <2>5 DEF MoverInv, Name, Turn, TurnAfter, Evaluator
<1>6. CASE UNCHANGED vars
  BY <1>6 DEF vars, IInv, MoverInv, Name, Turn, Evaluator
<1> QED
  BY <1>1, <1>2, <1>3, <1>4, <1>5, <1>6, StepCases DEF TurnStep

(***************************************************************************)
(* What engines know: BEGIN, TURN and BOARD bring the mover up to date, an *)
(* engine sees its own move, and the other engine then lacks that move.    *)
(***************************************************************************)
LEMMA KnownStep ==
  ASSUME IInv, [Next]_vars
  PROVE  KnownInv'
<1> USE DEF Active, setup, counters, outcome
<1>0. /\ ei \in Player /\ Other(ei) \in Player /\ Other(ei) # ei
      /\ Other(Other(ei)) = ei
      /\ known \in [Player -> Seq(Int)] /\ canUseTurn \in [Player -> BOOLEAN]
      /\ moves \in Seq(Cell)
  BY DEF IInv, TypeOK, PositionTypeOK, Player, Other
<1>1. CASE StartOk
  <2>1. pc' = "start" \/ (pc' = "rules" /\ ei' = reverse)
    BY <1>1 DEF StartOk
  <2>2. reverse \in Player /\ Other(reverse) \in Player
    BY DEF IInv, TypeOK, PositionTypeOK, Player, Other
  <2>3. canUseTurn' = [e \in Player |-> FALSE]
    BY <1>1 DEF StartOk, IInv, StartInv
  <2> QED
    BY <2>1, <2>2, <2>3 DEF KnownInv
<1>2. CASE StartFails
  BY <1>2 DEF StartFails, KnownInv
<1>3. CASE FinishingStep
  BY <1>3, FinishingFrame DEF KnownInv
<1>4. CASE BeginTurn
  <2>1. Tell = moves
    <3>1. CASE moves = <<>>
      BY <3>1 DEF Tell
    <3>2. CASE moves # <<>> /\ UseTURN /\ canUseTurn[ei]
      BY <1>4, <3>2 DEF Tell, BeginTurn, IInv, KnownInv
    <3>3. CASE moves # <<>> /\ ~(UseTURN /\ canUseTurn[ei])
      BY <3>3 DEF Tell
    <3> QED
      BY <3>1, <3>2, <3>3
  <2>2. /\ known' = [known EXCEPT ![ei] = moves]
        /\ canUseTurn' = [canUseTurn EXCEPT ![ei] = TRUE]
        /\ pc = "rules" /\ pc' = "think" /\ ei' = ei /\ moves' = moves
    BY <1>4, <2>1 DEF BeginTurn
  <2> QED
    BY <1>0, <2>2 DEF IInv, KnownInv
<1>5. CASE EngineMessage \/ EngineMove
  BY <1>5 DEF EngineMessage, EngineMove, IInv, KnownInv
<1>6. CASE PlayMove
  <2>1. /\ moves' = Append(moves, best)
        /\ known' = [known EXCEPT ![ei] = Append(@, best)]
        /\ ei' = Other(ei) /\ pc = "judge" /\ pc' = "rules" /\ canUseTurn' = canUseTurn
        /\ best \in Cell
    BY <1>6 DEF PlayMove, Illegal, IInv, TypeOK, PositionTypeOK
  <2>2. known'[Other(ei')] = moves'
    BY <1>0, <2>1 DEF IInv, KnownInv
  <2>3. canUseTurn'[ei'] => known'[ei'] = moves
    BY <1>0, <2>1 DEF IInv, KnownInv
  <2>4. moves' # <<>> /\ Last(moves') = best
    <3>1. Len(moves') = Len(moves) + 1 /\ moves'[Len(moves) + 1] = best
      BY <1>0, <2>1, AppendProperties
    <3>2. Len(<<>>) = 0 /\ Len(moves) \in Nat
      BY <1>0
    <3> QED
      BY <3>1, <3>2 DEF Last
  <2> QED
    BY <2>1, <2>2, <2>3, <2>4 DEF KnownInv
<1>7. CASE UNCHANGED vars
  BY <1>7 DEF vars, IInv, KnownInv
<1> QED
  BY <1>1, <1>2, <1>3, <1>4, <1>5, <1>6, <1>7, StepCases

-----------------------------------------------------------------------------
\* One turn more
LEMMA Distribute ==
  ASSUME NEW a \in Nat, NEW n \in Nat
  PROVE  a * (n + 1) = a * n + a /\ a * n \in Nat /\ (n > 0 => a * n = a * (n - 1) + a)
OBVIOUS

(***************************************************************************)
(* The clocks: a turn adds the increment, and takes off what it used, but  *)
(* no more than is left, which is short of that by the tolerance at most.  *)
(***************************************************************************)
LEMMA ClockStep ==
  ASSUME IInv, [Next]_vars
  PROVE  ClockInv'
<1> USE DEF Active, setup, clocks, counters, outcome
<1>0. /\ ei \in Player /\ timeLeft \in [Player -> Int]
      /\ spent \in [Player -> Nat] /\ turns \in [Player -> Nat]
      /\ MatchTime \in [Player -> Nat] /\ Increment \in [Player -> Nat]
      /\ TurnTime \in [Player -> Nat] /\ Tolerance \in Nat
      /\ pc = "think" => turns[ei] > 0
  BY OptionTypes DEF IInv, TypeOK, PositionTypeOK, ClockTypeOK, ClockInv
<1>1. opt' = opt /\ MatchTime' = MatchTime /\ Increment' = Increment /\ Tolerance' = Tolerance
  BY StepCases, FinishingFrame, TurnFrame
     DEF StartOk, StartFails, TurnStep, PlayMove, vars, MatchTime, Increment, Tolerance
<1>2. ASSUME NEW e \in Player
      PROVE  /\ TurnsOver(e) \in Nat /\ Due(e) \in Int /\ Late(e) \in Nat
             /\ Increment[e] * turns[e] \in Nat /\ Tolerance * turns[e] \in Nat
  <2>1. TurnsOver(e) \in Nat
    BY <1>0 DEF TurnsOver
  <2>2. Tolerance * TurnsOver(e) \in Nat /\ Tolerance * turns[e] \in Nat
        /\ Increment[e] * turns[e] \in Nat
    BY <1>0, <2>1, Distribute
  <2> QED
    BY <1>0, <2>1, <2>2 DEF Due, Late
<1>3. CASE StartOk \/ StartFails \/ FinishingStep \/ UNCHANGED vars
  <2>1. UNCHANGED <<timeLeft, spent, turns>>
    BY <1>3, FinishingFrame DEF StartOk, StartFails, vars
  <2>2. pc' = "think" => pc = "think" /\ ei' = ei
    BY <1>3, FinishingFrame DEF StartOk, StartFails, vars
  <2>3. pc \in {"judge", "over"} => pc' \in {"judge", "over"} /\ ei' = ei
    BY <1>3, FinishingFrame DEF StartOk, StartFails, vars
  <2>4. ASSUME NEW e \in Player
        PROVE  Due(e)' = Due(e) /\ Late(e)' \in Nat /\ Late(e) <= Late(e)'
    <3>1. Due(e)' = Due(e)
      BY <1>1, <2>1 DEF Due
    <3>2. CASE pc = "think" /\ e = ei /\ pc' # "think"
      <4>1. Late(e) = Tolerance * (turns[e] - 1) /\ Late(e)' = Tolerance * turns[e]
        BY <1>1, <2>1, <3>2 DEF Late, TurnsOver
      <4> QED
        BY <1>0, <1>2, <3>1, <3>2, <4>1, Distribute
    <3>3. CASE ~(pc = "think" /\ e = ei /\ pc' # "think")
      <4>1. TurnsOver(e)' = TurnsOver(e)
        BY <1>3, <2>1, <2>2, <3>3, FinishingFrame DEF TurnsOver, StartOk, StartFails, vars
      <4> QED
        BY <1>1, <1>2, <3>1, <4>1 DEF Late
    <3> QED
      BY <3>2, <3>3
  <2>5. ASSUME NEW e \in Player, ClockOf(e) PROVE ClockOf(e)'
    BY <1>0, <1>2, <2>1, <2>3, <2>4, <2>5 DEF ClockOf
  <2> QED
    BY <1>0, <1>1, <2>1, <2>2, <2>5 DEF IInv, ClockInv
<1>4. CASE BeginTurn
  <2>1. /\ timeLeft' = [timeLeft EXCEPT ![ei] = TurnClock(ei)]
        /\ turns' = [turns EXCEPT ![ei] = @ + 1] /\ spent' = spent
        /\ ei' = ei /\ pc = "rules" /\ pc' = "think"
    BY <1>4 DEF BeginTurn
  <2>2. ASSUME NEW e \in Player, MatchTime[e] > 0 PROVE ClockOf(e)'
    <3>1. timeLeft[e] >= 0 /\ timeLeft[e] \in Due(e) .. Due(e) + Late(e)
      BY <2>1, <2>2 DEF IInv, ClockInv, ClockOf
    <3>2. CASE e = ei
      <4>1. TurnsOver(e) = turns[e] /\ turns'[e] = turns[e] + 1
        BY <1>0, <2>1, <3>2 DEF TurnsOver
      <4>2. TurnsOver(e)' = turns[e]
        BY <1>0, <2>1, <3>2, <4>1 DEF TurnsOver
      <4>3. Late(e)' = Late(e)
        BY <1>1, <4>1, <4>2 DEF Late
      <4>4. Increment[e] * turns'[e] = Increment[e] * turns[e] + Increment[e]
        BY <1>0, <4>1, Distribute
      <4>5. Due(e)' = Due(e) + Increment[e]
        BY <1>0, <1>1, <1>2, <2>1, <4>4 DEF Due
      <4>6. timeLeft'[e] = timeLeft[e] + Increment[e]
        BY <1>0, <2>1, <2>2, <3>2 DEF TurnClock
      <4> QED
        BY <1>0, <1>2, <3>1, <4>3, <4>5, <4>6 DEF ClockOf
    <3>3. CASE e # ei
      <4>1. timeLeft'[e] = timeLeft[e] /\ turns'[e] = turns[e]
        BY <1>0, <2>1, <3>3
      <4>2. Due(e)' = Due(e) /\ Late(e)' = Late(e)
        BY <1>1, <2>1, <3>3, <4>1 DEF Due, Late, TurnsOver
      <4> QED
        BY <3>1, <4>1, <4>2 DEF ClockOf
    <3> QED
      BY <3>2, <3>3
  <2> QED
    BY <1>0, <1>1, <2>1, <2>2 DEF ClockInv
<1>5. CASE EngineMessage
  <2>1. UNCHANGED <<timeLeft, spent, turns, ei, pc>>
    BY <1>5 DEF EngineMessage
  <2> QED
    BY <1>1, <2>1 DEF IInv, ClockInv, ClockOf, Due, Late, TurnsOver
<1>6. CASE EngineMove
  <2>1. PICK now \in LineTimes :
          /\ timeLeft' = [timeLeft EXCEPT ![ei] = ClockAfter(now)]
          /\ spent' = [spent EXCEPT ![ei] = @ + now]
    BY <1>6 DEF EngineMove
  <2>2. turns' = turns /\ ei' = ei /\ pc = "think" /\ pc' = "judge"
    BY <1>6 DEF EngineMove
  <2>3. now \in Nat /\ now <= timeLeft[ei] + Tolerance
    BY <1>0 DEF LineTimes, Limit, IInv, TypeOK, ClockTypeOK
  <2>4. ASSUME NEW e \in Player, MatchTime[e] > 0 PROVE ClockOf(e)'
    <3>1. timeLeft[e] >= 0 /\ timeLeft[e] \in Due(e) .. Due(e) + Late(e)
      BY <2>2, <2>4 DEF IInv, ClockInv, ClockOf
    <3>2. CASE e = ei
      <4>1. Late(e) = Tolerance * (turns[e] - 1) /\ Late(e)' = Tolerance * turns[e]
        BY <1>1, <2>2, <3>2 DEF Late, TurnsOver
      <4>2. Late(e)' = Late(e) + Tolerance
        BY <1>0, <1>2, <2>2, <3>2, <4>1, Distribute
      <4>3. Due(e)' = Due(e) - now
        BY <1>0, <1>1, <1>2, <2>1, <2>2, <2>3, <3>2 DEF Due
      <4>4. timeLeft'[e] = ClockAfter(now)
        BY <1>0, <2>1, <3>2
      <4>5. CASE stopped
        BY <2>2, <3>2, <4>4, <4>5 DEF ClockAfter, ClockOf
      <4>6. CASE ~stopped
        <5>1. timeLeft'[e] = IF timeLeft[e] > now THEN timeLeft[e] - now ELSE 0
          BY <3>2, <4>4, <4>6 DEF ClockAfter
        <5> QED
          BY <1>0, <1>2, <2>3, <3>1, <3>2, <4>2, <4>3, <5>1 DEF ClockOf
      <4> QED
        BY <4>5, <4>6
    <3>3. CASE e # ei
      <4>1. timeLeft'[e] = timeLeft[e] /\ spent'[e] = spent[e]
        BY <1>0, <2>1, <3>3
      <4>2. Due(e)' = Due(e) /\ Late(e)' = Late(e)
        BY <1>1, <2>2, <3>3, <4>1 DEF Due, Late, TurnsOver
      <4> QED
        BY <3>1, <4>1, <4>2 DEF ClockOf
    <3> QED
      BY <3>2, <3>3
  <2> QED
    BY <1>1, <2>2, <2>4 DEF ClockInv
<1>7. CASE PlayMove
  <2>1. UNCHANGED <<timeLeft, spent, turns>> /\ pc = "judge" /\ pc' = "rules" /\ ~OutOfTime
    BY <1>7 DEF PlayMove
  <2>2. ASSUME NEW e \in Player, MatchTime[e] > 0 PROVE ClockOf(e)'
    <3>1. timeLeft[e] >= 0 /\ timeLeft[e] \in Due(e) .. Due(e) + Late(e)
      BY <1>0, <2>1, <2>2 DEF IInv, ClockInv, ClockOf, OutOfTime, Negative
    <3>2. Due(e)' = Due(e) /\ Late(e)' = Late(e)
      BY <1>1, <2>1 DEF Due, Late, TurnsOver
    <3> QED
      BY <2>1, <3>1, <3>2 DEF ClockOf
  <2> QED
    BY <1>1, <2>1, <2>2 DEF ClockInv
<1> QED
  BY <1>3, <1>4, <1>5, <1>6, <1>7, StepCases

-----------------------------------------------------------------------------
(***************************************************************************)
(* The runs.  A judged move of the engine ei has been evaluated.           *)
(***************************************************************************)
Evaluated ==
  /\ pc = "judge" /\ evals' = Append(evals, score)
  /\ UNCHANGED <<opt, reverse>>

LEMMA EvaluatedFacts ==
  ASSUME IInv, Evaluated
  PROVE  /\ Len(evals) \in Nat /\ Len(evals') = Len(evals) + 1
         /\ evals'[Len(evals) + 1] = score /\ score \in Int
         /\ \A j \in 1 .. Len(evals) : evals'[j] = evals[j] /\ evals[j] \in Int
         /\ ei \in Player /\ Evaluator(Len(evals) + 1) = ei
         /\ UNCHANGED <<DrawCount, DrawScore, ResignCount, ResignScore, DrawAfter>>
         /\ \A i \in Int : Evaluator(i)' = Evaluator(i)
BY AppendProperties
   DEF Evaluated, IInv, TypeOK, PositionTypeOK, OutcomeTypeOK, MoverInv, Active, DrawCount,
       DrawScore, ResignCount, ResignScore, DrawAfter, Evaluator

\* The run of draw scores after one evaluation more
LEMMA DrawRunGrows ==
  ASSUME IInv, Evaluated
  PROVE  /\ DrawRun \in 0 .. Len(evals')
         /\ DrawCount = 0 => DrawRun = 0
         /\ DrawCount > 0 =>
              /\ \A j \in Len(evals') - DrawRun + 1 .. Len(evals') : Abs(evals'[j]) <= DrawScore
              /\ DrawRun < Len(evals') => Abs(evals'[Len(evals') - DrawRun]) > DrawScore
<1>1. DrawCount \in Nat /\ DrawScore \in Nat /\ drawPlyCount \in Nat
  BY OptionTypes DEF IInv, TypeOK, OutcomeTypeOK
<1>2. DrawRunInv
  BY DEF IInv, RunInv, Evaluated, Active
<1>3. CASE DrawCount = 0
  BY <1>1, <1>3, EvaluatedFacts DEF DrawRun
<1>4. CASE DrawCount > 0 /\ Abs(score) <= DrawScore
  <2>1. DrawRun = drawPlyCount + 1
    BY <1>4 DEF DrawRun
  <2>2. ASSUME NEW j \in Len(evals') - DrawRun + 1 .. Len(evals')
        PROVE  Abs(evals'[j]) <= DrawScore
    <3>1. CASE j = Len(evals) + 1
      BY <1>4, <3>1, EvaluatedFacts
    <3>2. CASE j # Len(evals) + 1
      <4>1. j \in Len(evals) - drawPlyCount + 1 .. Len(evals) /\ j \in 1 .. Len(evals)
        BY <1>1, <1>2, <2>1, <3>2, EvaluatedFacts DEF DrawRunInv
      <4> QED
        BY <1>2, <1>4, <4>1, EvaluatedFacts DEF DrawRunInv, DrawnFrom
    <3> QED
      BY <3>1, <3>2
  <2>3. DrawRun < Len(evals') => Abs(evals'[Len(evals') - DrawRun]) > DrawScore
    <3>1. Len(evals') - DrawRun = Len(evals) - drawPlyCount
      BY <1>1, <2>1, EvaluatedFacts
    <3>2. DrawRun < Len(evals') => Len(evals) - drawPlyCount \in 1 .. Len(evals)
      BY <1>1, <2>1, EvaluatedFacts
    <3>3. DrawRun < Len(evals') =>
            evals'[Len(evals') - DrawRun] = evals[Len(evals) - drawPlyCount]
      BY <3>1, <3>2, EvaluatedFacts
    <3>4. DrawRun < Len(evals') => drawPlyCount < Len(evals)
      BY <1>1, <2>1, EvaluatedFacts
    <3> QED
      BY <1>2, <1>4, <3>3, <3>4 DEF DrawRunInv
  <2> QED
    BY <1>1, <1>2, <1>4, <2>1, <2>2, <2>3, EvaluatedFacts DEF DrawRunInv
<1>5. CASE DrawCount > 0 /\ ~(Abs(score) <= DrawScore)
  <2>1. DrawRun = 0 /\ Abs(score) \in Int
    BY <1>5, EvaluatedFacts DEF DrawRun, Abs
  <2> QED
    BY <1>1, <1>5, <2>1, EvaluatedFacts
<1> QED
  BY <1>1, <1>3, <1>4, <1>5

\* The last evaluations of the two engines, before and after this one
LEMMA LastEvaluations ==
  ASSUME IInv, Evaluated
  PROVE  /\ LastOf(ei) = Len(evals) - 1
         /\ \A e \in Player : e = ei => LastOf(e)' = Len(evals')
         /\ \A e \in Player \ {ei} : LastOf(e) = Len(evals) /\ LastOf(e)' = Len(evals)
         /\ \A i, n \in Int : Evaluator(i - 2 * n) = Evaluator(i)
         /\ Evaluator(Len(evals)) # ei
<1>1. reverse \in {0, 1} /\ reverse' = reverse /\ ei \in {0, 1}
  BY DEF IInv, TypeOK, PositionTypeOK, Evaluated, Player
<1>2. ei = (reverse + Len(evals)) % 2
  BY <1>1, EvaluatedFacts DEF Evaluator
<1>3. Evaluator(Len(evals)) = 1 - ei
  BY <1>1, <1>2, EvaluatedFacts DEF Evaluator
<1>4. Evaluator(Len(evals))' = ei
  BY <1>1, <1>2, EvaluatedFacts DEF Evaluator
<1>5. \A i, n \in Int : Evaluator(i - 2 * n) = Evaluator(i)
  BY <1>1 DEF Evaluator
<1>6. LastOf(ei) = Len(evals) - 1
  BY <1>1, <1>3 DEF LastOf
<1>7. \A e \in Player : e = ei => LastOf(e)' = Len(evals')
  BY <1>4 DEF LastOf
<1>8. ASSUME NEW e \in Player \ {ei} PROVE LastOf(e) = Len(evals) /\ LastOf(e)' = Len(evals)
  BY <1>1, <1>3, <1>4, EvaluatedFacts DEF LastOf, Player
<1> QED
  BY <1>1, <1>3, <1>5, <1>6, <1>7, <1>8

\* The run of resigning scores of the mover after this evaluation
LEMMA ResignRunGrows ==
  ASSUME IInv, Evaluated
  PROVE  /\ ResignRun \in Nat
         /\ ResignCount = 0 => ResignRun = 0
         /\ ResignCount > 0 =>
              /\ ResignRun > 0 => 2 * ResignRun - 1 <= Len(evals')
              /\ \A j \in 1 .. Len(evals') :
                   j > Len(evals') - 2 * ResignRun /\ Evaluator(j) = ei =>
                     evals'[j] <= -ResignScore
              /\ Len(evals') - 2 * ResignRun >= 1 =>
                   evals'[Len(evals') - 2 * ResignRun] > -ResignScore
<1> DEFINE n == resignCount[ei]
<1>1. ResignCount \in Nat /\ ResignScore \in Nat /\ n \in Nat
  BY OptionTypes, EvaluatedFacts DEF IInv, TypeOK, OutcomeTypeOK
<1>2. ResignRunInv(ei) /\ LastOf(ei) = Len(evals) - 1
  BY EvaluatedFacts, LastEvaluations DEF IInv, RunInv, Evaluated, Active
<1>3. CASE ResignCount = 0
  BY <1>1, <1>3 DEF ResignRun
<1>4. CASE ResignCount > 0 /\ score <= -ResignScore
  <2>1. ResignRun = n + 1
    BY <1>4 DEF ResignRun
  <2>2. n > 0 => 2 * n - 1 <= Len(evals) - 1
    BY <1>2, <1>4 DEF ResignRunInv
  <2>3. 2 * ResignRun - 1 <= Len(evals')
    <3> HIDE DEF n
    <3> QED
      BY <1>1, <2>1, <2>2, EvaluatedFacts
  <2>4. ASSUME NEW j \in 1 .. Len(evals'), j > Len(evals') - 2 * ResignRun, Evaluator(j) = ei
        PROVE  evals'[j] <= -ResignScore
    <3>1. CASE j = Len(evals) + 1
      BY <1>4, <3>1, EvaluatedFacts
    <3>2. CASE j # Len(evals) + 1
      <4>1. j # Len(evals) /\ j \in 1 .. Len(evals)
        BY <2>4, <3>2, EvaluatedFacts, LastEvaluations
      <4>2. j > Len(evals) - 1 - 2 * n /\ j \in 1 .. Len(evals) - 1
        <5> HIDE DEF n
        <5> QED
          BY <1>1, <2>1, <2>4, <4>1, EvaluatedFacts
      <4> QED
        BY <1>2, <1>4, <2>4, <4>1, <4>2, EvaluatedFacts DEF ResignRunInv
    <3> QED
      BY <3>1, <3>2
  <2>5. ASSUME Len(evals') - 2 * ResignRun >= 1
        PROVE  evals'[Len(evals') - 2 * ResignRun] > -ResignScore
    <3>1. /\ Len(evals') - 2 * ResignRun = Len(evals) - 1 - 2 * n
          /\ Len(evals) - 1 - 2 * n >= 1
          /\ Len(evals) - 1 - 2 * n \in 1 .. Len(evals)
      <4> HIDE DEF n
      <4> QED
        BY <1>1, <2>1, <2>5, EvaluatedFacts
    <3> QED
      BY <1>2, <1>4, <3>1, EvaluatedFacts DEF ResignRunInv
  <2> QED
    BY <1>1, <1>4, <2>1, <2>3, <2>4, <2>5
<1>5. CASE ResignCount > 0 /\ ~(score <= -ResignScore)
  <2>1. ResignRun = 0
    BY <1>5 DEF ResignRun
  <2> QED
    BY <1>1, <1>5, <2>1, EvaluatedFacts
<1> QED
  BY <1>1, <1>3, <1>4, <1>5

(***************************************************************************)
(* The counters stay the lengths of the runs.                              *)
(***************************************************************************)
LEMMA RunStep ==
  ASSUME IInv, [Next]_vars
  PROVE  RunInv'
<1> USE DEF Active, setup, counters, outcome
<1>1. ASSUME UNCHANGED <<opt, reverse, counters>>, pc \in Active \cup {"start"}
      PROVE  RunInv'
  <2>1. /\ DrawRunInv' /\ \A e \in Player : ResignRunInv(e)'
    BY <1>1
       DEF IInv, RunInv, DrawRunInv, ResignRunInv, DrawnFrom, LastOf, Evaluator, DrawCount,
           DrawScore, ResignCount, ResignScore
  <2> QED
    BY <2>1 DEF RunInv
<1>2. CASE StartOk \/ TurnStep
  BY <1>1, <1>2, TurnFrame DEF StartOk
<1>3. CASE StartFails \/ FinishingStep
  BY <1>3, FinishingFrame DEF StartFails, RunInv
<1>4. CASE PlayMove
  <2>1. Evaluated /\ drawPlyCount' = DrawRun
        /\ resignCount' = [resignCount EXCEPT ![ei] = ResignRun]
        /\ ~AdjudicatedDraw /\ ~AdjudicatedLoss
    BY <1>4 DEF PlayMove, Evaluated
  <2>2. DrawRunInv'
    <3>1. DrawCount \in Nat /\ DrawRun \in 0 .. Len(evals')
      BY <2>1, OptionTypes, DrawRunGrows DEF IInv
    <3>2. DrawCount > 0 => DrawRun < 2 * DrawCount
      BY <2>1, <3>1 DEF AdjudicatedDraw
    <3>3. DrawCount' = DrawCount /\ DrawScore' = DrawScore /\ drawPlyCount' = DrawRun
      BY <2>1, EvaluatedFacts
    <3>4. DrawCount > 0 => DrawnFrom(Len(evals) - drawPlyCount + 1)'
      BY <2>1, <3>3, DrawRunGrows DEF DrawnFrom
    <3> QED
      BY <2>1, <3>1, <3>2, <3>3, <3>4, DrawRunGrows DEF DrawRunInv
  <2>3. resignCount \in [Player -> Nat] /\ ei \in Player
    BY EvaluatedFacts, <2>1 DEF IInv, TypeOK, OutcomeTypeOK
  <2>4. ASSUME NEW e \in Player, e = ei PROVE ResignRunInv(e)'
    <3>1. resignCount'[e] = ResignRun /\ LastOf(e)' = Len(evals')
      BY <2>1, <2>3, <2>4, LastEvaluations
    <3>2. ResignCount > 0 => ResignRun < ResignCount
      BY <2>1, ResignRunGrows, OptionTypes DEF AdjudicatedLoss, IInv
    <3> QED
      BY <2>1, <2>4, <3>1, <3>2, ResignRunGrows, EvaluatedFacts DEF ResignRunInv
  <2>5. ASSUME NEW e \in Player \ {ei} PROVE ResignRunInv(e)'
    <3>1. resignCount'[e] = resignCount[e] /\ LastOf(e)' = LastOf(e) /\ LastOf(e) = Len(evals)
      BY <2>1, <2>3, LastEvaluations
    <3>2. ResignRunInv(e)
      BY <2>1 DEF IInv, RunInv, Evaluated
    <3> QED
      BY <2>1, <2>3, <3>1, <3>2, EvaluatedFacts DEF ResignRunInv
  <2> QED
    BY <2>2, <2>4, <2>5 DEF RunInv
<1>5. CASE UNCHANGED vars
  BY <1>1, <1>5 DEF vars, RunInv
<1> QED
  BY <1>2, <1>3, <1>4, <1>5, StepCases DEF TurnStep

(***************************************************************************)
(* A game that is adjudicated ends with the run that the option asks for.  *)
(***************************************************************************)
LEMMA VerdictStep ==
  ASSUME IInv, [Next]_vars
  PROVE  VerdictInv'
<1> USE DEF Active, setup, counters, outcome
<1>1. CASE StartOk \/ TurnStep \/ PlayMove
  BY <1>1, TurnFrame DEF StartOk, PlayMove, IInv, VerdictInv
<1>2. CASE StartFails
  BY <1>2 DEF StartFails, VerdictInv
<1>3. CASE FinishingStep
  <2>1. PICK st \in Losses \cup Draws :
          /\ Finish(st)
          /\ st = "resign" => Adjudicate /\ ~AdjudicatedDraw
          /\ st = "draw_adjudication" => DrawAfter > 0 \/ (Adjudicate /\ AdjudicatedDraw)
    BY <1>3, FinishingSteps
  <2>2. state' = st /\ pc' = "over" /\ DrawAfter' = DrawAfter
    BY <1>3, <2>1, FinishingFrame DEF Finish, DrawAfter
  <2>3. ASSUME Adjudicate PROVE Evaluated
    BY <2>3 DEF Adjudicate, Evaluated
  <2>4. ASSUME st = "resign"
        PROVE  /\ ResignCount' > 0 /\ Len(evals') >= 2 * ResignCount' - 1
               /\ ResignedFrom(Len(evals) - 2 * ResignCount + 2)'
    <3>1. Evaluated /\ ResignCount > 0 /\ ResignRun >= ResignCount
      BY <2>1, <2>3, <2>4 DEF Adjudicate, AdjudicatedLoss
    <3>2. ResignCount \in Nat /\ ResignRun \in Nat
      BY <3>1, OptionTypes, ResignRunGrows DEF IInv
    <3>3. Len(evals') >= 2 * ResignCount - 1
      BY <3>1, <3>2, EvaluatedFacts, ResignRunGrows
    <3>4. ASSUME NEW j \in Len(evals') - 2 * ResignCount + 2 .. Len(evals'),
                 Evaluator(j) = Evaluator(Len(evals) + 1)
          PROVE  evals'[j] <= -ResignScore
      <4>1. j \in 1 .. Len(evals') /\ j > Len(evals') - 2 * ResignRun
        BY <3>1, <3>2, <3>3, EvaluatedFacts
      <4> QED
        BY <3>1, <3>4, <4>1, EvaluatedFacts, ResignRunGrows
    <3> QED
      BY <3>1, <3>2, <3>3, <3>4, EvaluatedFacts DEF ResignedFrom
  <2>5. ASSUME st = "draw_adjudication", DrawAfter = 0
        PROVE  /\ DrawCount' > 0 /\ Len(evals') >= 2 * DrawCount'
               /\ DrawnFrom(Len(evals) - 2 * DrawCount + 1)'
    <3>1. Evaluated /\ DrawCount > 0 /\ DrawRun >= 2 * DrawCount
      BY <2>1, <2>3, <2>5 DEF AdjudicatedDraw
    <3>2. DrawCount \in Nat /\ DrawRun \in 0 .. Len(evals')
      BY <3>1, OptionTypes, DrawRunGrows DEF IInv
    <3> QED
      BY <3>1, <3>2, DrawRunGrows, EvaluatedFacts DEF DrawnFrom
  <2> QED
    BY <2>2, <2>4, <2>5 DEF VerdictInv
<1>4. CASE UNCHANGED vars
  BY <1>4 DEF vars, IInv, VerdictInv, DrawnFrom, ResignedFrom, Evaluator, DrawCount,
              DrawScore, ResignCount, ResignScore, DrawAfter
<1> QED
  BY <1>1, <1>2, <1>3, <1>4, StepCases DEF TurnStep

\* Two turns belong to one engine exactly when they are the same.
LEMMA Parity ==
  ASSUME NEW t \in {0, 1}, NEW u \in {0, 1}, NEW c \in {0, 1}, NEW r \in {0, 1}
  PROVE  ((t + c + r) % 2 = 0) <=> ((t = u) <=> ((u + c + r) % 2 = 0))
<1>1. CASE t = u
  BY <1>1
<1>2. CASE t # u
  BY <1>2
<1> QED
  BY <1>1, <1>2

(***************************************************************************)
(* The result and the samples of a game that is over are the loser's.      *)
(***************************************************************************)
LEMMA ResultStep ==
  ASSUME IInv, [Next]_vars
  PROVE  ResultInv'
<1> USE DEF Active, setup, counters, outcome
<1>1. CASE StartOk \/ TurnStep \/ PlayMove \/ StartFails
  BY <1>1, TurnFrame DEF StartOk, PlayMove, StartFails, ResultInv
<1>2. CASE FinishingStep
  <2>1. PICK st \in Losses \cup Draws : Finish(st)
    BY <1>2, FinishingSteps
  <2>2. /\ state' = st /\ samples' = Filled(st, samples)
        /\ result' = IF st \in Losses THEN LostBy(ei) ELSE DRAW
    BY <2>1 DEF Finish
  <2>3. UNCHANGED <<reverse, opened, moves, ei>> /\ pc \in Active
    BY <1>2, FinishingFrame
  <2>4. ASSUME NEW i \in DOMAIN samples'
        PROVE  samples'[i].result =
                 IF Name(TurnAfter(Len(samples'[i].pos))) = 0 THEN result' ELSE 2 - result'
    <3> DEFINE t == TurnAfter(Len(samples'[i].pos))
    <3>1. samples \in Seq(SampleType)
      BY DEF IInv, TypeOK, OutcomeTypeOK
    <3>2. /\ i \in DOMAIN samples /\ samples'[i].pos = samples[i].pos
          /\ samples'[i].result = IF st \notin Losses THEN DRAW
                                  ELSE IF t = Turn THEN LOSS ELSE WIN
      BY <2>2, <3>1, FilledSamples DEF IInv
    <3>3. Len(samples'[i].pos) \in Int
      BY <3>1, <3>2 DEF SampleType
    <3>4. t \in {0, 1} /\ Turn \in {0, 1}
      BY <3>3, Alternation DEF IInv, Player
    <3>5. ei \in {0, 1} /\ reverse \in {0, 1} /\ TurnAfter(opened) \in {0, 1}
      BY Alternation DEF IInv, TypeOK, PositionTypeOK, Player
    <3>6. ei = (Turn + TurnAfter(opened) + reverse) % 2
      BY <2>3 DEF IInv, MoverInv, Name
    <3>7. Name(t) = (t + TurnAfter(opened) + reverse) % 2
      BY DEF Name
    <3> HIDE DEF t
    <3>8. (Name(t) = 0) <=> ((t = Turn) <=> (ei = 0))
      BY <3>4, <3>5, <3>6, <3>7, Parity
    <3> QED
      BY <2>2, <3>2, <3>4, <3>5, <3>8 DEF LostBy, LOSS, DRAW, WIN, t
  <2> QED
    BY <2>2, <2>3, <2>4 DEF ResultInv, SamplesAgreeWithResult, LostBy, Name
<1>3. CASE UNCHANGED vars
  BY <1>3 DEF vars, IInv, ResultInv, SamplesAgreeWithResult, Name
<1> QED
  BY <1>1, <1>2, <1>3, StepCases DEF TurnStep

-----------------------------------------------------------------------------
(***************************************************************************)
(* IInv holds in every game.                                               *)
(***************************************************************************)
THEOREM Invariance == Spec => []IInv
<1>1. Init => IInv
  BY InitIInv
<1>2. IInv /\ [Next]_vars => IInv'
  BY NextTypes, StartStep, MoverStep, KnownStep, ClockStep, RunStep, VerdictStep, ResultStep
     DEF IInv
<1> QED
  BY <1>1, <1>2, PTL DEF Spec

(***************************************************************************)
(* An engine that is told to think knows the whole position.               *)
(***************************************************************************)
THEOREM EnginesKnowTheGame == Spec => []EnginesSeeTheBoard
<1>1. IInv => EnginesSeeTheBoard
  BY DEF IInv, KnownInv, EnginesSeeTheBoard
<1> QED
  BY <1>1, Invariance, PTL

(***************************************************************************)
(* The records name the engine that has lost.                              *)
(***************************************************************************)
THEOREM RecordIsRight == Spec => []RecordNamesTheLoser
<1>1. IInv => RecordNamesTheLoser
  BY DEF IInv, TypeOK, PositionTypeOK, Player, MoverInv, ResultInv, RecordNamesTheLoser,
         RecordedLoser, ScoredLoser, LostBy, LOSS, WIN
<1> QED
  BY <1>1, Invariance, PTL

(***************************************************************************)
(* The samples say of an engine what the table says.                       *)
(***************************************************************************)
THEOREM SamplesAgree == Spec => []SamplesAgreeWithResult
<1>1. IInv => SamplesAgreeWithResult
  BY DEF IInv, ResultInv, SamplesAgreeWithResult
<1> QED
  BY <1>1, Invariance, PTL

(***************************************************************************)
(* No clock is wrong by more than the tolerance of the turns played.       *)
(***************************************************************************)
THEOREM ClocksFair == Spec => []ClocksAreFair
<1>1. IInv => ClocksAreFair
  <2> SUFFICES ASSUME IInv, NEW e \in Player, MatchTime[e] > 0, timeLeft[e] # Negative
               PROVE  timeLeft[e] \in Due(e) .. Due(e) + Tolerance * turns[e]
    BY DEF ClocksAreFair, Due
  <2>1. timeLeft[e] \in Due(e) .. Due(e) + Late(e)
    BY DEF IInv, ClockInv, ClockOf
  <2>2. /\ turns[e] \in Nat /\ Tolerance \in Nat /\ timeLeft[e] \in Int
        /\ Increment[e] \in Nat /\ MatchTime[e] \in Nat /\ spent[e] \in Nat
        /\ pc = "think" => turns[ei] > 0
    BY OptionTypes DEF IInv, TypeOK, ClockTypeOK, ClockInv
  <2>3. Due(e) \in Int
    BY <2>2, Distribute DEF Due
  <2>4. Late(e) <= Tolerance * turns[e] /\ Late(e) \in Int /\ Tolerance * turns[e] \in Int
    <3>1. CASE pc = "think" /\ e = ei
      <4>1. turns[e] - 1 \in Nat /\ Late(e) = Tolerance * (turns[e] - 1)
        BY <2>2, <3>1 DEF Late, TurnsOver
      <4> QED
        BY <2>2, <4>1, Distribute
    <3>2. CASE ~(pc = "think" /\ e = ei)
      BY <2>2, <3>2, Distribute DEF Late, TurnsOver
    <3> QED
      BY <3>1, <3>2
  <2> QED
    BY <2>1, <2>2, <2>3, <2>4
<1> QED
  BY <1>1, Invariance, PTL

(***************************************************************************)
(* A game is adjudicated by a run of evaluations, as soon as there is one. *)
(***************************************************************************)
THEOREM AdjudicationIsExact == Spec => []AdjudicatedByARun
<1>1. IInv => AdjudicatedByARun
  <2> SUFFICES ASSUME IInv PROVE AdjudicatedByARun
    OBVIOUS
  <2>1. /\ DrawCount \in Nat /\ ResignCount \in Nat /\ evals \in Seq(Int) /\ Len(evals) \in Nat
        /\ resignCount \in [Player -> Nat] /\ DrawScore \in Nat /\ ResignScore \in Nat
    BY OptionTypes DEF IInv, TypeOK, OutcomeTypeOK
  <2>2. ASSUME pc \in {"rules", "think"}, DrawCount > 0, Len(evals) >= 2 * DrawCount,
               DrawnFrom(Len(evals) - 2 * DrawCount + 1)
        PROVE  FALSE
    <3>1. DrawRunInv
      BY <2>2 DEF IInv, RunInv, Active
    <3>2. /\ drawPlyCount \in Nat /\ drawPlyCount < 2 * DrawCount
          /\ drawPlyCount < Len(evals)
          /\ Abs(evals[Len(evals) - drawPlyCount]) > DrawScore
      BY <2>1, <2>2, <3>1 DEF DrawRunInv
    <3>3. Len(evals) - drawPlyCount \in Len(evals) - 2 * DrawCount + 1 .. Len(evals)
      BY <2>1, <3>2
    <3>4. Abs(evals[Len(evals) - drawPlyCount]) <= DrawScore
      BY <2>2, <3>3 DEF DrawnFrom
    <3>5. evals[Len(evals) - drawPlyCount] \in Int
      BY <2>1, <3>2
    <3> QED
      BY <2>1, <3>2, <3>4, <3>5 DEF Abs
  <2>3. ASSUME pc \in {"rules", "think"}, ResignCount > 0,
               Len(evals) >= 2 * ResignCount - 1,
               ResignedFrom(Len(evals) - 2 * ResignCount + 2)
        PROVE  FALSE
    <3> DEFINE e == Evaluator(Len(evals))
               k == Len(evals) - 2 * resignCount[e]
    <3>1. e \in Player /\ LastOf(e) = Len(evals)
      BY <2>1, Alternation DEF IInv, LastOf
    <3>2. ResignRunInv(e) /\ resignCount[e] \in Nat
      BY <2>1, <2>3, <3>1 DEF IInv, RunInv, Active
    <3>3. resignCount[e] < ResignCount
      BY <2>3, <3>2 DEF ResignRunInv
    <3>4. k \in Len(evals) - 2 * ResignCount + 2 .. Len(evals) /\ k >= 1
      <4> HIDE DEF e
      <4>1. /\ Len(evals) \in Nat /\ ResignCount \in Nat /\ resignCount[e] \in Nat
            /\ resignCount[e] < ResignCount /\ Len(evals) >= 2 * ResignCount - 1
        BY <2>1, <2>3, <3>2, <3>3, Zenon
      <4> QED
        BY ONLY <4>1, SMT
    <3>5. Evaluator(k) = Evaluator(Len(evals))
      <4>1. reverse \in Int
        BY DEF IInv, TypeOK, PositionTypeOK, Player
      <4> HIDE DEF e
      <4> QED
        BY <2>1, <3>2, <4>1 DEF Evaluator
    <3>6. evals[k] <= -ResignScore
      BY <2>3, <3>4, <3>5 DEF ResignedFrom
    <3>7. evals[k] > -ResignScore
      BY <2>3, <3>1, <3>2, <3>4 DEF ResignRunInv
    <3>8. evals[k] \in Int
      BY <2>1, <3>4
    <3> QED
      BY <2>1, <3>6, <3>7, <3>8
  <2> QED
    BY <2>2, <2>3 DEF IInv, VerdictInv, AdjudicatedByARun
<1> QED
  BY <1>1, Invariance, PTL

-----------------------------------------------------------------------------
(***************************************************************************)
(* The files of samples.  A sample is a position on the way of the game,   *)
(* with the move that was made in it.                                      *)
(***************************************************************************)
OfTheGame(s) ==
  /\ Len(s.pos) < Len(moves) /\ Len(s.pos) < Cardinality(Cell)
  /\ \A j \in 1 .. Len(s.pos) : s.pos[j] = moves[j]
  /\ s.move = moves[Len(s.pos) + 1]

SampleInv ==
  /\ \A i \in DOMAIN samples : OfTheGame(samples[i])
  /\ pc \in {"think", "judge"} => Len(moves) < Cardinality(Cell)
  /\ pc = "over" => result \in {LOSS, DRAW, WIN}

LEMMA SampleStep ==
  ASSUME IInv, SampleInv, [Next]_vars
  PROVE  SampleInv'
<1> USE DEF Active, setup, counters, outcome
<1>0. moves \in Seq(Cell) /\ samples \in Seq(SampleType) /\ IsFiniteSet(Cell)
  BY GameAssumption DEF IInv, TypeOK, PositionTypeOK, OutcomeTypeOK
<1>1. ASSUME UNCHANGED <<moves, samples>>
      PROVE  \A i \in DOMAIN samples' : OfTheGame(samples[i])'
  BY <1>1 DEF SampleInv, OfTheGame
<1>2. CASE StartOk \/ StartFails
  BY <1>1, <1>2 DEF StartOk, StartFails, SampleInv
<1>3. CASE FinishingStep
  <2>1. PICK st \in Losses \cup Draws : Finish(st)
    BY <1>3, FinishingSteps
  <2>2. samples' = Filled(st, samples) /\ moves' = moves
    BY <1>3, <2>1, FinishingFrame DEF Finish
  <2>3. ASSUME NEW i \in DOMAIN samples' PROVE OfTheGame(samples[i])'
    BY <1>0, <2>2, FilledSamples, SMTT(30) DEF SampleInv, OfTheGame, IInv
  <2>4. pc' = "over" /\ result' \in {LOSS, DRAW, WIN}
    BY <2>1, FinishTypes DEF IInv
  <2> QED
    BY <2>3, <2>4 DEF SampleInv
<1>4. CASE TurnStep
  BY <1>1, <1>4, TurnFrame DEF SampleInv, TurnStep, BeginTurn, EngineMessage, EngineMove
<1>5. CASE PlayMove
  <2>1. /\ moves' = Append(moves, best)
        /\ samples' = samples \/ samples' = Append(samples, Sample)
        /\ pc = "judge" /\ pc' = "rules" /\ best \in Cell
    BY <1>5 DEF PlayMove, Illegal, IInv, TypeOK, PositionTypeOK
  <2>2. /\ Len(moves') = Len(moves) + 1 /\ Len(moves) \in Nat
        /\ moves'[Len(moves) + 1] = best
        /\ \A j \in 1 .. Len(moves) : moves'[j] = moves[j]
    BY <1>0, <2>1, AppendProperties
  <2>3. ASSUME NEW i \in DOMAIN samples PROVE OfTheGame(samples[i])'
    <3>1. samples'[i] = samples[i]
      BY <1>0, <2>1, AppendProperties
    <3>2. Len(samples[i].pos) \in Nat
      <4>1. samples[i] \in SampleType
        BY <1>0
      <4> QED
        BY <4>1 DEF SampleType
    <3>3. OfTheGame(samples[i])
      BY DEF SampleInv
    <3>4. /\ Len(samples[i].pos) < Len(moves') /\ Len(samples[i].pos) + 1 \in 1 .. Len(moves)
          /\ 1 .. Len(samples[i].pos) \subseteq 1 .. Len(moves)
      BY <2>2, <3>2, <3>3 DEF OfTheGame
    <3> QED
      BY <2>2, <3>1, <3>3, <3>4 DEF OfTheGame
  <2>4. ASSUME NEW i \in DOMAIN samples', i \notin DOMAIN samples
        PROVE  OfTheGame(samples[i])'
    <3>1. samples'[i] = Sample
      BY <1>0, <2>1, <2>4
    <3>2. samples'[i].pos = moves /\ samples'[i].move = best
      BY <3>1 DEF Sample
    <3>3. Len(moves) < Cardinality(Cell)
      BY <2>1 DEF SampleInv
    <3> QED
      BY <2>2, <3>2, <3>3 DEF OfTheGame
  <2> QED
    BY <2>1, <2>3, <2>4 DEF SampleInv
<1>6. CASE UNCHANGED vars
  BY <1>1, <1>6 DEF vars, SampleInv
<1> QED
  BY <1>2, <1>3, <1>4, <1>5, <1>6, StepCases DEF TurnStep

\* There are less than 512 points: a length of a game fits its field.
LEMMA BoardIsSmall == Cardinality(Cell) < 512
<1> DEFINE f == [p \in Cell |-> 22 * CoordX(p) + CoordY(p)]
<1>1. ASSUME NEW p \in Cell
      PROVE  /\ p \in Nat /\ CoordX(p) \in 0 .. 21 /\ CoordY(p) \in 0 .. 21
             /\ p = (CoordX(p) + 5) * 32 + CoordY(p) + 5
  <2>1. PICK x \in 0 .. 21, y \in 0 .. 21 : p = POS(x, y)
    BY BoardAssumption
  <2>2. p = (x + 5) * 32 + y + 5
    BY <2>1 DEF POS, POS_RAW, Byte
  <2>3. CoordX(p) = x /\ CoordY(p) = y
    BY <2>2 DEF CoordX, CoordY
  <2> QED
    BY <2>2, <2>3
<1>2. f \in Injection(Cell, 0 .. 483)
  <2>1. f \in [Cell -> 0 .. 483]
    BY <1>1
  <2>2. ASSUME NEW p \in Cell, NEW q \in Cell, f[p] = f[q] PROVE p = q
    <3>1. 22 * CoordX(p) + CoordY(p) = 22 * CoordX(q) + CoordY(q)
      BY <2>2
    <3> DEFINE a == CoordX(p)  b == CoordY(p)  c == CoordX(q)  d == CoordY(q)
    <3>2. a \in 0 .. 21 /\ b \in 0 .. 21 /\ c \in 0 .. 21 /\ d \in 0 .. 21
      BY <1>1
    <3>3. a = c /\ b = d
      <4>1. 22 * a + b = 22 * c + d
        BY <3>1
      <4> HIDE DEF a, b, c, d
      <4> QED
        BY ONLY <3>2, <4>1
    <3> QED
      BY <1>1, <3>3 DEF a, b, c, d
  <2> QED
    BY <2>1, <2>2 DEF Injection, IsInjective
<1>3. IsFiniteSet(0 .. 483) /\ Cardinality(0 .. 483) = 484
  <2> DEFINE n == 483
  <2>1. n \in Nat /\ n = 483
    OBVIOUS
  <2> HIDE DEF n
  <2>2. 0 \in Int /\ n \in Int
    BY <2>1
  <2>3. /\ IsFiniteSet(0 .. n)
        /\ Cardinality(0 .. n) = IF 0 > n THEN 0 ELSE n - 0 + 1
    BY ONLY <2>2, FS_Interval, Zenon
  <2> QED
    BY <2>1, <2>3
<1>4. IsFiniteSet(Cell) /\ Cardinality(Cell) <= 484
  BY <1>2, <1>3, FS_Injection
<1> QED
  BY <1>4, FS_CardinalityType

\* A point is read back from the 10 bits that stand for it.
LEMMA PointReadBack ==
  ASSUME NEW p \in Cell
  PROVE  /\ ReadPoint(Raw(p)) = <<CoordX(p), CoordY(p)>>
         /\ ReadPoint(Raw(p) % 8192) = <<CoordX(p), CoordY(p)>>
         /\ FromNotation(PosNotation(p)) = <<CoordX(p), CoordY(p)>>
         /\ Raw(p) \in Nat
<1>1. PICK x \in 0 .. 21, y \in 0 .. 21 : p = POS(x, y)
  BY BoardAssumption
<1>2. p = (x + 5) * 32 + y + 5
  BY <1>1 DEF POS, POS_RAW, Byte
<1>3. CoordX(p) = x /\ CoordY(p) = y
  BY <1>2 DEF CoordX, CoordY
<1>4. Raw(p) = x * 32 + y /\ Raw(p) % 8192 = x * 32 + y
  BY <1>3 DEF Raw, POS_RAW, Byte
<1>5. ((x * 32 + y) \div 32) % 32 = x /\ (x * 32 + y) % 32 = y
  OBVIOUS
<1>6. FromNotation(PosNotation(p)) = <<x, y>>
  BY <1>3 DEF FromNotation, PosNotation
<1> QED
  BY <1>3, <1>4, <1>5, <1>6 DEF ReadPoint

\* The readers of an entry and of a line
LEMMA SampleReadBack ==
  ASSUME IInv, SampleInv, NEW i \in DOMAIN samples,
         samples[i].result \in {LOSS, DRAW, WIN}
  PROVE  LET entry == BinEntry(samples[i])  line == CsvLine(samples[i])
             read == Append(ReadMoves(entry.position), ReadPoint(entry.move))
             text == Append(line.pos, line.move)
         IN  /\ entry.ply = Len(entry.position) /\ entry.result = line.result
             /\ IsPrefix(read, Played)
             /\ read = [j \in DOMAIN text |-> FromNotation(text[j])]
<1> DEFINE s == samples[i]
           n == Len(s.pos)
           coord(p) == <<CoordX(p), CoordY(p)>>
           entry == BinEntry(s)
           line == CsvLine(s)
           read == Append(ReadMoves(entry.position), ReadPoint(entry.move))
           text == Append(line.pos, line.move)
<1>1. /\ s.pos \in Seq(Cell) /\ n \in Nat /\ s.move \in Cell
      /\ moves \in Seq(Cell) /\ s.result \in {0, 1, 2}
  <2>1. s \in SampleType
    BY DEF IInv, TypeOK, OutcomeTypeOK
  <2> QED
    BY <2>1 DEF SampleType, IInv, TypeOK, PositionTypeOK, LOSS, DRAW, WIN
<1>2. /\ n < 512 /\ n < Len(moves) /\ s.move = moves[n + 1]
      /\ \A j \in 1 .. n : s.pos[j] = moves[j]
  <2>1. OfTheGame(s)
    BY DEF SampleInv
  <2>2. Cardinality(Cell) \in Nat
    BY GameAssumption, FS_CardinalityType
  <2> QED
    BY <1>1, <2>1, <2>2, BoardIsSmall DEF OfTheGame
<1> HIDE DEF s, n
<1>3. /\ entry.position = [j \in 1 .. n |-> Raw(s.pos[j])]
      /\ Len(entry.position) = n /\ entry.ply = n % 512
      /\ entry.move = Raw(s.move) % 8192 /\ entry.result = s.result % 4
  BY <1>1 DEF BinEntry, RawMoves, n
<1>4. /\ line.pos = [j \in 1 .. n |-> PosNotation(s.pos[j])]
      /\ line.move = PosNotation(s.move) /\ line.result = s.result
  BY <1>1 DEF CsvLine, n
<1> HIDE DEF entry, line
<1>5. entry.ply = Len(entry.position) /\ entry.result = line.result
  BY <1>1, <1>2, <1>3, <1>4
<1>6. ReadMoves(entry.position) = [j \in 1 .. n |-> coord(s.pos[j])]
      /\ ReadPoint(entry.move) = coord(s.move)
  <2>1. \A j \in 1 .. n : s.pos[j] \in Cell
    BY <1>1 DEF n
  <2>2. \A p \in Cell : ReadPoint(Raw(p)) = coord(p) /\ ReadPoint(Raw(p) % 8192) = coord(p)
    BY PointReadBack
  <2> HIDE DEF coord
  <2> QED
    BY <1>1, <1>3, <2>1, <2>2 DEF ReadMoves
<1>7. read = [j \in 1 .. n + 1 |-> coord(moves[j])]
  <2> HIDE DEF coord
  <2> QED
    BY <1>1, <1>2, <1>6
<1>8. text = [j \in 1 .. n + 1 |-> PosNotation(moves[j])]
  BY <1>1, <1>2, <1>4
<1>9. \A j \in 1 .. n + 1 : FromNotation(PosNotation(moves[j])) = coord(moves[j])
  <2>1. \A j \in 1 .. n + 1 : moves[j] \in Cell
    BY <1>1, <1>2
  <2> QED
    BY <2>1, PointReadBack
<1> HIDE DEF read, text
<1>10. read = [j \in DOMAIN text |-> FromNotation(text[j])]
  <2> HIDE DEF coord
  <2> QED
    BY <1>7, <1>8, <1>9
<1>11. IsPrefix(read, Played)
  <2>1. Played = [j \in 1 .. Len(moves) |-> coord(moves[j])] /\ Len(Played) = Len(moves)
    BY <1>1 DEF Played
  <2>2. Len(read) = n + 1
    BY <1>1, <1>7
  <2> HIDE DEF coord
  <2>3. Len(read) <= Len(Played) /\ Len(moves) \in Nat
    BY <1>1, <1>2, <2>1, <2>2
  <2>4. SubSeq(read, 1, n + 1) = [j \in 1 .. n + 1 |-> coord(moves[j])]
    BY <1>1, <1>7
  <2>5. SubSeq(Played, 1, n + 1) = [j \in 1 .. n + 1 |-> coord(moves[j])]
    BY <1>1, <1>2, <2>1, <2>3
  <2> QED
    BY <2>2, <2>3, <2>4, <2>5 DEF IsPrefix
<1> QED
  BY <1>5, <1>10, <1>11 DEF entry, line, read, text, s

(***************************************************************************)
(* What a reader gets out of a csv line and out of a bin entry is a        *)
(* position of the game with the move that was played in it.               *)
(***************************************************************************)
THEOREM SamplesAreReadBack == Spec => []SamplesReadBack
<1>1. Init => SampleInv
  BY DEF Init, SampleInv
<1>2. IInv /\ SampleInv /\ [Next]_vars => SampleInv'
  BY SampleStep
<1>3. IInv /\ SampleInv => SamplesReadBack
  <2> SUFFICES ASSUME IInv, SampleInv, pc = "over", NEW i \in DOMAIN samples
               PROVE  samples[i].result \in {LOSS, DRAW, WIN}
    BY SampleReadBack DEF SamplesReadBack
  <2>1. samples[i].result \in {result, 2 - result}
    BY DEF IInv, ResultInv, SamplesAgreeWithResult
  <2> QED
    BY <2>1 DEF SampleInv, LOSS, DRAW, WIN
<1> QED
  BY <1>1, <1>2, <1>3, Invariance, PTL DEF Spec

-----------------------------------------------------------------------------
\* The samples of a game follow each other.
InOrder(s) == \A i, j \in DOMAIN s : i < j => Len(s[i].pos) < Len(s[j].pos)

LEMMA OrderStep ==
  ASSUME IInv, SampleInv, InOrder(samples), [Next]_vars
  PROVE  InOrder(samples')
<1> USE DEF Active, setup, counters, outcome
<1>0. moves \in Seq(Cell) /\ samples \in Seq(SampleType)
  BY DEF IInv, TypeOK, PositionTypeOK, OutcomeTypeOK
<1>1. CASE samples' = samples
  BY <1>1, Zenon
<1>2. CASE FinishingStep
  <2>1. PICK st \in Losses \cup Draws : Finish(st)
    BY <1>2, FinishingSteps
  <2>2. samples' = Filled(st, samples)
    BY <2>1 DEF Finish
  <2>3. \A i \in DOMAIN samples' : i \in DOMAIN samples /\ samples'[i].pos = samples[i].pos
    BY <1>0, <2>2, FilledSamples DEF IInv
  <2> QED
    BY <2>3 DEF InOrder
<1>3. CASE PlayMove
  <2>1. samples' = samples \/ samples' = Append(samples, Sample)
    BY <1>3 DEF PlayMove
  <2>2. ASSUME samples' = Append(samples, Sample)
        PROVE  InOrder(samples')
    <3> DEFINE n == Len(samples)
    <3>1. /\ n \in Nat /\ DOMAIN samples = 1 .. n /\ DOMAIN samples' = 1 .. n + 1
          /\ \A i \in 1 .. n : samples'[i] = samples[i]
          /\ samples'[n + 1] = Sample
      BY <1>0, <2>2, AppendProperties
    <3>2. Sample.pos = moves
      BY DEF Sample
    <3>3. \A i \in 1 .. n : Len(samples[i].pos) < Len(moves)
      BY <3>1 DEF SampleInv, OfTheGame
    <3> HIDE DEF n
    <3>4. ASSUME NEW i \in 1 .. n + 1, NEW j \in 1 .. n + 1, i < j
          PROVE  Len(samples'[i].pos) < Len(samples'[j].pos)
      <4>1. i \in 1 .. n /\ (j \in 1 .. n \/ j = n + 1)
        BY <3>1, <3>4
      <4> QED
        BY <3>1, <3>2, <3>3, <3>4, <4>1, Zenon DEF InOrder
    <3> QED
      BY <3>1, <3>4, Zenon DEF InOrder
  <2> QED
    BY <1>1, <2>1, <2>2
<1>4. CASE StartOk \/ StartFails
  BY <1>1, <1>4 DEF StartOk, StartFails
<1>5. CASE TurnStep
  BY <1>1, <1>5, TurnFrame
<1>6. CASE UNCHANGED vars
  BY <1>1, <1>6 DEF vars
<1> QED
  BY <1>2, <1>3, <1>4, <1>5, <1>6, StepCases DEF TurnStep

-----------------------------------------------------------------------------
\* A move of an entry, and what is packed while one entry is enough
MoveType == [move : Int, eval : Int]

OneEntry(first, seq) ==
  [out |-> <<>>,
   entry |-> [result |-> first.result, opening |-> RawMoves(first.pos), seq |-> seq]]

\* Samples on the way of the game, the first with a place in the entry
Path(s) ==
  /\ s \in Seq(SampleType) /\ Len(s) > 0 /\ InOrder(s) /\ moves \in Seq(Cell)
  /\ \A i \in DOMAIN s : OfTheGame(s[i])

\* The moves from the first sample to the one after n, with its evaluations
Tells(s, n, seq) ==
  /\ seq \in Seq(MoveType)
  /\ Len(seq) = IF n = 0 THEN 0 ELSE Len(s[n + 1].pos) + 1 - Len(s[1].pos)
  /\ \A k \in 1 .. Len(seq) : seq[k].move = Raw(moves[Len(s[1].pos) + k])
  /\ \A i \in 2 .. n + 1 : seq[Len(s[i].pos) - Len(s[1].pos) + 1].eval = s[i].eval

LEMMA JoinedMoves ==
  ASSUME NEW T, NEW q \in Seq(T), NEW g \in Seq(T), NEW x \in T,
         NEW r, r = (q \o g) \o <<x>>
  PROVE  /\ r \in Seq(T) /\ Len(r) = Len(q) + Len(g) + 1
         /\ \A k \in 1 .. Len(q) : r[k] = q[k]
         /\ \A k \in Len(q) + 1 .. Len(q) + Len(g) : r[k] = g[k - Len(q)]
         /\ r[Len(q) + Len(g) + 1] = x
OBVIOUS

LEMMA SampleFields ==
  ASSUME NEW s \in SampleType
  PROVE  s.pos \in Seq(Cell) /\ Len(s.pos) \in Nat /\ s.result \in Int /\ s.eval \in Int
BY DEF SampleType

\* The raw numbers of points that are those of the game
LEMMA RawPath ==
  ASSUME moves \in Seq(Cell), NEW s \in SampleType, OfTheGame(s)
  PROVE  /\ Len(s.pos) \in Nat /\ s.result \in Int /\ s.eval \in Int
         /\ \A j \in 1 .. Len(s.pos) + 1 : Raw(moves[j]) \in Int
         /\ \A j \in 1 .. Len(s.pos) : s.pos[j] = moves[j]
         /\ RawMoves(s.pos) = [j \in 1 .. Len(s.pos) |-> Raw(moves[j])]
         /\ s.move = moves[Len(s.pos) + 1]
<1>1. s.pos \in Seq(Cell) /\ s.result \in Int /\ s.eval \in Int /\ Len(s.pos) \in Nat
  BY DEF SampleType
<1>2. /\ Len(s.pos) < Len(moves) /\ Len(moves) \in Nat
      /\ \A j \in 1 .. Len(s.pos) : s.pos[j] = moves[j]
      /\ s.move = moves[Len(s.pos) + 1]
  BY DEF OfTheGame
<1>3. RawMoves(s.pos) = [j \in 1 .. Len(s.pos) |-> Raw(moves[j])]
  BY <1>1, <1>2 DEF RawMoves
<1>4. \A p \in Cell : Raw(p) \in Int
  BY PointReadBack
<1>5. \A j \in 1 .. Len(s.pos) + 1 : moves[j] \in Cell
  BY <1>1, <1>2
<1> QED
  BY <1>1, <1>2, <1>3, <1>4, <1>5, Zenon

\* What an entry that tells the path so far replays
LEMMA ReplaysPath ==
  ASSUME NEW s, Path(s), NEW n \in 0 .. Len(s) - 1, NEW seq, Tells(s, n, seq)
  PROVE  LET entry == OneEntry(s[1], seq).entry
             l == Len(s[1].pos) + Len(seq)
         IN  /\ Replay(entry) = [j \in 1 .. l |-> Raw(moves[j])]
             /\ Len(Replay(entry)) = l
             /\ l \in Nat /\ Len(seq) \in Nat
             /\ l = IF n = 0 THEN Len(s[1].pos) ELSE Len(s[n + 1].pos) + 1
             /\ \A j \in 1 .. l : Raw(moves[j]) \in Int
<1> DEFINE a == Len(s[1].pos)
           m == Len(seq)
           moved == [i \in DOMAIN seq |-> seq[i].move]
           entry == OneEntry(s[1], seq).entry
<1>1. 1 \in 1 .. Len(s) /\ n + 1 \in 1 .. Len(s) /\ DOMAIN s = 1 .. Len(s)
  BY DEF Path
<1>2. /\ a \in Nat /\ RawMoves(s[1].pos) = [j \in 1 .. a |-> Raw(moves[j])]
      /\ Len(s[n + 1].pos) \in Nat
      /\ \A j \in 1 .. Len(s[n + 1].pos) + 1 : Raw(moves[j]) \in Int
      /\ \A j \in 1 .. a : Raw(moves[j]) \in Int
  <2>1. s[1] \in SampleType /\ s[n + 1] \in SampleType /\ OfTheGame(s[1]) /\ OfTheGame(s[n + 1])
    BY <1>1 DEF Path
  <2>2. a \in Nat
    BY <2>1 DEF SampleType
  <2>3. \A j \in 1 .. a : j \in 1 .. a + 1
    BY <2>2
  <2>4. moves \in Seq(Cell)
    BY DEF Path
  <2> QED
    BY <2>1, <2>3, <2>4, RawPath, Zenon
<1>3. /\ m \in Nat /\ DOMAIN seq = 1 .. m
      /\ m = IF n = 0 THEN 0 ELSE Len(s[n + 1].pos) + 1 - a
      /\ \A k \in 1 .. m : seq[k].move = Raw(moves[a + k])
  <2>1. m \in Nat /\ DOMAIN seq = 1 .. m
    <3>1. seq \in Seq(MoveType)
      BY Zenon DEF Tells
    <3> QED
      BY <3>1, LenProperties
  <2> QED
    BY <2>1, Zenon DEF Tells
<1>4. moved = [k \in 1 .. m |-> Raw(moves[a + k])]
  BY <1>3
<1>5. Replay(entry) = RawMoves(s[1].pos) \o moved
  BY DEF Replay, OneEntry
<1> HIDE DEF a, m, moved, entry
<1>6. a + m = IF n = 0 THEN a ELSE Len(s[n + 1].pos) + 1
  BY <1>2, <1>3
<1>7. \A j \in 1 .. a + m : Raw(moves[j]) \in Int
  BY <1>2, <1>6, Zenon
<1>8. Replay(entry) = [j \in 1 .. a + m |-> Raw(moves[j])]
  <2> DEFINE R(j) == Raw(moves[j])
  <2>1. RawMoves(s[1].pos) = [j \in 1 .. a |-> R(j)] /\ moved = [k \in 1 .. m |-> R(a + k)]
    BY <1>2, <1>4
  <2> HIDE DEF R
  <2>2. [j \in 1 .. a |-> R(j)] \o [k \in 1 .. m |-> R(a + k)] = [j \in 1 .. a + m |-> R(j)]
    BY <1>2, <1>3
  <2> QED
    BY <1>5, <2>1, <2>2 DEF R
<1>9. Len(Replay(entry)) = a + m
  BY <1>2, <1>3, <1>8
<1>10. a + m \in Nat
  BY <1>2, <1>3
<1> QED
  BY <1>3, <1>6, <1>7, <1>8, <1>9, <1>10, Zenon DEF a, m, entry

\* The moves between two samples
LEMMA GapIs ==
  ASSUME moves \in Seq(Cell), NEW s \in SampleType, OfTheGame(s),
         NEW first \in SampleType, NEW index \in 0 .. Len(s.pos)
  PROVE  LET g == GapMoves(s, index, first)
         IN  /\ g \in Seq(MoveType) /\ Len(g) = Len(s.pos) - index
             /\ \A i \in 1 .. Len(s.pos) - index : g[i].move = Raw(moves[index + i])
<1> DEFINE n == Len(s.pos) - index
           g == GapMoves(s, index, first)
<1>1. /\ Len(s.pos) \in Nat /\ first.eval \in Int
      /\ \A j \in 1 .. Len(s.pos) : s.pos[j] = moves[j] /\ Raw(moves[j]) \in Int
  <2>1. first.eval \in Int /\ Len(s.pos) \in Nat
    BY DEF SampleType
  <2>2. \A j \in 1 .. Len(s.pos) : j \in 1 .. Len(s.pos) + 1
    BY <2>1
  <2> QED
    BY <2>1, <2>2, RawPath, Zenon
<1>2. n \in Nat
  BY <1>1
<1>3. g = [i \in 1 .. n |-> [move |-> Raw(s.pos[index + i]),
                             eval |-> IF index + i = Len(s.pos) THEN first.eval ELSE 0]]
  BY DEF GapMoves
<1>4. \A i \in 1 .. n : index + i \in 1 .. Len(s.pos)
  BY <1>1
<1> HIDE DEF g, n
<1>5. ASSUME NEW i \in 1 .. n
      PROVE  g[i] \in MoveType /\ g[i].move = Raw(moves[index + i])
  <2>1. s.pos[index + i] = moves[index + i] /\ Raw(moves[index + i]) \in Int
    BY <1>1, <1>4
  <2> QED
    BY <1>1, <1>3, <2>1 DEF MoveType
<1>6. g \in [1 .. n -> MoveType]
  <2> HIDE DEF MoveType
  <2>1. DOMAIN g = 1 .. n /\ g = [i \in 1 .. n |-> g[i]]
    BY <1>3
  <2> QED
    BY <1>5, <2>1
<1>7. g \in Seq(MoveType) /\ Len(g) = n
  BY <1>2, <1>6, IsASequence
<1> QED
  BY <1>5, <1>7 DEF g, n

(***************************************************************************)
(* A round of the loop over the samples keeps to the one entry.            *)
(***************************************************************************)
LEMMA PackContinues ==
  ASSUME NEW s, Path(s), NEW n \in 1 .. Len(s) - 1, NEW seq, Tells(s, n - 1, seq)
  PROVE  \E more : /\ Tells(s, n, more)
                   /\ Pack(OneEntry(s[1], seq), s[n + 1], s[1]) = OneEntry(s[1], more)
<1> DEFINE a == Len(s[1].pos)
           next == s[n + 1]
           index == a + Len(seq)
           entry == OneEntry(s[1], seq).entry
           g == GapMoves(next, index, s[1])
           x == [move |-> Raw(next.move), eval |-> next.eval]
           more == (seq \o g) \o <<x>>
<1>1. /\ 1 \in 1 .. Len(s) /\ n + 1 \in 1 .. Len(s) /\ n \in 1 .. Len(s)
      /\ DOMAIN s = 1 .. Len(s) /\ Len(s) \in Nat
      /\ n - 1 \in 0 .. Len(s) - 1 /\ n < n + 1 /\ (n - 1) + 1 = n /\ n \in Nat
  BY DEF Path
<1>2. /\ s[1] \in SampleType /\ next \in SampleType /\ s[n] \in SampleType
      /\ OfTheGame(s[1]) /\ OfTheGame(next)
      /\ moves \in Seq(Cell)
  BY <1>1 DEF Path
<1>3. /\ a \in Nat /\ Len(next.pos) \in Nat /\ Len(s[n].pos) \in Nat
      /\ Len(s[n].pos) < Len(next.pos) /\ a < Len(next.pos)
  <2>1. a \in Nat /\ Len(next.pos) \in Nat /\ Len(s[n].pos) \in Nat
    BY <1>2, SampleFields, Zenon
  <2>2. Len(s[n].pos) < Len(next.pos)
    BY <1>1 DEF Path, InOrder
  <2>3. 1 < n + 1
    BY <1>1
  <2>4. a < Len(next.pos)
    BY <1>1, <2>3 DEF Path, InOrder
  <2> QED
    BY <2>1, <2>2, <2>4
<1>4. /\ Replay(entry) = [j \in 1 .. index |-> Raw(moves[j])]
      /\ Len(Replay(entry)) = index
      /\ index \in Nat /\ Len(seq) \in Nat
      /\ index = IF n - 1 = 0 THEN a ELSE Len(s[n].pos) + 1
      /\ \A j \in 1 .. index : Raw(moves[j]) \in Int
  <2> DEFINE k == n - 1
  <2>1. k \in 0 .. Len(s) - 1 /\ Tells(s, k, seq) /\ k + 1 = n
    BY <1>1
  <2> HIDE DEF k
  <2>2. /\ Replay(entry) = [j \in 1 .. index |-> Raw(moves[j])]
        /\ Len(Replay(entry)) = index
        /\ index \in Nat /\ Len(seq) \in Nat
        /\ index = IF k = 0 THEN a ELSE Len(s[k + 1].pos) + 1
        /\ \A j \in 1 .. index : Raw(moves[j]) \in Int
    BY <2>1, ReplaysPath, Zenon
  <2> QED
    BY <2>1, <2>2, Zenon DEF k
<1> HIDE DEF next, entry
<1>5. index <= Len(next.pos) /\ index \in 0 .. Len(next.pos)
  <2> HIDE DEF index, a
  <2> QED
    BY <1>3, <1>4
<1>6. RawMoves(next.pos) = [j \in 1 .. Len(next.pos) |-> Raw(moves[j])]
      /\ next.move = moves[Len(next.pos) + 1] /\ next.eval \in Int
      /\ Raw(moves[Len(next.pos) + 1]) \in Int
  <2>1. Len(next.pos) + 1 \in 1 .. Len(next.pos) + 1
    BY <1>3
  <2> QED
    BY <1>2, <2>1, RawPath, Zenon
<1>7. FollowingMoveIndex(entry, next) = index
  <2> DEFINE R(j) == Raw(moves[j])
             all == [j \in 1 .. Len(next.pos) |-> R(j)]
  <2>1. RawMoves(next.pos) = all /\ Replay(entry) = [j \in 1 .. index |-> R(j)]
    BY <1>4, <1>6
  <2> HIDE DEF R, index
  <2>2. Len(all) = Len(next.pos)
    BY <1>3
  <2>3. SubSeq(all, 1, index) = [j \in 1 .. index |-> R(j)]
    BY <1>3, <1>4, <1>5
  <2>4. SubSeq([j \in 1 .. index |-> R(j)], 1, index) = [j \in 1 .. index |-> R(j)]
    BY <1>4
  <2>5. IsPrefix(Replay(entry), RawMoves(next.pos))
    <3> HIDE DEF all
    <3> QED
      BY <1>4, <1>5, <2>1, <2>2, <2>3, <2>4, Zenon DEF IsPrefix
  <2> QED
    BY <1>4, <2>5, Zenon DEF FollowingMoveIndex
<1>8. index # -1
  <2> HIDE DEF index
  <2> QED
    BY <1>4
<1>9. Pack(OneEntry(s[1], seq), next, s[1]) = OneEntry(s[1], more)
  <2>1. /\ OneEntry(s[1], seq).out = <<>> /\ entry.seq = seq
        /\ entry = [result |-> s[1].result, opening |-> RawMoves(s[1].pos), seq |-> seq]
    BY DEF OneEntry, entry
  <2>2. FollowingMoveIndex(OneEntry(s[1], seq).entry, next) = index
    BY <1>7, Zenon DEF entry
  <2> HIDE DEF index
  <2>3. Pack(OneEntry(s[1], seq), next, s[1]) =
          [out |-> OneEntry(s[1], seq).out, entry |-> [entry EXCEPT !.seq = (@ \o g) \o <<x>>]]
    BY <1>8, <2>2 DEF Pack, entry
  <2> HIDE DEF g, x
  <2>4. [entry EXCEPT !.seq = (@ \o g) \o <<x>>]
          = [result |-> s[1].result, opening |-> RawMoves(s[1].pos), seq |-> more]
    <3>1. more = (entry.seq \o g) \o <<x>>
      BY <2>1, Zenon
    <3> HIDE DEF more
    <3>2. [entry EXCEPT !.seq = (@ \o g) \o <<x>>] = [entry EXCEPT !.seq = more]
      BY <3>1, Zenon
    <3> QED
      BY <2>1, <3>2
  <2> HIDE DEF more, entry
  <2> QED
    BY <2>1, <2>3, <2>4 DEF OneEntry
<1>10. /\ g \in Seq(MoveType) /\ Len(g) = Len(next.pos) - index
       /\ \A i \in 1 .. Len(next.pos) - index : g[i].move = Raw(moves[index + i])
  BY <1>2, <1>5, GapIs, Zenon
<1>11. x \in MoveType /\ x.move = Raw(moves[Len(next.pos) + 1]) /\ x.eval = next.eval
  BY <1>6 DEF MoveType
<1> DEFINE m == Len(seq)
           k == Len(next.pos) - index
<1> HIDE DEF g, x
<1>12. /\ seq \in Seq(MoveType) /\ m \in Nat
       /\ \A i \in 1 .. m : seq[i].move = Raw(moves[a + i])
       /\ \A i \in 2 .. n : seq[Len(s[i].pos) - a + 1].eval = s[i].eval
  BY <1>1, <1>4, Zenon DEF Tells
<1>13. /\ more \in Seq(MoveType) /\ Len(more) = m + k + 1
       /\ \A i \in 1 .. m : more[i] = seq[i]
       /\ \A i \in m + 1 .. m + k : more[i] = g[i - m]
       /\ more[m + k + 1] = x
  <2>1. /\ more \in Seq(MoveType) /\ Len(more) = Len(seq) + Len(g) + 1
        /\ \A i \in 1 .. Len(seq) : more[i] = seq[i]
        /\ \A i \in Len(seq) + 1 .. Len(seq) + Len(g) : more[i] = g[i - Len(seq)]
        /\ more[Len(seq) + Len(g) + 1] = x
    <3>1. more = (seq \o g) \o <<x>>
      BY Zenon
    <3>2. seq \in Seq(MoveType) /\ g \in Seq(MoveType) /\ x \in MoveType
      BY <1>10, <1>11, <1>12, Zenon
    <3> HIDE DEF more
    <3> QED
      BY ONLY <3>1, <3>2, JoinedMoves
  <2> QED
    BY <1>10, <2>1, Zenon
<1> HIDE DEF more
<1>14. /\ k \in Nat /\ m + k + 1 = Len(next.pos) + 1 - a /\ a + (m + k + 1) = Len(next.pos) + 1
       /\ (Len(next.pos) - a) + 1 = m + k + 1
  <2>1. /\ a \in Nat /\ m \in Nat /\ index = a + m /\ Len(next.pos) \in Nat
        /\ index <= Len(next.pos) /\ k = Len(next.pos) - index
    BY <1>3, <1>4, <1>5
  <2> HIDE DEF a, m, k, index
  <2> QED
    BY ONLY <2>1
<1>15. ASSUME NEW i \in 1 .. m + k + 1
       PROVE  more[i].move = Raw(moves[a + i])
  <2>1. CASE i \in 1 .. m
    BY <1>12, <1>13, <2>1, Zenon
  <2>2. CASE i \in m + 1 .. m + k
    <3>1. i - m \in 1 .. k /\ index + (i - m) = a + i
      <4>1. a \in Nat /\ m \in Nat /\ k \in Nat /\ index = a + m /\ i \in m + 1 .. m + k
        BY <1>3, <1>12, <1>14, <2>2
      <4> HIDE DEF a, m, k, index
      <4> QED
        BY ONLY <4>1
    <3> QED
      BY <1>10, <1>13, <2>2, <3>1, Zenon
  <2>3. CASE i = m + k + 1
    BY <1>11, <1>13, <1>14, <2>3, Zenon
  <2>4. i \in 1 .. m \/ i \in m + 1 .. m + k \/ i = m + k + 1
    <3>1. m \in Nat /\ k \in Nat
      BY <1>12, <1>14
    <3> HIDE DEF m, k
    <3> QED
      BY ONLY <3>1, i \in 1 .. m + k + 1
  <2> QED
    BY <2>1, <2>2, <2>3, <2>4
<1>16. ASSUME NEW i \in 2 .. n + 1
       PROVE  more[Len(s[i].pos) - a + 1].eval = s[i].eval
  <2>1. CASE i = n + 1
    <3>1. Len(s[i].pos) - a + 1 = m + k + 1
      BY <1>14, <2>1, Zenon DEF next
    <3> QED
      BY <1>11, <1>13, <2>1, <3>1, Zenon DEF next
  <2>2. CASE i # n + 1
    <3>1. /\ i \in 2 .. n /\ i \in 1 .. Len(s) /\ 1 < i /\ n \in 1 .. Len(s) /\ (i = n \/ i < n)
          /\ n - 1 # 0
      BY <1>1, <2>2
    <3>2. s[i] \in SampleType /\ a < Len(s[i].pos) /\ (i = n \/ Len(s[i].pos) < Len(s[n].pos))
      <4>1. InOrder(s)
        BY Zenon DEF Path
      <4>2. a < Len(s[i].pos) /\ (i = n \/ Len(s[i].pos) < Len(s[n].pos))
        BY <1>1, <3>1, <4>1, Zenon DEF InOrder
      <4>3. s[i] \in SampleType
        BY <1>1, <3>1 DEF Path
      <4> QED
        BY <4>2, <4>3
    <3>3. Len(s[i].pos) - a + 1 \in 1 .. m
      <4>1. /\ Len(s[i].pos) \in Nat /\ a \in Nat /\ m \in Nat /\ Len(s[n].pos) \in Nat
            /\ a < Len(s[i].pos) /\ Len(s[i].pos) <= Len(s[n].pos)
            /\ a + m = Len(s[n].pos) + 1
        <5>1. Len(s[i].pos) \in Nat
          BY <3>2 DEF SampleType
        <5>2. Len(s[i].pos) <= Len(s[n].pos)
          BY <1>3, <3>2, <5>1
        <5>3. a + m = Len(s[n].pos) + 1
          BY <1>4, <3>1
        <5> QED
          BY <1>3, <1>12, <3>2, <5>1, <5>2, <5>3
      <4> HIDE DEF a, m
      <4> QED
        BY ONLY <4>1
    <3> QED
      BY <1>12, <1>13, <3>1, <3>3, Zenon
  <2> QED
    BY <2>1, <2>2
<1>17. Tells(s, n, more)
  <2>1. n # 0 /\ Len(more) = Len(next.pos) + 1 - a
    BY <1>1, <1>13, <1>14
  <2>2. Len(more) = IF n = 0 THEN 0 ELSE Len(s[n + 1].pos) + 1 - Len(s[1].pos)
    BY <2>1, Zenon DEF next
  <2> QED
    BY <1>13, <1>15, <1>16, <2>2, Zenon DEF Tells
<1> QED
  BY <1>9, <1>17, Zenon DEF next

\* The loop over the samples packs one entry that tells the whole path.
LEMMA PackedIs ==
  ASSUME NEW s, Path(s)
  PROVE  \E seq : /\ Tells(s, Len(s) - 1, seq)
                  /\ Packed(s, Len(s) - 1) = OneEntry(s[1], seq)
<1> DEFINE n == Len(s) - 1
           S == {OneEntry(s[1], seq) : seq \in Seq(MoveType)}
           Good(k) == {OneEntry(s[1], seq) : seq \in {q \in Seq(MoveType) : Tells(s, k, q)}}
           step == [x \in S \X (1 .. n) |->
                      IF Pack(x[1], s[x[2] + 1], s[1]) \in S
                        THEN Pack(x[1], s[x[2] + 1], s[1]) ELSE OneEntry(s[1], <<>>)]
           base == OneEntry(s[1], <<>>)
           Defines(f) == f = [k \in 0 .. n |->
                                IF k = 0 THEN [out |-> <<>>, entry |-> InitEntry(s[1])]
                                ELSE Pack(f[k - 1], s[k + 1], s[1])]
<1>1. n \in Nat
  BY DEF Path
<1>2. base \in Good(0) /\ base \in S /\ [out |-> <<>>, entry |-> InitEntry(s[1])] = base
  <2>1. <<>> \in Seq(MoveType) /\ Len(<<>>) = 0
    OBVIOUS
  <2>2. Tells(s, 0, <<>>)
    BY <2>1 DEF Tells
  <2>3. [out |-> <<>>, entry |-> InitEntry(s[1])] = base
    BY DEF InitEntry, OneEntry
  <2> QED
    BY <2>1, <2>2, <2>3, Zenon
<1>3. ASSUME NEW k \in 1 .. n, NEW x \in Good(k - 1)
      PROVE  Pack(x, s[k + 1], s[1]) \in Good(k) /\ Good(k) \subseteq S
  <2>1. PICK seq : Tells(s, k - 1, seq) /\ x = OneEntry(s[1], seq)
    OBVIOUS
  <2>2. k \in 1 .. Len(s) - 1
    OBVIOUS
  <2>3. PICK more : Tells(s, k, more) /\ Pack(x, s[k + 1], s[1]) = OneEntry(s[1], more)
    BY <2>1, <2>2, PackContinues, Zenon
  <2>4. more \in Seq(MoveType)
    BY <2>3, Zenon DEF Tells
  <2> QED
    BY <2>3, <2>4
<1>4. \E f : f \in LoopRuns(S, base, n, step)
  <2>1. step \in [S \X (1 .. n) -> S]
    <3>1. base \in S
      BY <1>2
    <3> HIDE DEF S
    <3> QED
      BY <3>1
  <2> HIDE DEF S, n, step, base
  <2> QED
    BY <1>1, <1>2, <2>1, LoopExists, Zenon
<1>5. PICK f \in [0 .. n -> S] :
        f[0] = base /\ \A k \in 1 .. n : f[k] = step[<<f[k - 1], k>>]
  <2> HIDE DEF S, n, step, base
  <2> QED
    BY <1>4, Zenon DEF LoopRuns
<1>6. ASSUME NEW k \in 1 .. n, f[k - 1] \in Good(k - 1)
      PROVE  f[k] = Pack(f[k - 1], s[k + 1], s[1]) /\ f[k] \in Good(k)
  <2>1. Pack(f[k - 1], s[k + 1], s[1]) \in Good(k) /\ Good(k) \subseteq S
    BY <1>3, <1>6
  <2>2. Pack(f[k - 1], s[k + 1], s[1]) \in S /\ f[k - 1] \in S
    <3>1. k - 1 \in 0 .. n
      BY <1>1
    <3> HIDE DEF S, Good, n
    <3> QED
      BY <1>5, <2>1, <3>1
  <2>3. f[k] = step[<<f[k - 1], k>>]
    BY <1>5, Zenon
  <2> HIDE DEF S, Good, n
  <2>4. step[<<f[k - 1], k>>] = Pack(f[k - 1], s[k + 1], s[1])
    BY <2>2
  <2> QED
    BY <2>1, <2>3, <2>4, Zenon
<1>7. \A k \in 0 .. n : f[k] \in Good(k)
  <2> DEFINE T == {k \in 0 .. n : f[k] \in Good(k)}
  <2> HIDE DEF Good, step, S, n, base
  <2>1. 0 \in T
    BY <1>1, <1>2, <1>5
  <2>2. ASSUME NEW k \in 1 .. n, k - 1 \in T
        PROVE  k \in T
    <3>1. f[k - 1] \in Good(k - 1)
      BY <2>2
    <3>2. f[k] \in Good(k)
      BY <1>6, <3>1, Zenon
    <3>3. k \in 0 .. n
      BY <1>1
    <3> QED
      BY <3>2, <3>3
  <2> HIDE DEF T
  <2>3. \A k \in 0 .. n : k \in T
    BY <1>1, <2>1, <2>2, Induction, Zenon
  <2> QED
    BY <2>3 DEF T
<1>8. Defines(f)
  <2> HIDE DEF Good, step, S, base
  <2>1. ASSUME NEW k \in 0 .. n
        PROVE  f[k] = IF k = 0 THEN [out |-> <<>>, entry |-> InitEntry(s[1])]
                      ELSE Pack(f[k - 1], s[k + 1], s[1])
    <3>1. CASE k = 0
      BY <1>2, <1>5, <3>1, Zenon
    <3>2. CASE k # 0
      <4>1. k \in 1 .. n /\ k - 1 \in 0 .. n
        BY <1>1, <3>2
      <4> HIDE DEF n
      <4> QED
        BY <1>6, <1>7, <3>2, <4>1, Zenon
    <3> QED
      BY <3>1, <3>2
  <2>2. f = [k \in 0 .. n |-> f[k]]
    BY <1>5
  <2> QED
    BY <2>1, <2>2
<1> DEFINE packed == CHOOSE h : Defines(h)
<1>9. Defines(packed) /\ Packed(s, n) = packed[n]
  <2>1. Packed(s, n) = packed[n]
    BY DEF Packed
  <2> HIDE DEF Defines
  <2> QED
    BY <1>8, <2>1, Zenon
<1> HIDE DEF packed, Good, S, step, base, n
<1>10. /\ packed[0] = base
       /\ \A k \in 1 .. n : packed[k] = Pack(packed[k - 1], s[k + 1], s[1])
  <2>1. \A k \in 0 .. n : packed[k] = IF k = 0 THEN [out |-> <<>>, entry |-> InitEntry(s[1])]
                                      ELSE Pack(packed[k - 1], s[k + 1], s[1])
    BY <1>9
  <2>2. 0 \in 0 .. n /\ \A k \in 1 .. n : k \in 0 .. n /\ k # 0
    BY <1>1
  <2> QED
    BY <1>2, <2>1, <2>2, Zenon
<1>11. \A k \in 0 .. n : packed[k] \in Good(k)
  <2> DEFINE T == {k \in 0 .. n : packed[k] \in Good(k)}
  <2>1. 0 \in T
    BY <1>1, <1>2, <1>10
  <2>2. ASSUME NEW k \in 1 .. n, k - 1 \in T
        PROVE  k \in T
    <3>1. packed[k - 1] \in Good(k - 1) /\ k \in 0 .. n
      BY <1>1, <2>2
    <3>2. packed[k] \in Good(k)
      BY <1>3, <1>10, <3>1, Zenon
    <3> QED
      BY <3>1, <3>2
  <2> HIDE DEF T
  <2>3. \A k \in 0 .. n : k \in T
    BY <1>1, <2>1, <2>2, Induction, Zenon
  <2> QED
    BY <2>3 DEF T
<1>12. packed[n] \in Good(n)
  BY <1>1, <1>11
<1> QED
  BY <1>9, <1>12 DEF Good, n

(***************************************************************************)
(* The samples of a game make one entry of a binpack file that replays the *)
(* game from its first sample to its last, with the moves that were not    *)
(* sampled, and has the evaluations of the samples at their moves.         *)
(***************************************************************************)
THEOREM BinpackIsReplayed == Spec => []BinpackReplays
<1> DEFINE Inv == SampleInv /\ InOrder(samples)
<1>1. Init => Inv
  BY DEF Init, SampleInv, InOrder
<1>2. IInv /\ Inv /\ [Next]_vars => Inv'
  BY SampleStep, OrderStep DEF InOrder
<1>3. ASSUME IInv, Inv, Len(samples) >= 2
      PROVE  /\ Len(Binpack(samples)) = 1
             /\ LET entry == Head(Binpack(samples))
                    replay == ReadMoves(Replay(entry))
                IN  /\ IsPrefix(replay, Played)
                    /\ Len(replay) = Len(Last(samples).pos) + 1
                    /\ entry.result = Head(samples).result
                    /\ Len(entry.opening) = Len(Head(samples).pos)
                    /\ \A i \in 2 .. Len(samples) :
                         entry.seq[Len(samples[i].pos) - Len(entry.opening) + 1].eval
                           = samples[i].eval
  <2> DEFINE s == samples
             n == Len(samples) - 1
             a == Len(s[1].pos)
             b == Len(s[n + 1].pos)
             coord(p) == <<CoordX(p), CoordY(p)>>
  <2>1. /\ s \in Seq(SampleType) /\ moves \in Seq(Cell) /\ Len(s) \in Nat
        /\ DOMAIN s = 1 .. Len(s) /\ 1 \in 1 .. Len(s) /\ n + 1 \in 1 .. Len(s)
        /\ n \in 0 .. Len(s) - 1 /\ n # 0 /\ n + 1 = Len(s) /\ s # <<>>
    <3>1. s \in Seq(SampleType) /\ moves \in Seq(Cell)
      BY <1>3 DEF IInv, TypeOK, PositionTypeOK, OutcomeTypeOK
    <3>2. Len(s) \in Nat /\ DOMAIN s = 1 .. Len(s)
      BY <3>1
    <3>3. /\ 1 \in 1 .. Len(s) /\ n + 1 \in 1 .. Len(s)
          /\ n \in 0 .. Len(s) - 1 /\ n # 0 /\ n + 1 = Len(s)
      BY <1>3, <3>2
    <3>4. s # <<>>
      BY <1>3
    <3> QED
      BY <3>1, <3>2, <3>3, <3>4
  <2>2. Path(s)
    BY <1>3, <2>1 DEF Path, SampleInv
  <2>3. PICK seq : Tells(s, n, seq) /\ Packed(s, n) = OneEntry(s[1], seq)
    BY <2>2, PackedIs
  <2> DEFINE entry == OneEntry(s[1], seq).entry
             replay == ReadMoves(Replay(entry))
  <2>4. /\ s[1] \in SampleType /\ s[n + 1] \in SampleType
        /\ OfTheGame(s[1]) /\ OfTheGame(s[n + 1])
    BY <1>3, <2>1 DEF SampleInv
  <2>5. a \in Nat /\ b \in Nat /\ a < b /\ b < Len(moves) /\ Len(moves) \in Nat
    <3>1. a \in Nat /\ b \in Nat
      BY <2>4, SampleFields, Zenon
    <3>2. 1 < n + 1
      BY <2>1
    <3>3. a < b
      BY <1>3, <2>1, <3>2 DEF InOrder
    <3> QED
      BY <2>1, <2>4, <3>1, <3>3 DEF OfTheGame
  <2>6. /\ Replay(entry) = [j \in 1 .. b + 1 |-> Raw(moves[j])]
        /\ Len(seq) = (b + 1) - a
        /\ \A i \in 2 .. n + 1 : seq[Len(s[i].pos) - a + 1].eval = s[i].eval
    <3>1. /\ Replay(entry) = [j \in 1 .. a + Len(seq) |-> Raw(moves[j])]
          /\ a + Len(seq) = b + 1
      <4> HIDE DEF n, s
      <4> QED
        BY <2>1, <2>2, <2>3, ReplaysPath, Zenon
    <3>2. Len(seq) = (b + 1) - a
      <4>1. Len(seq) = IF n = 0 THEN 0 ELSE Len(s[n + 1].pos) + 1 - Len(s[1].pos)
        BY <2>3, Zenon DEF Tells
      <4> QED
        BY <2>1, <4>1
    <3> QED
      BY <2>3, <3>1, <3>2, Zenon DEF Tells
  <2>7. /\ entry.opening = RawMoves(s[1].pos) /\ entry.result = s[1].result /\ entry.seq = seq
        /\ OneEntry(s[1], seq).out = <<>>
    BY DEF OneEntry
  <2>8. Len(entry.opening) = a
    <3>1. RawMoves(s[1].pos) = [j \in 1 .. a |-> Raw(moves[j])]
      BY <2>1, <2>4, RawPath, Zenon
    <3> QED
      BY <2>5, <2>7, <3>1
  <2> HIDE DEF entry
  <2>9. Binpack(s) = <<entry>>
    <3>1. entry.seq # <<>>
      <4>1. Len(seq) # 0
        <5> HIDE DEF a, b
        <5> QED
          BY <2>5, <2>6
      <4> QED
        BY <2>7, <4>1
    <3>2. Packed(s, Len(s) - 1).entry = entry /\ Packed(s, Len(s) - 1).out = <<>>
      BY <2>3, <2>7, Zenon DEF entry
    <3>3. Binpack(s) = Append(<<>>, entry)
      BY <2>1, <3>1, <3>2, Zenon DEF Binpack
    <3> QED
      BY <3>3
  <2>10. replay = [j \in 1 .. b + 1 |-> coord(moves[j])]
    <3>1. \A j \in 1 .. b + 1 : moves[j] \in Cell
      BY <2>1, <2>5
    <3>2. \A j \in 1 .. b + 1 : ReadPoint(Raw(moves[j])) = coord(moves[j])
      BY <3>1, PointReadBack
    <3> HIDE DEF b, coord
    <3> QED
      BY <2>5, <2>6, <3>2 DEF ReadMoves
  <2> HIDE DEF replay
  <2>11. IsPrefix(replay, Played) /\ Len(replay) = b + 1
    <3>1. Played = [j \in 1 .. Len(moves) |-> coord(moves[j])]
      BY <2>1 DEF Played
    <3> HIDE DEF coord, b
    <3>2. Len(replay) = b + 1 /\ Len(Played) = Len(moves) /\ b + 1 <= Len(moves)
      BY <2>5, <2>10, <3>1
    <3>3. SubSeq(replay, 1, b + 1) = [j \in 1 .. b + 1 |-> coord(moves[j])]
      BY <2>5, <2>10
    <3>4. SubSeq(Played, 1, b + 1) = [j \in 1 .. b + 1 |-> coord(moves[j])]
      BY <2>5, <3>1, <3>2
    <3> QED
      BY <3>2, <3>3, <3>4, Zenon DEF IsPrefix
  <2>12. Head(Binpack(s)) = entry /\ Len(Binpack(s)) = 1
    BY <2>9
  <2>13. Last(s) = s[n + 1] /\ Head(s) = s[1]
    BY <2>1 DEF Last
  <2> QED
    BY <2>1, <2>6, <2>7, <2>8, <2>11, <2>12, <2>13, Zenon DEF replay
<1>4. IInv /\ Inv => BinpackReplays
  BY <1>3, Zenon DEF BinpackReplays
<1> QED
  BY <1>1, <1>2, <1>4, Invariance, PTL DEF Spec
=============================================================================
