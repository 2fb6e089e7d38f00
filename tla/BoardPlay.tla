----------------------------- MODULE BoardPlay -----------------------------
(***************************************************************************)
(* The board under a game: Game::load_opening, and of Game::play what      *)
(* looks at stones - the rules after each move, whether an answer is       *)
(* legal, renju's forbidden points.  The module Game leaves open what is   *)
(* decided here.                                                           *)
(***************************************************************************)
EXTENDS Renju, RenjuRule

CONSTANTS Opening,    \* lines of the opening file, as the numbers in them
          Rule,       \* -rule: 0, 1 or 4
          Round,      \* rounds of the opening file (-transform)
          Answer,     \* coordinates that engines answer
          MaxMoves,   \* bound on the moves after the opening
          Probe       \* coordinates at which properties ask for fouls

ASSUME BoardPlayAssumption ==
  /\ Rule \subseteq {0, 1, 4} /\ Round \subseteq Nat
  /\ MaxMoves \in Nat /\ Probe \subseteq Coord \X Coord

VARIABLES rule,     \* game_rule
          pos,      \* pos[ply]
          played,   \* the last move
          ply,
          pc,       \* "rules", "think", "over"
          state     \* STATE_*

vars == <<rule, pos, played, ply, pc, state>>

\* load_opening; a line that does not fit ends the program.
Init ==
  /\ rule \in Rule
  /\ \E line \in Opening, round \in Round :
       IF OpeningFits(line.numbers, line.type)
         THEN /\ pos = Transform(ApplyOpening(line.numbers, line.type), round % NB_TRANS)
              /\ pc = "rules" /\ state = "none"
         ELSE pos = NewBoard /\ pc = "over" /\ state = "died"
  /\ played = NONE_MOVE /\ ply = 0

\* Mutation: in renju white's overlines do not win either.
AllowLongNotInRenju(lastmove) == rule = 0

\* game_apply_rules; the colour of NONE_MOVE is none of the two.
AllowLong(lastmove) ==
  rule # 1 /\ (rule = 4 => ColorFromMove(lastmove) # BLACK)

Finish(st) == pc' = "over" /\ state' = st /\ UNCHANGED <<rule, pos, played, ply>>

ApplyRules ==
  /\ pc = "rules"
  /\ LET five == FiveInLineLastMove(pos, AllowLong(played))
     IN  \/ five /\ Finish("five_connect")
         \/ ~five /\ Len(pos.hist) = Size * Size /\ Finish("insufficient_space")
         \/ /\ ~five /\ Len(pos.hist) # Size * Size
            /\ pc' = "think" /\ UNCHANGED <<rule, pos, played, ply, state>>

Refuses(m) == ~IsLegalMove(pos, m)

Forbids(m) == rule = 4 /\ CheckForbiddenMove(pos, m) # "none"

\* The engine answers x,y: the move loses, or is made.
Answers(x, y) ==
  /\ pc = "think" /\ ply < MaxMoves
  /\ LET m == AnswerMove(pos, x, y)
     IN  \/ Refuses(m) /\ Finish("illegal_move")
         \/ ~Refuses(m) /\ Forbids(m) /\ Finish("forbidden_move")
         \/ /\ ~Refuses(m) /\ ~Forbids(m)
            /\ pos' = Move(pos, m) /\ played' = m
            /\ ply' = ply + 1 /\ pc' = "rules"
            /\ UNCHANGED <<rule, state>>

\* The game is over, or the bound on its moves is reached.
Over == (pc = "over" \/ (pc = "think" /\ ply = MaxMoves)) /\ UNCHANGED vars

Next == ApplyRules \/ (\E xy \in Answer : Answers(xy[1], xy[2])) \/ Over

Spec == Init /\ [][Next]_vars

-----------------------------------------------------------------------------
MovePoint(m) == PosFromMove(m)

(***************************************************************************)
(* The two records of a position agree, whatever opening, transform and    *)
(* answers led to it: the stones on the board are the moves of the history *)
(* with black and white in turn; BOARD and the records are written from    *)
(* the history, the rules look at the board.  undo takes back exactly the  *)
(* last move.                                                              *)
(***************************************************************************)
BoardIsHistory ==
  /\ \A i \in DOMAIN pos.hist :
       /\ ColorFromMove(pos.hist[i]) = (i - 1) % 2
       /\ At(pos.board, MovePoint(pos.hist[i])) = (i - 1) % 2
  /\ Cardinality(Square \ Free(pos.board)) = Len(pos.hist)
  /\ pos.turn = Len(pos.hist) % 2
  /\ state \notin {"illegal_move", "died"} /\ ply > 0 =>
       Move(Undo(pos), played) = pos /\ At(Undo(pos).board, MovePoint(played)) = EMPTY

StonesOf(color) == {p \in Square : pos.board[p] = color}

\* README.md:42-44: whether longer connections win; in renju they do for white.
LongWins(color) == rule = 0 \/ (rule = 4 /\ color = WHITE)

LastMoveWins ==
  /\ ply > 0
  /\ LET color == Opponent(pos.turn)
     IN  Wins(StonesOf(color), MovePoint(played), LongWins(color))

(***************************************************************************)
(* -rule: a game is won by exactly the move that connects five, or in the  *)
(* rules that allow it more, through itself.  The code scans all lines of  *)
(* the side that moved.                                                    *)
(***************************************************************************)
FiveEndsTheGame ==
  /\ pc = "think" => ~LastMoveWins
  /\ state = "five_connect" => LastMoveWins

ProbePoints == {p \in {POS(xy[1], xy[2]) : xy \in Probe} : pos.board[p] = EMPTY}

(***************************************************************************)
(* -rule 4: the forbidden points, and why they are, are those of the rule: *)
(* fours are counted as sets of stones, threes by the straight fours they  *)
(* can become, and a four that black may not make does not count.          *)
(***************************************************************************)
ForbiddenByTheRule ==
  pc = "think" /\ rule = 4 =>
    \A p \in ProbePoints :
      IsForbidden(pos.board, p) = Foul(Black(pos.board), Free(pos.board), p)

(***************************************************************************)
(* No side of the board is special: mirrored or turned, a position has its *)
(* five and its forbidden points where the transform puts them, although   *)
(* the code looks to the left before it looks to the right.  (Positions of *)
(* one rule, after one move at most: nothing asked here depends on them.)  *)
(***************************************************************************)
JudgedAlikeInAllTransforms ==
  rule = 4 /\ ply <= 1 =>
    \A t \in Transforms :
      LET turned == Transform(pos, t)
      IN  /\ \A long \in BOOLEAN :
               FiveInLineLastMove(turned, long) = FiveInLineLastMove(pos, long)
          /\ pc = "think" =>
               \A p \in ProbePoints :
                 IsForbidden(turned.board, TransformPos(p, t)) = IsForbidden(pos.board, p)

(***************************************************************************)
(* What is written as an opening, in a csv sample or by hand, is read back *)
(* as the same position, in both notations.                                *)
(***************************************************************************)
OpeningReadBack ==
  \A type \in {"offset", "pos"} :
    LET numbers == OpeningNumbers(pos, type)
    IN  OpeningFits(numbers, type) /\ ApplyOpening(numbers, type) = pos

(***************************************************************************)
(* position.cpp:427-428, assert(x >= 0 && x < boardSize): an answer that   *)
(* is no point of the board is an illegal move.                            *)
(***************************************************************************)
OffBoardIsIllegal ==
  \A xy \in Answer :
    pc = "think" /\ ~Refuses(AnswerMove(pos, xy[1], xy[2])) => xy \in Coord \X Coord
=============================================================================
