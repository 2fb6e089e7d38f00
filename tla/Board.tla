------------------------------- MODULE Board -------------------------------
(***************************************************************************)
(* class Position (position.h, position.cpp): the stones and the move      *)
(* history, the eight transforms, openings, five in line.  Positions are   *)
(* records                                                                 *)
(*   [board, hist, turn]                                                   *)
(* whose board is the part of board[] inside of the walls.  The winning    *)
(* line, which only print() shows, is left out.  The build has no          *)
(* assertions (-DNDEBUG): nothing below checks what assert() says.         *)
(***************************************************************************)
EXTENDS PackedMove, Sequences, SequencesExt

CONSTANT Size   \* boardSize

ASSUME SizeAssumption == Size \in 5 .. 22   \* options.cpp:292

EMPTY == 2
WALL == 3

Opponent(color) == 1 - color

Coord == 0 .. Size - 1

\* isInBoard
Square == {POS(x, y) : x \in Coord, y \in Coord}

At(b, p) == IF p \in Square THEN b[p] ELSE WALL

\* DIRECTION[]: along y, the two diagonals, along x
Direction == {1, 31, 32, 33}

-----------------------------------------------------------------------------
\* Positions

NewBoard == [board |-> [p \in Square |-> EMPTY], hist |-> <<>>, turn |-> BLACK]

\* move (and move_with_copy): no look at what is on the point
Move(pos, m) ==
  [board |-> [pos.board EXCEPT ![PosFromMove(m)] = pos.turn],
   hist  |-> Append(pos.hist, m),
   turn  |-> Opponent(pos.turn)]

Undo(pos) ==
  [board |-> [pos.board EXCEPT ![PosFromMove(Last(pos.hist))] = EMPTY],
   hist  |-> Front(pos.hist),
   turn  |-> Opponent(pos.turn)]

\* gomostr_to_move, of an answer that is two numbers
AnswerMove(pos, x, y) == BuildMove(x, y, pos.turn)

IsLegalMove(pos, m) == At(pos.board, PosFromMove(m)) = EMPTY

-----------------------------------------------------------------------------
\* Transforms, in the order of TransformType

NB_TRANS == 8
Transforms == 0 .. NB_TRANS - 1

TransformPos(p, type) ==
  LET x == CoordX(p)  y == CoordY(p)  s == Size - 1
  IN  CASE type = 0 -> POS(x, y)
        [] type = 1 -> POS(y, s - x)
        [] type = 2 -> POS(s - x, s - y)
        [] type = 3 -> POS(s - y, x)
        [] type = 4 -> POS(x, s - y)
        [] type = 5 -> POS(s - x, y)
        [] type = 6 -> POS(y, x)
        [] type = 7 -> POS(s - y, s - x)

\* All stones are taken off and put back where the transform sends them.
TransformBoard(b, type) ==
  LET stones == {p \in Square : b[p] # EMPTY}
      to == [p \in stones |-> TransformPos(p, type)]
  IN  [q \in Square |-> IF q \in Range(to) THEN b[CHOOSE p \in stones : to[p] = q]
                                          ELSE EMPTY]

\* Mutation: the colour of a move is lost with its point.
TransformMoveUncoloured(m, type) == BuildMovePos(TransformPos(PosFromMove(m), type), BLACK)

TransformMove(m, type) ==
  BuildMovePos(TransformPos(PosFromMove(m), type), ColorFromMove(m))

Transform(pos, type) ==
  [board |-> TransformBoard(pos.board, type),
   hist  |-> [i \in DOMAIN pos.hist |-> TransformMove(pos.hist[i], type)],
   turn  |-> pos.turn]

-----------------------------------------------------------------------------
\* Openings: the numbers of a line of the opening file, in their order

Center == Size \div 2

\* Numbers outside of -16..15 are skipped.
OffsetNumbers(numbers) ==
  LET kept[i \in 0 .. Len(numbers)] ==
        IF i = 0 THEN <<>>
        ELSE IF numbers[i] \in -16 .. 15 THEN Append(kept[i - 1], numbers[i])
        ELSE kept[i - 1]
  IN  kept[Len(numbers)]

\* Numbers two by two; a last one that is alone is left out.
Pairs(numbers) ==
  [i \in 1 .. Len(numbers) \div 2 |-> <<numbers[2 * i - 1], numbers[2 * i]>>]

\* The coordinates that an opening of type "offset" or "pos" names.
OpeningCoords(numbers, type) ==
  IF type = "offset"
    THEN LET pairs == Pairs(OffsetNumbers(numbers))
         IN  [i \in DOMAIN pairs |-> <<pairs[i][1] + Center, pairs[i][2] + Center>>]
    ELSE LET pairs == Pairs(numbers)
         IN  [i \in DOMAIN pairs |-> <<pairs[i][1], pairs[i][2] - 1>>]

\* parse_opening_*_linestr returns true.
OpeningFits(numbers, type) ==
  \A i \in DOMAIN OpeningCoords(numbers, type) :
    OpeningCoords(numbers, type)[i] \in Coord \X Coord

ApplyOpening(numbers, type) ==
  LET coords == OpeningCoords(numbers, type)
      after[n \in 0 .. Len(coords)] ==
        IF n = 0 THEN NewBoard
        ELSE LET pos == after[n - 1]
             IN  Move(pos, BuildMove(coords[n][1], coords[n][2], pos.turn))
  IN  after[Len(coords)]

\* The pairs of numbers, one after the other
Unpaired(pairs) == [n \in 1 .. 2 * Len(pairs) |-> pairs[(n + 1) \div 2][2 - (n % 2)]]

\* Mutation: rows are numbered from 0.
OpeningNumbersFromZero(pos, type) ==
  Unpaired([i \in DOMAIN pos.hist |->
    LET p == PosFromMove(pos.hist[i])
    IN  IF type = "offset" THEN <<CoordX(p) - Center, CoordY(p) - Center>>
                           ELSE <<CoordX(p), CoordY(p)>>])

\* to_opening_str: the numbers it prints
OpeningNumbers(pos, type) ==
  Unpaired([i \in DOMAIN pos.hist |->
    LET p == PosFromMove(pos.hist[i])
    IN  IF type = "offset" THEN <<CoordX(p) - Center, CoordY(p) - Center>>
                           ELSE <<CoordX(p), CoordY(p) + 1>>])

-----------------------------------------------------------------------------
\* check_five_in_line_side: all rows, columns and diagonals, each as the
\* points in the order in which the loops visit them

Line(x, y, dx, dy, length) ==
  [i \in 1 .. length |-> POS(x + (i - 1) * dx, y + (i - 1) * dy)]

\* A diagonal ends where isInBoard is false.
Lines ==
  {Line(i, 0, 0, 1, Size) : i \in Coord} \cup {Line(0, j, 1, 0, Size) : j \in Coord}
    \cup {Line(0, k, 1, 1, Size - k) : k \in Coord}
    \cup {Line(k, 0, 1, 1, Size - k) : k \in Coord}
    \cup {Line(k, 0, -1, 1, k + 1) : k \in Coord}
    \cup {Line(Size - 1, k, -1, 1, Size - k) : k \in Coord}

\* continueCount after each point of a line
ContinueCounts(b, side, line) ==
  LET count[i \in 0 .. Len(line)] ==
        IF i = 0 \/ b[line[i]] # side THEN 0 ELSE count[i - 1] + 1
  IN  count

\* check_five_helper
IsFiveCount(count, allowLong) == IF allowLong THEN count >= 5 ELSE count = 5

FiveInLineSide(b, side, allowLong) ==
  \E line \in Lines :
    LET count == ContinueCounts(b, side, line)
    IN  \E i \in DOMAIN line :
          /\ i < Len(line) => b[line[i + 1]] # side
          /\ IsFiveCount(count[i], allowLong)

\* check_five_in_line_lastmove
FiveInLineLastMove(pos, allowLong) ==
  /\ Len(pos.hist) >= 5
  /\ FiveInLineSide(pos.board, At(pos.board, PosFromMove(Last(pos.hist))), allowLong)
=============================================================================
