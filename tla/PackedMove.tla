----------------------------- MODULE PackedMove -----------------------------
(***************************************************************************)
(* Points and moves as the 16-bit numbers that they are (position.h).  A   *)
(* Pos has a margin of BOARD_BOUNDARY = 5 points around the board and five *)
(* bits per coordinate; a move_t is a Pos with the colour above its bits.  *)
(***************************************************************************)
EXTENDS Integers

BLACK == 0
WHITE == 1

NONE_MOVE == 65535

Byte(n) == n % 256   \* what uint8_t keeps of an int

POS_RAW(x, y) == Byte(x) * 32 + Byte(y)
POS(x, y) == POS_RAW(Byte(x) + 5, Byte(y) + 5)
CoordX(p) == (p \div 32) - 5
CoordY(p) == (p % 32) - 5

\* (side << 10) | p, for a p that may itself have bit 10
BuildMovePos(p, side) ==
  IF side = WHITE /\ (p \div 1024) % 2 = 0 THEN p + 1024 ELSE p

BuildMove(x, y, side) == BuildMovePos(POS(x, y), side)

PosFromMove(m) == m % 1024
ColorFromMove(m) == m \div 1024
=============================================================================
