------------------------------- MODULE Renju -------------------------------
(***************************************************************************)
(* The forbidden points of renju as position.cpp finds them: check_forbid- *)
(* den_move asks for black only, so that every helper is written here for  *)
(* black.  setPiece and delPiece around a question become a board with the *)
(* stone put.  The recursion (a three needs a point that makes a four and  *)
(* is not forbidden itself) ends because each level puts a stone.          *)
(***************************************************************************)
EXTENDS Board

Boards == [Square -> {BLACK, WHITE, EMPTY}]

Put(b, p) == [b EXCEPT ![p] = BLACK]

\* Number of black stones next to p in steps of d, not counted beyond max.
Run(b, p, d, max) ==
  CHOOSE n \in 0 .. max :
    /\ \A i \in 1 .. n : At(b, p + i * d) = BLACK
    /\ n = max \/ At(b, p + (n + 1) * d) # BLACK

\* The count in isFive and isOverline: to the left first, and 6 at most.
Count(b, p, d) ==
  LET left == Run(b, p, -d, 5) IN 1 + left + Run(b, p, d, 5 - left)

IsFiveDir(b, p, d) == At(b, p) = EMPTY /\ Count(b, p, d) = 5
IsFive(b, p) == \E d \in Direction : IsFiveDir(b, p, d)
IsOverline(b, p) == At(b, p) = EMPTY /\ \E d \in Direction : Count(b, p, d) > 5

\* The points that end the black line of p, up to five in all: where the
\* loops of isFour, isOpenFour and isOpenThree stop.
Ends(b, p, d) ==
  LET left == Run(b, p, -d, 4)  right == Run(b, p, d, 4 - left)
  IN  (IF left < 4 THEN {p - (left + 1) * d} ELSE {})
        \cup (IF right < 4 - left THEN {p + (right + 1) * d} ELSE {})

\* The early returns of isFour, isOpenFour and isOpenThree
MayMakeLine(b, p) == At(b, p) = EMPTY /\ ~IsFive(b, p) /\ ~IsOverline(b, p)

FivePoints(b, p, d) ==
  LET c == Put(b, p) IN {q \in Ends(c, p, d) : IsFiveDir(c, q, d)}

IsFour(b, p, d) == MayMakeLine(b, p) /\ FivePoints(b, p, d) # {}

\* isOpenFour: OF_TRUE if the line has four stones, OF_LONG otherwise
MakesTwoFives(b, p, d) ==
  MayMakeLine(b, p) /\ Cardinality(FivePoints(b, p, d)) = 2
HasFourStones(b, p, d) == Run(b, p, -d, 4) + Run(b, p, d, 4) = 3

IsOpenFourTrue(b, p, d) == MakesTwoFives(b, p, d) /\ HasFourStones(b, p, d)
IsOpenFourLong(b, p, d) == MakesTwoFives(b, p, d) /\ ~HasFourStones(b, p, d)

\* nFour of isDoubleFour
Fours(b, p, d) ==
  CASE IsOpenFourLong(b, p, d) -> 2
    [] ~IsOpenFourLong(b, p, d) /\ IsFour(b, p, d) -> 1
    [] OTHER -> 0

IsDoubleFour(b, p) ==
  /\ At(b, p) = EMPTY /\ ~IsFive(b, p)
  /\ \/ \E d \in Direction : Fours(b, p, d) = 2
     \/ \E d, e \in Direction : d # e /\ Fours(b, p, d) = 1 /\ Fours(b, p, e) = 1

\* Mutation: a three counts even if its four is a double three.
OpenThreeForbidden(b, p, d, doubleThree) ==
  /\ MayMakeLine(b, p)
  /\ LET c == Put(b, p)
     IN  \E q \in Ends(c, p, d) : IsOpenFourTrue(c, q, d) /\ ~IsDoubleFour(c, q)

\* Mutation: points to the right of the line are not tried.
OpenThreeToTheLeft(b, p, d, doubleThree) ==
  /\ MayMakeLine(b, p)
  /\ LET c == Put(b, p)
     IN  \E q \in {q \in Ends(c, p, d) : q < p} :
           /\ IsOpenFourTrue(c, q, d)
           /\ ~IsDoubleFour(c, q) /\ ~doubleThree[<<c, q>>]

\* isOpenThree, which asks doubleThree about a board with a stone more
IsOpenThree(b, p, d, doubleThree) ==
  /\ MayMakeLine(b, p)
  /\ LET c == Put(b, p)
     IN  \E q \in Ends(c, p, d) :
           /\ IsOpenFourTrue(c, q, d)
           /\ ~IsDoubleFour(c, q) /\ ~doubleThree[<<c, q>>]

doubleThree[at \in Boards \X Int] ==
  LET b == at[1]  p == at[2]
  IN  /\ At(b, p) = EMPTY /\ ~IsFive(b, p)
      /\ \E d, e \in Direction :
           d < e /\ IsOpenThree(b, p, d, doubleThree) /\ IsOpenThree(b, p, e, doubleThree)

IsDoubleThree(b, p) == doubleThree[<<b, p>>]

IsForbidden(b, p) ==
  IF IsDoubleThree(b, p) THEN "double_three"
  ELSE IF IsDoubleFour(b, p) THEN "double_four"
  ELSE IF IsOverline(b, p) THEN "overline" ELSE "none"

\* check_forbidden_move
CheckForbiddenMove(pos, m) ==
  IF ColorFromMove(m) # BLACK THEN "none" ELSE IsForbidden(pos.board, PosFromMove(m))
=============================================================================
