----------------------------- MODULE RenjuRule -----------------------------
(***************************************************************************)
(* The rules of gomoku and renju over the stones on the board, in the      *)
(* terms of the rules and not of the loops of position.cpp: a five, a      *)
(* four, a three are sets of stones in a window of points.  Stones is the  *)
(* set of points of one colour, Free the set of empty points.              *)
(***************************************************************************)
EXTENDS Board, FiniteSets

Black(b) == {p \in Square : b[p] = BLACK}
Free(b) == {p \in Square : b[p] = EMPTY}

\* The n points in direction d of which p is the k-th.
Window(p, d, n, k) == {p + (i - k) * d : i \in 1 .. n}

WindowEnds(p, d, n, k) == {p - k * d, p + (n + 1 - k) * d}

\* The windows of exactly five stones with p among them.
ExactFive(stones, p, d) ==
  \E k \in 1 .. 5 :
    /\ Window(p, d, 5, k) \subseteq stones
    /\ WindowEnds(p, d, 5, k) \cap stones = {}

FiveOrMore(stones, p, d) == \E k \in 1 .. 5 : Window(p, d, 5, k) \subseteq stones

Overline(stones, p, d) == \E k \in 1 .. 6 : Window(p, d, 6, k) \subseteq stones

\* The stone at p wins.
Wins(stones, p, allowLong) ==
  \E d \in Direction : IF allowLong THEN FiveOrMore(stones, p, d)
                                    ELSE ExactFive(stones, p, d)

\* The fours of p: four stones, p among them, that one free point makes a five.
FoursThrough(stones, free, p, d) ==
  {Window(p, d, 5, k) \ free :
     k \in {k \in 1 .. 5 :
              \E q \in free :
                /\ Window(p, d, 5, k) \subseteq stones \cup {q}
                /\ WindowEnds(p, d, 5, k) \cap stones = {}}}

\* Four in a row with p and q, that either of the two next points makes a five
StraightFour(stones, free, p, q, d) ==
  \E k \in 1 .. 4 :
    /\ Window(p, d, 4, k) \subseteq stones /\ q \in Window(p, d, 4, k)
    /\ WindowEnds(p, d, 4, k) \subseteq free
    /\ \A e \in WindowEnds(p, d, 4, k) : ExactFive(stones \cup {e}, e, d)

\* A three of p: a free point, where black may play, makes it a straight four.
IsThree(stones, free, p, d, foul) ==
  \E q \in free :
    /\ \E n \in 1 .. 3 : q \in {p - n * d, p + n * d}
    /\ StraightFour(stones \cup {q}, free \ {q}, p, q, d)
    /\ foul[<<stones, free, q>>] = "none"
    /\ \A e \in Direction : ~ExactFive(stones \cup {q}, q, e)

\* What black does wrong by playing p: five is stronger than threes and
\* fours, but not than an overline.
foul[at \in (SUBSET Square) \X (SUBSET Square) \X Square] ==
  LET p == at[3]
      stones == at[1] \cup {p}
      free == at[2] \ {p}
      threes == {d \in Direction : IsThree(stones, free, p, d, foul)}
      fours == UNION {FoursThrough(stones, free, p, d) : d \in Direction}
  IN  IF \E d \in Direction : Overline(stones, p, d) THEN "overline"
      ELSE IF Wins(stones, p, FALSE) THEN "none"
      ELSE IF Cardinality(threes) >= 2 THEN "double_three"
      ELSE IF Cardinality(fours) >= 2 THEN "double_four" ELSE "none"

Foul(stones, free, p) == foul[<<stones, free, p>>]
=============================================================================
