---------------------------- MODULE MCBoardPlay ----------------------------
(***************************************************************************)
(* Model checking of BoardPlay on a board of 9 x 9.  The openings put the  *)
(* stones of one colour on lines through the centre, those of the other on *)
(* the rim: all small subsets of two lines, so that twos, threes and fours *)
(* come with every gap, and named shapes for what needs more stones.       *)
(***************************************************************************)
EXTENDS BoardPlay

RowOf(xs) == {<<x, 4>> : x \in xs}
SlopeOf(xs) == {<<x, x>> : x \in xs}

Small == UNION {kSubset(n, RowOf({2, 3, 5, 6}) \cup SlopeOf({1, 3, 5, 6})) : n \in 2 .. 4}

\* Threes of the row whose fours black may not make: they are double fours
\* in the first shape, double threes in the second.
FalseThrees ==
  LET cross == RowOf({3, 5}) \cup SlopeOf({3, 5})
  IN  {cross \cup {<<2, 5>>, <<2, 6>>, <<2, 7>>, <<6, 1>>, <<6, 2>>, <<6, 3>>},
       cross \cup {<<4, 2>>, <<4, 6>>, <<2, 5>>, <<2, 6>>, <<6, 3>>, <<6, 2>>}}

\* Four in a row, two fours in one line or in two, six, a wall at one end
Fours4 ==
  {RowOf({1, 3, 5, 7}), RowOf({0, 1, 2, 3}), RowOf({5, 6, 7, 8}), RowOf({1, 2, 3, 5, 6}),
   RowOf({0, 2, 3, 5, 6, 8}), RowOf({1, 2, 3}) \cup SlopeOf({5, 6, 7}),
   SlopeOf({0, 1, 2, 3}) \cup RowOf({2, 3, 5, 6, 7}), {<<x, 8 - x>> : x \in {5, 6, 7, 8}}}

Rim ==
  <<<<1, 0>>, <<8, 1>>, <<0, 7>>, <<7, 8>>, <<0, 2>>, <<6, 0>>, <<2, 8>>, <<8, 3>>,
    <<0, 5>>, <<3, 0>>, <<4, 8>>, <<8, 6>>>>

\* A set of points, row by row
Listed(shape) ==
  SelectSeq([i \in 1 .. 81 |-> <<(i - 1) % 9, (i - 1) \div 9>>], LAMBDA xy : xy \in shape)

\* The stones of a shape and of the rim in turn, the shape's first
InTurn(shape) ==
  LET stones == Listed(shape)
  IN  Unpaired([i \in DOMAIN stones |-> <<stones[i], Rim[i]>>])

Offsets(moves) == Unpaired([i \in DOMAIN moves |-> <<moves[i][1] - 4, moves[i][2] - 4>>])
Rows(moves) == Unpaired([i \in DOMAIN moves |-> <<moves[i][1], moves[i][2] + 1>>])

Offset(moves) == [type |-> "offset", numbers |-> Offsets(moves)]
Pos(moves) == [type |-> "pos", numbers |-> Rows(moves)]

\* Nothing but the centre is free, and nobody has five.
FullBut ==
  LET dark == {xy \in Coord \X Coord : (xy[1] + 2 * xy[2]) % 4 < 2} \ {<<4, 4>>}
      blacks == Listed(dark)
      whites == Listed(((Coord \X Coord) \ dark) \ {<<4, 4>>})
  IN  Unpaired([i \in DOMAIN blacks |-> <<blacks[i], whites[i]>>])

\* Numbers that are skipped, a number too many; a point outside of the board
Garbled == {[type |-> "offset", numbers |-> <<16, 0, 1, -17, -2, 2, 3>>],
            [type |-> "offset", numbers |-> <<0, 0, 5, 0>>],
            [type |-> "pos", numbers |-> <<8, 9, 0, 1, 4>>],
            [type |-> "pos", numbers |-> <<8, 9, 0, 0>>]}

\* White has the shape when black begins with a stone in the corner.
Openings ==
  {Offset(InTurn(s)) : s \in Small \cup FalseThrees} \cup {Pos(InTurn(s)) : s \in Fours4}
    \cup {Offset(<<<<8, 8>>>> \o InTurn(s)) : s \in Fours4}
    \cup {Offset(FullBut), Offset(<<>>)} \cup Garbled

Rules == {0, 1, 4}
Rounds == {0, 11}

\* The centre and its neighbours on the row; a stone of the rim; outside
Answers3 == {<<4, 4>>, <<3, 4>>, <<1, 0>>, <<-1, 4>>, <<4, 9>>}
Probes == {<<4, 4>>, <<5, 5>>}

FewOpenings == {Offset(InTurn(RowOf({2, 5}))), Offset(<<>>), Offset(<<<<4, 4>>>>)}

\* Among them numbers whose low five bits name a point of the board
OffBoardAnswers == {<<-1, 4>>, <<9, 4>>, <<36, 4>>, <<4, 4>>, <<3, 3>>, <<3, 36>>}
=============================================================================
