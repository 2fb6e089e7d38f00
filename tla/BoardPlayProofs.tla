-------------------------- MODULE BoardPlayProofs --------------------------
(***************************************************************************)
(* BoardPlay for boards of any size and any opening, transform and         *)
(* answers: the two records that Position keeps of a game agree            *)
(* (BoardIsHistory), the opening printed in either notation is read back   *)
(* to the same position (OpeningReadBack), and the scan of all lines of a  *)
(* side wins the game if its last move makes five, and only if             *)
(* (FiveEndsTheGame); and the points that check_forbidden_move forbids are *)
(* those the rule of renju forbids (ForbiddenByTheRule), on mirrored and   *)
(* turned boards as well (JudgedAlikeInAllTransforms).                     *)
(***************************************************************************)
EXTENDS BoardPlay, LibraryProofs

Side == {BLACK, WHITE}

PointMove == {BuildMovePos(p, side) : p \in Square, side \in Side}

Positions == [board : [Square -> Side \cup {EMPTY}], hist : Seq(PointMove), turn : Side]

\* The stones are the moves of the history, one on a point, in turn.
Recorded(p) ==
  /\ p \in Positions
  /\ \A i \in DOMAIN p.hist :
       /\ ColorFromMove(p.hist[i]) = (i - 1) % 2
       /\ p.board[PosFromMove(p.hist[i])] = (i - 1) % 2
  /\ \A i, j \in DOMAIN p.hist :
       PosFromMove(p.hist[i]) = PosFromMove(p.hist[j]) => i = j
  /\ \A q \in Square :
       p.board[q] # EMPTY => \E i \in DOMAIN p.hist : PosFromMove(p.hist[i]) = q
  /\ p.turn = Len(p.hist) % 2

IInv ==
  /\ Recorded(pos)
  /\ ply \in Nat
  /\ ply > 0 => pos.hist # <<>> /\ played = pos.hist[Len(pos.hist)]

-----------------------------------------------------------------------------
\* Coordinates with a place in five bits: the board and its margin.
Margin == -5 .. 26

\* Points, in ten bits
PosBits == 0 .. 1023

(***************************************************************************)
(* Points: five bits a coordinate, with a margin of five.                  *)
(***************************************************************************)
LEMMA PointOf ==
  ASSUME NEW x \in Margin, NEW y \in Margin
  PROVE  /\ POS(x, y) \in PosBits
         /\ CoordX(POS(x, y)) = x /\ CoordY(POS(x, y)) = y
<1> USE DEF Margin
<1>1. Byte(Byte(x) + 5) = x + 5 /\ Byte(Byte(y) + 5) = y + 5
  BY SMT DEF Byte
<1>2. Byte(x + 5) = x + 5 /\ Byte(y + 5) = y + 5
  BY SMT DEF Byte
<1>3. POS(x, y) = (x + 5) * 32 + (y + 5)
  BY <1>1, <1>2 DEF POS, POS_RAW
<1>4. POS(x, y) \in PosBits
  BY <1>3 DEF PosBits
<1>5. CoordX(POS(x, y)) = x /\ CoordY(POS(x, y)) = y
  BY <1>3, SMT DEF CoordX, CoordY
<1> QED
  BY <1>4, <1>5

LEMMA CoordRange == Coord \subseteq Margin /\ Size \in Nat
BY SizeAssumption DEF Coord, Margin

LEMMA BoardPoint ==
  ASSUME NEW x \in Coord, NEW y \in Coord
  PROVE  /\ POS(x, y) \in PosBits
         /\ CoordX(POS(x, y)) = x /\ CoordY(POS(x, y)) = y
BY CoordRange, PointOf, Zenon

(***************************************************************************)
(* A point of the board, as a number and by its coordinates.               *)
(***************************************************************************)
LEMMA SquarePoint ==
  ASSUME NEW p \in Square
  PROVE  /\ p \in PosBits
         /\ CoordX(p) \in Coord /\ CoordY(p) \in Coord
         /\ p = POS(CoordX(p), CoordY(p))
<1>1. PICK x \in Coord, y \in Coord : p = POS(x, y)
  BY DEF Square
<1>2. p \in PosBits /\ CoordX(p) = x /\ CoordY(p) = y
  BY <1>1, BoardPoint
<1> QED
  BY <1>1, <1>2

(***************************************************************************)
(* The colour is above the bits of the point.                              *)
(***************************************************************************)
LEMMA MoveParts ==
  ASSUME NEW p \in PosBits, NEW side \in Side
  PROVE  /\ PosFromMove(BuildMovePos(p, side)) = p
         /\ ColorFromMove(BuildMovePos(p, side)) = side
BY SMT DEF BuildMovePos, PosFromMove, ColorFromMove, Side, BLACK, WHITE, PosBits

LEMMA PointMoveParts ==
  ASSUME NEW m \in PointMove
  PROVE  /\ PosFromMove(m) \in Square /\ ColorFromMove(m) \in Side
         /\ m = BuildMovePos(PosFromMove(m), ColorFromMove(m))
<1>1. PICK p \in Square, side \in Side : m = BuildMovePos(p, side)
  BY DEF PointMove
<1> QED
  BY <1>1, SquarePoint, MoveParts

(***************************************************************************)
(* A transform moves the points of the board onto the board, no two of     *)
(* them to one point.                                                      *)
(***************************************************************************)
LEMMA TransformCoords ==
  ASSUME NEW p \in Square, NEW type \in Transforms
  PROVE  \E x, y \in Coord :
           /\ TransformPos(p, type) = POS(x, y)
           /\ LET s == Size - 1  u == CoordX(p)  v == CoordY(p)
              IN  /\ type = 0 => x = u /\ y = v
                  /\ type = 1 => x = v /\ y = s - u
                  /\ type = 2 => x = s - u /\ y = s - v
                  /\ type = 3 => x = s - v /\ y = u
                  /\ type = 4 => x = u /\ y = s - v
                  /\ type = 5 => x = s - u /\ y = v
                  /\ type = 6 => x = v /\ y = u
                  /\ type = 7 => x = s - v /\ y = s - u
<1> DEFINE u == CoordX(p)
           v == CoordY(p)
           s == Size - 1
<1>1. u \in Coord /\ v \in Coord /\ s - u \in Coord /\ s - v \in Coord
  BY SquarePoint, CoordRange DEF Coord
<1>2. type \in {0, 1, 2, 3, 4, 5, 6, 7}
  BY DEF Transforms, NB_TRANS
<1>3. TransformPos(p, type) =
        CASE type = 0 -> POS(u, v)
          [] type = 1 -> POS(v, s - u)
          [] type = 2 -> POS(s - u, s - v)
          [] type = 3 -> POS(s - v, u)
          [] type = 4 -> POS(u, s - v)
          [] type = 5 -> POS(s - u, v)
          [] type = 6 -> POS(v, u)
          [] type = 7 -> POS(s - v, s - u)
  BY DEF TransformPos
<1> HIDE DEF u, v, s
<1>4. \E x, y \in Coord :
        /\ TransformPos(p, type) = POS(x, y)
        /\ type = 0 => x = u /\ y = v
        /\ type = 1 => x = v /\ y = s - u
        /\ type = 2 => x = s - u /\ y = s - v
        /\ type = 3 => x = s - v /\ y = u
        /\ type = 4 => x = u /\ y = s - v
        /\ type = 5 => x = s - u /\ y = v
        /\ type = 6 => x = v /\ y = u
        /\ type = 7 => x = s - v /\ y = s - u
  BY <1>1, <1>2, <1>3
<1> QED
  BY <1>4 DEF u, v, s

LEMMA TransformInjective ==
  ASSUME NEW type \in Transforms
  PROVE  /\ \A p \in Square : TransformPos(p, type) \in Square
         /\ \A p, q \in Square :
              TransformPos(p, type) = TransformPos(q, type) => p = q
<1>1. ASSUME NEW p \in Square
      PROVE  TransformPos(p, type) \in Square
  BY TransformCoords DEF Square
<1>2. ASSUME NEW p \in Square, NEW q \in Square,
             TransformPos(p, type) = TransformPos(q, type)
      PROVE  p = q
  <2> DEFINE s == Size - 1
             u == CoordX(p)
             v == CoordY(p)
             w == CoordX(q)
             z == CoordY(q)
  <2>1. PICK x \in Coord, y \in Coord :
          /\ TransformPos(p, type) = POS(x, y)
          /\ type = 0 => x = u /\ y = v
          /\ type = 1 => x = v /\ y = s - u
          /\ type = 2 => x = s - u /\ y = s - v
          /\ type = 3 => x = s - v /\ y = u
          /\ type = 4 => x = u /\ y = s - v
          /\ type = 5 => x = s - u /\ y = v
          /\ type = 6 => x = v /\ y = u
          /\ type = 7 => x = s - v /\ y = s - u
    BY TransformCoords
  <2>2. PICK X \in Coord, Y \in Coord :
          /\ TransformPos(q, type) = POS(X, Y)
          /\ type = 0 => X = w /\ Y = z
          /\ type = 1 => X = z /\ Y = s - w
          /\ type = 2 => X = s - w /\ Y = s - z
          /\ type = 3 => X = s - z /\ Y = w
          /\ type = 4 => X = w /\ Y = s - z
          /\ type = 5 => X = s - w /\ Y = z
          /\ type = 6 => X = z /\ Y = w
          /\ type = 7 => X = s - z /\ Y = s - w
    BY TransformCoords
  <2>3. x = X /\ y = Y
    <3>1. POS(x, y) = POS(X, Y)
      BY <1>2, <2>1, <2>2
    <3>2. /\ CoordX(POS(x, y)) = x /\ CoordY(POS(x, y)) = y
          /\ CoordX(POS(X, Y)) = X /\ CoordY(POS(X, Y)) = Y
      BY BoardPoint
    <3> QED
      BY <3>1, <3>2
  <2>4. /\ u \in Coord /\ v \in Coord /\ w \in Coord /\ z \in Coord
        /\ p = POS(u, v) /\ q = POS(w, z)
    BY SquarePoint
  <2>5. type \in {0, 1, 2, 3, 4, 5, 6, 7}
    BY DEF Transforms, NB_TRANS
  <2>6. u \in Int /\ v \in Int /\ w \in Int /\ z \in Int /\ s \in Int
    BY <2>4, CoordRange DEF Coord
  <2> HIDE DEF u, v, w, z, s
  <2>7. u = w /\ v = z
    BY <2>1, <2>2, <2>3, <2>5, <2>6
  <2> QED
    BY <2>4, <2>7
<1> QED
  BY <1>1, <1>2

-----------------------------------------------------------------------------
(***************************************************************************)
(* An empty board has no history.                                          *)
(***************************************************************************)
LEMMA NewBoardRecorded == Recorded(NewBoard)
BY DEF Recorded, NewBoard, Positions, Side, BLACK, WHITE, EMPTY

(***************************************************************************)
(* The parts of a recorded position.                                       *)
(***************************************************************************)
LEMMA RecordedType ==
  ASSUME NEW p, Recorded(p)
  PROVE  LET n == Len(p.hist)
         IN  /\ p = [board |-> p.board, hist |-> p.hist, turn |-> p.turn]
             /\ p.board \in [Square -> Side \cup {EMPTY}]
             /\ p.hist \in Seq(PointMove) /\ n \in Nat /\ DOMAIN p.hist = 1 .. n
             /\ p.turn \in Side /\ p.turn = n % 2
             /\ \A i \in 1 .. n :
                  /\ p.hist[i] \in PointMove
                  /\ PosFromMove(p.hist[i]) \in Square
                  /\ ColorFromMove(p.hist[i]) = (i - 1) % 2
                  /\ p.board[PosFromMove(p.hist[i])] = (i - 1) % 2
             /\ \A i, j \in 1 .. n :
                  PosFromMove(p.hist[i]) = PosFromMove(p.hist[j]) => i = j
             /\ \A x \in Square :
                  p.board[x] # EMPTY => \E i \in 1 .. n : PosFromMove(p.hist[i]) = x
<1> DEFINE n == Len(p.hist)
<1>1. p \in Positions
  BY DEF Recorded
<1>2. /\ p = [board |-> p.board, hist |-> p.hist, turn |-> p.turn]
      /\ p.board \in [Square -> Side \cup {EMPTY}]
      /\ p.hist \in Seq(PointMove) /\ p.turn \in Side
  BY <1>1 DEF Positions
<1>3. n \in Nat /\ DOMAIN p.hist = 1 .. n
  BY <1>2
<1>4. \A i \in 1 .. n : p.hist[i] \in PointMove /\ PosFromMove(p.hist[i]) \in Square
  <2>1. \A i \in 1 .. n : p.hist[i] \in PointMove
    BY <1>2, <1>3
  <2> QED
    BY <2>1, PointMoveParts
<1>5. /\ \A i \in DOMAIN p.hist :
           /\ ColorFromMove(p.hist[i]) = (i - 1) % 2
           /\ p.board[PosFromMove(p.hist[i])] = (i - 1) % 2
      /\ \A i, j \in DOMAIN p.hist :
           PosFromMove(p.hist[i]) = PosFromMove(p.hist[j]) => i = j
      /\ \A x \in Square :
           p.board[x] # EMPTY => \E i \in DOMAIN p.hist : PosFromMove(p.hist[i]) = x
      /\ p.turn = n % 2
  BY DEF Recorded
<1> HIDE DEF n
<1>6. /\ \A i \in 1 .. n :
           /\ ColorFromMove(p.hist[i]) = (i - 1) % 2
           /\ p.board[PosFromMove(p.hist[i])] = (i - 1) % 2
      /\ \A i, j \in 1 .. n :
           PosFromMove(p.hist[i]) = PosFromMove(p.hist[j]) => i = j
      /\ \A x \in Square :
           p.board[x] # EMPTY => \E i \in 1 .. n : PosFromMove(p.hist[i]) = x
  BY <1>3, <1>5, Zenon
<1> QED
  BY <1>2, <1>3, <1>4, <1>5, <1>6, Zenon DEF n

(***************************************************************************)
(* move, onto a free point, adds the same stone to both records.           *)
(***************************************************************************)
LEMMA MoveRecorded ==
  ASSUME NEW p, Recorded(p), NEW q \in Square, p.board[q] = EMPTY
  PROVE  Recorded(Move(p, BuildMovePos(q, p.turn)))
<1> DEFINE m == BuildMovePos(q, p.turn)
           n == Len(p.hist)
           next == Move(p, m)
<1>1. /\ p.board \in [Square -> Side \cup {EMPTY}]
      /\ p.hist \in Seq(PointMove) /\ n \in Nat /\ DOMAIN p.hist = 1 .. n
      /\ p.turn \in Side /\ p.turn = n % 2
      /\ \A i \in 1 .. n : /\ p.hist[i] \in PointMove
                          /\ PosFromMove(p.hist[i]) \in Square
                          /\ ColorFromMove(p.hist[i]) = (i - 1) % 2
                          /\ p.board[PosFromMove(p.hist[i])] = (i - 1) % 2
      /\ \A i, j \in 1 .. n :
           PosFromMove(p.hist[i]) = PosFromMove(p.hist[j]) => i = j
      /\ \A x \in Square :
           p.board[x] # EMPTY => \E i \in 1 .. n : PosFromMove(p.hist[i]) = x
  BY RecordedType, Zenon
<1>2. m \in PointMove /\ PosFromMove(m) = q /\ ColorFromMove(m) = p.turn
  <2>1. q \in PosBits /\ p.turn \in Side
    BY <1>1, SquarePoint
  <2>2. PosFromMove(m) = q /\ ColorFromMove(m) = p.turn
    BY <2>1, MoveParts, Zenon
  <2> QED
    BY <2>1, <2>2 DEF PointMove
<1>3. /\ next.board = [p.board EXCEPT ![q] = p.turn]
      /\ next.hist = Append(p.hist, m)
      /\ next.turn = 1 - p.turn
  BY <1>2 DEF Move, Opponent
<1> HIDE DEF m, n
<1>4. /\ next.hist \in Seq(PointMove) /\ Len(next.hist) = n + 1
      /\ DOMAIN next.hist = 1 .. n + 1
      /\ \A i \in 1 .. n : next.hist[i] = p.hist[i]
      /\ next.hist[n + 1] = m
  BY <1>1, <1>2, <1>3 DEF n
<1>5. next \in Positions
  <2>1. next = [board |-> next.board, hist |-> next.hist, turn |-> next.turn]
    BY DEF Move
  <2>2. next.board \in [Square -> Side \cup {EMPTY}]
    BY <1>1, <1>3
  <2>3. next.turn \in Side
    BY <1>1, <1>3 DEF Side, BLACK, WHITE
  <2> HIDE DEF next
  <2> QED
    BY <1>4, <2>1, <2>2, <2>3 DEF Positions
<1> HIDE DEF next
<1>6. \A i \in 1 .. n : PosFromMove(p.hist[i]) # q
  <2>1. \A i \in 1 .. n : (i - 1) % 2 # EMPTY
    BY <1>1 DEF EMPTY
  <2> QED
    BY <1>1, <2>1
<1>7. ASSUME NEW i \in 1 .. n + 1
      PROVE  /\ ColorFromMove(next.hist[i]) = (i - 1) % 2
             /\ next.board[PosFromMove(next.hist[i])] = (i - 1) % 2
  <2>1. CASE i \in 1 .. n
    BY <1>1, <1>3, <1>4, <1>6, <2>1
  <2>2. CASE i = n + 1
    <3>1. (i - 1) % 2 = p.turn
      BY <1>1, <2>2
    <3> QED
      BY <1>1, <1>2, <1>3, <1>4, <2>2, <3>1
  <2> QED
    BY <1>1, <2>1, <2>2
<1>8. ASSUME NEW i \in 1 .. n + 1, NEW j \in 1 .. n + 1,
             PosFromMove(next.hist[i]) = PosFromMove(next.hist[j])
      PROVE  i = j
  <2>1. CASE i \in 1 .. n /\ j \in 1 .. n
    BY <1>1, <1>4, <1>8, <2>1
  <2>2. CASE i = n + 1 /\ j \in 1 .. n
    BY <1>2, <1>4, <1>6, <1>8, <2>2
  <2>3. CASE j = n + 1 /\ i \in 1 .. n
    BY <1>2, <1>4, <1>6, <1>8, <2>3
  <2> QED
    BY <1>1, <2>1, <2>2, <2>3
<1>9. ASSUME NEW x \in Square, next.board[x] # EMPTY
      PROVE  \E i \in 1 .. n + 1 : PosFromMove(next.hist[i]) = x
  <2>1. CASE x = q
    <3>1. n + 1 \in 1 .. n + 1 /\ PosFromMove(next.hist[n + 1]) = x
      BY <1>1, <1>2, <1>4, <2>1
    <3> QED
      BY <3>1, Zenon
  <2>2. CASE x # q
    <3>1. PICK i \in 1 .. n : PosFromMove(p.hist[i]) = x
      BY <1>1, <1>3, <1>9, <2>2
    <3> QED
      BY <1>1, <1>4, <3>1
  <2> QED
    BY <2>1, <2>2
<1>10. next.turn = (n + 1) % 2
  <2>1. n \in Nat /\ next.turn = 1 - (n % 2)
    BY <1>1, <1>3
  <2> QED
    BY ONLY <2>1
<1>11. Recorded(next)
  BY <1>4, <1>5, <1>7, <1>8, <1>9, <1>10 DEF Recorded
<1> QED
  BY <1>11 DEF next, m

(***************************************************************************)
(* A transformed board has the stone of a point where the transform takes  *)
(* the point, and no other stones.                                         *)
(***************************************************************************)
LEMMA TransformedBoard ==
  ASSUME NEW p, p.board \in [Square -> Side \cup {EMPTY}], NEW type \in Transforms
  PROVE  LET next == Transform(p, type)
         IN  /\ next.board \in [Square -> Side \cup {EMPTY}]
             /\ \A x \in Square : next.board[TransformPos(x, type)] = p.board[x]
             /\ \A q \in Square : next.board[q] # EMPTY =>
                  \E x \in Square : p.board[x] # EMPTY /\ TransformPos(x, type) = q
<1> DEFINE next == Transform(p, type)
           stones == {x \in Square : p.board[x] # EMPTY}
           to == [x \in stones |-> TransformPos(x, type)]
           T(x) == TransformPos(x, type)
<1>1. p.board \in [Square -> Side \cup {EMPTY}]
  OBVIOUS
<1>2. /\ \A x \in Square : T(x) \in Square
      /\ \A x, y \in Square : T(x) = T(y) => x = y
  BY TransformInjective
<1>3. next.board = TransformBoard(p.board, type)
  BY DEF Transform
<1>4. TransformBoard(p.board, type) =
        [q \in Square |-> IF \E x \in stones : T(x) = q
                         THEN p.board[CHOOSE x \in stones : to[x] = q] ELSE EMPTY]
  BY DEF TransformBoard, Range
<1> HIDE DEF next
<1>5. ASSUME NEW x \in Square
      PROVE  next.board[T(x)] = p.board[x]
  <2>1. T(x) \in Square
    BY <1>2
  <2>2. CASE x \in stones
    <3>1. \A y \in stones : to[y] = T(x) => y = x
      BY <1>2
    <3>2. to[x] = T(x)
      BY <2>2
    <3>3. (CHOOSE y \in stones : to[y] = T(x)) = x
      <4> HIDE DEF to, T, stones
      <4> QED
        BY <2>2, <3>1, <3>2
    <3>4. \E y \in stones : T(y) = T(x)
      BY <2>2
    <3>5. next.board[T(x)] = p.board[CHOOSE y \in stones : to[y] = T(x)]
      <4> HIDE DEF to, T, stones
      <4> QED
        BY <1>3, <1>4, <2>1, <3>4
    <3> QED
      BY <3>3, <3>5, Zenon
  <2>3. CASE x \notin stones
    <3>1. ~\E y \in stones : T(y) = T(x)
      BY <1>2, <2>3
    <3> QED
      BY <1>3, <1>4, <2>1, <2>3, <3>1
  <2> QED
    BY <2>2, <2>3
<1>6. ASSUME NEW q \in Square
      PROVE  /\ next.board[q] \in Side \cup {EMPTY}
             /\ next.board[q] # EMPTY => \E x \in Square : p.board[x] # EMPTY /\ T(x) = q
  <2>1. CASE \E x \in stones : T(x) = q
    <3>1. PICK x \in stones : T(x) = q
      BY <2>1
    <3>2. next.board[q] = p.board[x]
      BY <1>5, <3>1
    <3> QED
      BY <1>1, <3>1, <3>2
  <2>2. CASE ~\E x \in stones : T(x) = q
    BY <1>3, <1>4, <2>2
  <2> QED
    BY <2>1, <2>2
<1>7. next.board \in [Square -> Side \cup {EMPTY}]
  <2>1. DOMAIN next.board = Square /\ next.board = [q \in Square |-> next.board[q]]
    BY <1>3, <1>4
  <2> QED
    BY <1>6, <2>1
<1> QED
  BY <1>5, <1>6, <1>7 DEF next

(***************************************************************************)
(* transform moves both records alike.                                     *)
(***************************************************************************)
LEMMA TransformRecorded ==
  ASSUME NEW p, Recorded(p), NEW type \in Transforms
  PROVE  Recorded(Transform(p, type))
<1> DEFINE n == Len(p.hist)
           next == Transform(p, type)
           T(x) == TransformPos(x, type)
<1>1. /\ p.board \in [Square -> Side \cup {EMPTY}]
      /\ p.hist \in Seq(PointMove) /\ n \in Nat /\ DOMAIN p.hist = 1 .. n
      /\ p.turn \in Side /\ p.turn = n % 2
      /\ \A i \in 1 .. n : /\ p.hist[i] \in PointMove
                          /\ PosFromMove(p.hist[i]) \in Square
                          /\ ColorFromMove(p.hist[i]) = (i - 1) % 2
                          /\ p.board[PosFromMove(p.hist[i])] = (i - 1) % 2
      /\ \A i, j \in 1 .. n :
           PosFromMove(p.hist[i]) = PosFromMove(p.hist[j]) => i = j
      /\ \A x \in Square :
           p.board[x] # EMPTY => \E i \in 1 .. n : PosFromMove(p.hist[i]) = x
  BY RecordedType, Zenon
<1>2. /\ \A x \in Square : T(x) \in Square
      /\ \A x, y \in Square : T(x) = T(y) => x = y
  BY TransformInjective
<1>3. /\ next.board = TransformBoard(p.board, type)
      /\ next.hist = [i \in DOMAIN p.hist |-> TransformMove(p.hist[i], type)]
      /\ next.turn = p.turn
      /\ next = [board |-> next.board, hist |-> next.hist, turn |-> next.turn]
  BY DEF Transform
<1>4. /\ next.board \in [Square -> Side \cup {EMPTY}]
      /\ \A x \in Square : next.board[T(x)] = p.board[x]
      /\ \A q \in Square : next.board[q] # EMPTY =>
           \E x \in Square : p.board[x] # EMPTY /\ T(x) = q
  BY <1>1, TransformedBoard
<1> HIDE DEF next, n
<1>5. ASSUME NEW i \in 1 .. n
      PROVE  /\ next.hist[i] \in PointMove
             /\ PosFromMove(next.hist[i]) = T(PosFromMove(p.hist[i]))
             /\ ColorFromMove(next.hist[i]) = (i - 1) % 2
  <2>1. PosFromMove(p.hist[i]) \in Square /\ ColorFromMove(p.hist[i]) \in Side
    BY <1>1, PointMoveParts
  <2>2. next.hist[i] = BuildMovePos(T(PosFromMove(p.hist[i])), ColorFromMove(p.hist[i]))
    BY <1>1, <1>3 DEF TransformMove
  <2>3. T(PosFromMove(p.hist[i])) \in Square
    BY <1>2, <2>1
  <2> HIDE DEF T
  <2> QED
    <3> DEFINE x == T(PosFromMove(p.hist[i]))
               side == ColorFromMove(p.hist[i])
    <3>1. x \in PosBits /\ x \in Square /\ side \in Side
      BY <2>1, <2>3, SquarePoint
    <3>2. /\ PosFromMove(BuildMovePos(x, side)) = x
          /\ ColorFromMove(BuildMovePos(x, side)) = side
      BY <3>1, MoveParts, Zenon
    <3>3. BuildMovePos(x, side) \in PointMove
      BY <3>1 DEF PointMove
    <3> HIDE DEF x
    <3> QED
      BY <1>1, <2>2, <3>2, <3>3 DEF x
<1>6. next.hist \in Seq(PointMove) /\ Len(next.hist) = n /\ DOMAIN next.hist = 1 .. n
  <2>1. next.hist = [i \in 1 .. n |-> TransformMove(p.hist[i], type)]
    BY <1>1, <1>3
  <2>2. next.hist \in [1 .. n -> PointMove]
    BY <1>5, <2>1
  <2>3. n \in Nat
    BY <1>1, Zenon
  <2> QED
    BY ONLY <2>2, <2>3
<1>7. next \in Positions
  BY <1>1, <1>3, <1>4, <1>6 DEF Positions
<1> HIDE DEF T
<1>8. ASSUME NEW i \in 1 .. n
       PROVE  next.board[PosFromMove(next.hist[i])] = (i - 1) % 2
  BY <1>1, <1>4, <1>5
<1>9. ASSUME NEW i \in 1 .. n, NEW j \in 1 .. n,
              PosFromMove(next.hist[i]) = PosFromMove(next.hist[j])
       PROVE  i = j
  <2>1. T(PosFromMove(p.hist[i])) = T(PosFromMove(p.hist[j]))
    BY <1>5, <1>9
  <2>2. PosFromMove(p.hist[i]) \in Square /\ PosFromMove(p.hist[j]) \in Square
    BY <1>1
  <2>3. PosFromMove(p.hist[i]) = PosFromMove(p.hist[j])
    BY <1>2, <2>1, <2>2, Zenon
  <2> QED
    BY <1>1, <2>3
<1>10. ASSUME NEW q \in Square, next.board[q] # EMPTY
       PROVE  \E i \in 1 .. n : PosFromMove(next.hist[i]) = q
  <2>1. PICK x \in Square : p.board[x] # EMPTY /\ T(x) = q
    BY <1>4, <1>10
  <2>2. PICK i \in 1 .. n : PosFromMove(p.hist[i]) = x
    BY <1>1, <2>1
  <2> QED
    BY <1>5, <2>1, <2>2
<1>11. Recorded(next)
  BY <1>1, <1>3, <1>5, <1>6, <1>7, <1>8, <1>9, <1>10 DEF Recorded
<1> QED
  BY <1>11 DEF next

(***************************************************************************)
(* undo takes back the last move, which move then makes again.             *)
(***************************************************************************)
LEMMA UndoMove ==
  ASSUME NEW p, Recorded(p), p.hist # <<>>
  PROVE  LET m == p.hist[Len(p.hist)]
         IN  /\ Move(Undo(p), m) = p
             /\ At(Undo(p).board, PosFromMove(m)) = EMPTY
<1> DEFINE n == Len(p.hist)
           m == p.hist[n]
           q == PosFromMove(m)
           before == Undo(p)
           next == Move(before, m)
<1>1. /\ p = [board |-> p.board, hist |-> p.hist, turn |-> p.turn]
      /\ p.board \in [Square -> Side \cup {EMPTY}]
      /\ p.hist \in Seq(PointMove) /\ n \in Nat /\ DOMAIN p.hist = 1 .. n
      /\ p.turn = n % 2
      /\ \A i \in 1 .. n : /\ PosFromMove(p.hist[i]) \in Square
                          /\ p.board[PosFromMove(p.hist[i])] = (i - 1) % 2
  BY RecordedType, Zenon
<1>2. n \in Nat \ {0} /\ n \in 1 .. n
  BY <1>1
<1>3. q \in Square /\ p.board[q] = (n - 1) % 2
  BY <1>1, <1>2
<1>4. /\ before.board = [p.board EXCEPT ![q] = EMPTY]
      /\ before.hist = SubSeq(p.hist, 1, n - 1)
      /\ before.turn = 1 - p.turn
  BY DEF Undo, Last, Front, Opponent
<1>5. next = [board |-> [before.board EXCEPT ![q] = before.turn],
              hist |-> Append(before.hist, m),
              turn |-> 1 - before.turn]
  BY DEF Move, Opponent
<1> HIDE DEF before, next, q, m, n
<1>6. before.turn = (n - 1) % 2 /\ 1 - before.turn = p.turn
  <2>1. 1 - (n % 2) = (n - 1) % 2 /\ 1 - (1 - (n % 2)) = n % 2
    BY ONLY <1>2
  <2> QED
    BY <1>1, <1>4, <2>1
<1>7. [before.board EXCEPT ![q] = before.turn] = p.board
  BY <1>1, <1>3, <1>4, <1>6
<1>8. Append(before.hist, m) = p.hist
  BY <1>1, <1>2, <1>4 DEF m, n
<1>9. next = p
  BY <1>1, <1>5, <1>6, <1>7, <1>8
<1>10. At(before.board, q) = EMPTY
  BY <1>1, <1>3, <1>4 DEF At
<1> QED
  BY <1>9, <1>10 DEF next, before, q, m, n

(***************************************************************************)
(* As many stones as moves.                                                *)
(***************************************************************************)
LEMMA StonesCounted ==
  ASSUME NEW p, Recorded(p)
  PROVE  Cardinality(Square \ Free(p.board)) = Len(p.hist)
<1> DEFINE n == Len(p.hist)
           stones == Square \ Free(p.board)
           f == [i \in 1 .. n |-> PosFromMove(p.hist[i])]
<1>1. /\ n \in Nat
      /\ \A i \in 1 .. n : /\ PosFromMove(p.hist[i]) \in Square
                          /\ p.board[PosFromMove(p.hist[i])] = (i - 1) % 2
      /\ \A i, j \in 1 .. n :
           PosFromMove(p.hist[i]) = PosFromMove(p.hist[j]) => i = j
      /\ \A x \in Square :
           p.board[x] # EMPTY => \E i \in 1 .. n : PosFromMove(p.hist[i]) = x
  BY RecordedType, Zenon
<1>2. stones = {x \in Square : p.board[x] # EMPTY}
  BY DEF Free
<1> HIDE DEF n, stones
<1>3. ASSUME NEW i \in 1 .. n
      PROVE  f[i] \in stones
  <2>1. (i - 1) % 2 # EMPTY
    BY <1>1 DEF EMPTY
  <2> QED
    BY <1>1, <1>2, <2>1
<1>4. ASSUME NEW x \in stones
      PROVE  \E i \in 1 .. n : f[i] = x
  BY <1>1, <1>2
<1>5. f \in [1 .. n -> stones]
  BY <1>3
<1>6. \A i, j \in 1 .. n : f[i] = f[j] => i = j
  BY <1>1
<1> HIDE DEF f
<1>7. f \in Bijection(1 .. n, stones)
  BY <1>4, <1>5, <1>6 DEF Bijection, Injection, Surjection, IsInjective
<1>8. ExistsBijection(1 .. n, stones)
  BY <1>7 DEF ExistsBijection
<1>9. Cardinality(stones) = n
  BY <1>1, <1>8, FS_CountingElements
<1> QED
  BY <1>9 DEF n, stones

(***************************************************************************)
(* The positions through which ApplyOpening comes: the recursion on the    *)
(* number of stones defines them.                                          *)
(***************************************************************************)
LEMMA StepByStep ==
  ASSUME NEW numbers, NEW type, OpeningCoords(numbers, type) \in Seq(Int \X Int)
  PROVE  LET coords == OpeningCoords(numbers, type)
             n == Len(coords)
         IN  \E after :
               /\ ApplyOpening(numbers, type) = after[n]
               /\ after[0] = NewBoard
               /\ \A i \in 1 .. n :
                    after[i] = Move(after[i - 1], BuildMove(coords[i][1], coords[i][2],
                                                           after[i - 1].turn))
<1> DEFINE coords == OpeningCoords(numbers, type)
           n == Len(coords)
           Step(p, i) == Move(p, BuildMove(coords[i][1], coords[i][2], p.turn))
           Defines(f, k) == f = [i \in 0 .. k |-> IF i = 0 THEN NewBoard
                                                  ELSE Step(f[i - 1], i)]
           after == CHOOSE f : Defines(f, n)
           T == {k \in 0 .. n : ~\E f : Defines(f, k)}
<1>1. n \in Nat
  OBVIOUS
<1>2. ApplyOpening(numbers, type) = after[n]
  BY DEF ApplyOpening
<1> HIDE DEF coords, n, Step
<1>3. T = {}
  <2> SUFFICES ASSUME T # {} PROVE FALSE
    OBVIOUS
  <2>1. PICK k \in T : \A j \in T : k <= j
    <3>1. T \subseteq Nat
      BY <1>1
    <3> HIDE DEF T
    <3> QED
      BY <3>1, SmallestElement
  <2>2. k \in Nat /\ k <= n /\ ~\E f : Defines(f, k)
    BY <1>1, <2>1
  <2>3. CASE k = 0
    <3>1. Defines([i \in 0 .. 0 |-> NewBoard], 0)
      OBVIOUS
    <3> HIDE DEF Defines
    <3> QED
      BY <2>2, <2>3, <3>1
  <2>4. CASE k # 0
    <3>1. k - 1 \in 0 .. n /\ ~(k <= k - 1)
      BY <1>1, <2>2, <2>4
    <3>2. PICK f : Defines(f, k - 1)
      BY <2>1, <3>1
    <3> DEFINE g == [i \in 0 .. k |-> IF i = k THEN Step(f[k - 1], k) ELSE f[i]]
    <3>3. ASSUME NEW i \in 0 .. k
          PROVE  g[i] = IF i = 0 THEN NewBoard ELSE Step(g[i - 1], i)
      <4>1. CASE i = k
        <5>1. k - 1 \in 0 .. k /\ k - 1 # k
          BY <2>2, <2>4
        <5>2. g[k - 1] = f[k - 1]
          BY <5>1
        <5> QED
          BY <2>4, <4>1, <5>2
      <4>2. CASE i # k
        <5>1. i \in 0 .. k - 1
          BY <2>2, <4>2
        <5>2. f[i] = IF i = 0 THEN NewBoard ELSE Step(f[i - 1], i)
          BY <3>2, <5>1
        <5>3. i # 0 => i - 1 \in 0 .. k /\ i - 1 # k
          BY <2>2, <4>2
        <5> QED
          BY <4>2, <5>2, <5>3
      <4> QED
        BY <4>1, <4>2
    <3>4. Defines(g, k)
      BY <3>3
    <3> HIDE DEF g, Defines
    <3> QED
      BY <2>2, <3>4
  <2> QED
    BY <2>3, <2>4
<1>4. Defines(after, n)
  <2>1. \E f : Defines(f, n)
    BY <1>1, <1>3
  <2> HIDE DEF Defines
  <2> QED
    BY <2>1
<1> HIDE DEF after
<1>5. after[0] = NewBoard /\ \A i \in 1 .. n : after[i] = Step(after[i - 1], i)
  BY <1>1, <1>4
<1> QED
  BY <1>2, <1>5, Zenon DEF n, coords, Step

(***************************************************************************)
(* An opening that fits and names no point twice is recorded.              *)
(***************************************************************************)
LEMMA OpeningRecorded ==
  ASSUME NEW numbers, NEW type, OpeningCoords(numbers, type) \in Seq(Int \X Int),
         OpeningFits(numbers, type),
         \A i, j \in DOMAIN OpeningCoords(numbers, type) :
           OpeningCoords(numbers, type)[i] = OpeningCoords(numbers, type)[j] => i = j
  PROVE  LET coords == OpeningCoords(numbers, type)
             p == ApplyOpening(numbers, type)
         IN  /\ Recorded(p) /\ Len(p.hist) = Len(coords)
             /\ \A i \in 1 .. Len(coords) :
                  PosFromMove(p.hist[i]) = POS(coords[i][1], coords[i][2])
<1> DEFINE coords == OpeningCoords(numbers, type)
           n == Len(coords)
           Point(i) == POS(coords[i][1], coords[i][2])
<1>1. /\ n \in Nat /\ DOMAIN coords = 1 .. n
      /\ \A i \in 1 .. n : coords[i] \in Coord \X Coord
      /\ \A i, j \in 1 .. n : coords[i] = coords[j] => i = j
  BY DEF OpeningFits
<1>2. PICK after :
        /\ ApplyOpening(numbers, type) = after[n]
        /\ after[0] = NewBoard
        /\ \A i \in 1 .. n :
             after[i] = Move(after[i - 1], BuildMove(coords[i][1], coords[i][2],
                                                    after[i - 1].turn))
  BY StepByStep
<1> HIDE DEF coords, n
<1>3. /\ \A i \in 1 .. n : Point(i) \in Square
      /\ \A i, j \in 1 .. n : Point(i) = Point(j) => i = j
  <2>1. ASSUME NEW i \in 1 .. n
        PROVE  /\ coords[i][1] \in Coord /\ coords[i][2] \in Coord
               /\ coords[i] = <<CoordX(Point(i)), CoordY(Point(i))>>
    <3>1. PICK x \in Coord, y \in Coord : coords[i] = <<x, y>>
      BY <1>1
    <3>2. CoordX(POS(x, y)) = x /\ CoordY(POS(x, y)) = y
      BY BoardPoint
    <3> QED
      BY <3>1, <3>2
  <2>2. ASSUME NEW i \in 1 .. n
        PROVE  Point(i) \in Square
    <3>1. \E x, y \in Coord : Point(i) = POS(x, y)
      BY <2>1, Zenon
    <3> HIDE DEF Point
    <3> QED
      BY <3>1 DEF Square
  <2>3. ASSUME NEW i \in 1 .. n, NEW j \in 1 .. n, Point(i) = Point(j)
        PROVE  i = j
    BY <1>1, <2>1, <2>3, Zenon
  <2> QED
    BY <2>2, <2>3, Zenon
<1> DEFINE Good(k) == /\ Recorded(after[k]) /\ Len(after[k].hist) = k
                      /\ \A i \in 1 .. k : PosFromMove(after[k].hist[i]) = Point(i)
           T == {k \in 0 .. n : ~Good(k)}
<1> HIDE DEF Point
<1>4. ASSUME NEW k \in 1 .. n, Good(k - 1)
      PROVE  Good(k)
  <2> DEFINE p == after[k - 1]
             q == Point(k)
             m == BuildMovePos(q, p.turn)
  <2>1. /\ Recorded(p) /\ Len(p.hist) = k - 1
        /\ \A i \in 1 .. k - 1 : PosFromMove(p.hist[i]) = Point(i)
    BY <1>4
  <2>2. after[k] = Move(p, m)
    BY <1>2 DEF BuildMove, Point
  <2>3. /\ p.hist \in Seq(PointMove) /\ p.turn \in Side
        /\ \A x \in Square :
             p.board[x] # EMPTY => \E i \in 1 .. k - 1 : PosFromMove(p.hist[i]) = x
    BY <2>1, RecordedType
  <2>4. q \in Square
    BY <1>3
  <2> HIDE DEF p, q
  <2>5. p.board[q] = EMPTY
    <3>1. ASSUME NEW i \in 1 .. k - 1
          PROVE  PosFromMove(p.hist[i]) # q
      <4>1. i \in 1 .. n /\ i # k
        BY <1>1
      <4> QED
        BY <1>3, <2>1, <4>1 DEF q
    <3> QED
      BY <2>3, <2>4, <3>1
  <2>6. Recorded(after[k])
    BY <2>1, <2>2, <2>4, <2>5, MoveRecorded
  <2>7. m \in PointMove /\ PosFromMove(m) = q
    <3>1. q \in PosBits
      BY <2>4, SquarePoint
    <3>2. PosFromMove(m) = q
      BY <2>3, <3>1, MoveParts, Zenon
    <3> QED
      BY <2>3, <2>4, <3>2 DEF PointMove
  <2>8. after[k].hist = Append(p.hist, m)
    BY <2>2 DEF Move
  <2> HIDE DEF m
  <2>9. /\ Len(after[k].hist) = k
        /\ \A i \in 1 .. k - 1 : after[k].hist[i] = p.hist[i]
        /\ after[k].hist[k] = m
    BY <2>1, <2>3, <2>7, <2>8, AppendProperties
  <2>10. ASSUME NEW i \in 1 .. k
         PROVE  PosFromMove(after[k].hist[i]) = Point(i)
    <3>1. CASE i = k
      BY <2>7, <2>9, <3>1 DEF q
    <3>2. CASE i # k
      <4>1. i \in 1 .. k - 1
        BY <3>2
      <4> QED
        BY <2>1, <2>9, <4>1
    <3> QED
      BY <3>1, <3>2
  <2> QED
    BY <2>6, <2>9, <2>10
<1>5. Good(0)
  BY <1>2, NewBoardRecorded DEF NewBoard
<1> HIDE DEF Good
<1>6. T = {}
  <2> SUFFICES ASSUME T # {} PROVE FALSE
    OBVIOUS
  <2>1. PICK k \in T : \A j \in T : k <= j
    <3>1. T \subseteq Nat
      BY <1>1
    <3> HIDE DEF T
    <3> QED
      BY <3>1, SmallestElement
  <2>2. k \in 0 .. n /\ ~Good(k)
    BY <2>1
  <2>3. k # 0
    BY <1>5, <2>2
  <2>4. k \in 1 .. n /\ k - 1 \in 0 .. n /\ ~(k <= k - 1)
    BY <1>1, <2>2, <2>3
  <2>5. Good(k - 1)
    BY <2>1, <2>4
  <2> QED
    BY <1>4, <2>2, <2>4, <2>5
<1>7. Good(n)
  BY <1>1, <1>6
<1> QED
  BY <1>2, <1>7, Zenon DEF Good, Point, coords, n

(***************************************************************************)
(* parse_opening_offset_linestr skips numbers; the others stay in order.   *)
(***************************************************************************)
LEMMA OffsetLoop ==
  ASSUME NEW numbers \in Seq(Int)
  PROVE  LET n == Len(numbers)
         IN  \E kept \in [0 .. n -> Seq(Int)] :
               /\ OffsetNumbers(numbers) = kept[n]
               /\ kept[0] = <<>>
               /\ \A i \in 1 .. n :
                    kept[i] = IF numbers[i] \in -16 .. 15
                                THEN Append(kept[i - 1], numbers[i]) ELSE kept[i - 1]
<1> DEFINE n == Len(numbers)
           Skips(s, i) == IF numbers[i] \in -16 .. 15 THEN Append(s, numbers[i]) ELSE s
           Defines(f) == f = [i \in 0 .. n |->
             IF i = 0 THEN <<>>
             ELSE IF numbers[i] \in -16 .. 15 THEN Append(f[i - 1], numbers[i])
             ELSE f[i - 1]]
           step == [si \in Seq(Int) \X (1 .. n) |-> Skips(si[1], si[2])]
<1>1. n \in Nat /\ \A i \in 1 .. n : numbers[i] \in Int
  BY LenProperties
<1>2. OffsetNumbers(numbers) = (CHOOSE f : Defines(f))[n]
  BY DEF OffsetNumbers
<1>3. step \in [Seq(Int) \X (1 .. n) -> Seq(Int)]
  <2>1. ASSUME NEW s \in Seq(Int), NEW i \in 1 .. n
        PROVE  Skips(s, i) \in Seq(Int)
    BY <1>1, AppendProperties
  <2> HIDE DEF Skips
  <2> QED
    BY <2>1
<1>4. \A s \in Seq(Int), i \in 1 .. n : step[<<s, i>>] = Skips(s, i)
  OBVIOUS
<1>5. <<>> \in Seq(Int)
  OBVIOUS
<1>6. \E f \in [0 .. n -> Seq(Int)] :
        f[0] = <<>> /\ \A i \in 1 .. n : f[i] = step[<<f[i - 1], i>>]
  <2> HIDE DEF step, n
  <2>1. \E f : f \in LoopRuns(Seq(Int), <<>>, n, step)
    BY <1>1, <1>3, <1>5, LoopExists, Zenon
  <2> QED
    BY <2>1 DEF LoopRuns
<1>7. \E f : Defines(f)
  <2>1. PICK f \in [0 .. n -> Seq(Int)] :
          f[0] = <<>> /\ \A i \in 1 .. n : f[i] = step[<<f[i - 1], i>>]
    BY <1>6
  <2>2. ASSUME NEW i \in 1 .. n
        PROVE  f[i] = Skips(f[i - 1], i)
    <3>1. i - 1 \in 0 .. n
      BY <1>1
    <3>2. f[i - 1] \in Seq(Int)
      BY <2>1, <3>1
    <3> HIDE DEF Skips
    <3> QED
      BY <1>4, <2>1, <3>2, Zenon
  <2>3. \A i \in 0 .. n : i # 0 => i \in 1 .. n
    BY <1>1
  <2>4. ASSUME NEW i \in 0 .. n
        PROVE  f[i] = IF i = 0 THEN <<>> ELSE Skips(f[i - 1], i)
    BY <2>1, <2>2, <2>3, Zenon
  <2>5. f = [i \in 0 .. n |-> IF i = 0 THEN <<>> ELSE Skips(f[i - 1], i)]
    <3> HIDE DEF Skips
    <3> QED
      BY <2>1, <2>4
  <2> QED
    BY <2>5
<1> DEFINE kept == CHOOSE f : Defines(f)
<1>8. Defines(kept)
  <2> HIDE DEF Defines
  <2> QED
    BY <1>7
<1> HIDE DEF kept
<1>9. kept[0] = <<>>
  BY <1>1, <1>8
<1>10. ASSUME NEW i \in 1 .. n
       PROVE  kept[i] = Skips(kept[i - 1], i)
  <2>1. i \in 0 .. n /\ i # 0
    BY <1>1
  <2> QED
    BY <1>8, <2>1, Zenon
<1>11. \A i \in 0 .. n : kept[i] \in Seq(Int)
  <2> DEFINE T == {i \in 0 .. n : kept[i] \in Seq(Int)}
  <2>1. 0 \in T
    <3>1. 0 \in 0 .. n /\ kept[0] \in Seq(Int)
      BY <1>1, <1>5, <1>9
    <3> QED
      BY <3>1, Zenon
  <2>2. ASSUME NEW i \in 1 .. n, i - 1 \in T
        PROVE  i \in T
    <3>1. i \in 0 .. n
      BY <1>1
    <3>2. kept[i - 1] \in Seq(Int) /\ numbers[i] \in Int
      BY <1>1, <2>2, Zenon
    <3>3. Append(kept[i - 1], numbers[i]) \in Seq(Int)
      BY <3>2, AppendProperties
    <3>4. kept[i] \in Seq(Int)
      BY <1>10, <3>2, <3>3, Zenon
    <3> QED
      BY <3>1, <3>4, Zenon
  <2> HIDE DEF T
  <2>3. \A i \in 0 .. n : i \in T
    BY <1>1, <2>1, <2>2, Induction
  <2> QED
    BY <2>3 DEF T
<1>12. kept \in [0 .. n -> Seq(Int)]
  <2>1. kept = [i \in 0 .. n |-> kept[i]]
    BY <1>8
  <2> QED
    BY <1>11, <2>1
<1> QED
  BY <1>2, <1>9, <1>10, <1>12, Zenon DEF kept, n

(***************************************************************************)
(* What it keeps: numbers, and all of them when none has to be skipped.    *)
(***************************************************************************)
LEMMA OffsetKept ==
  ASSUME NEW numbers \in Seq(Int)
  PROVE  /\ OffsetNumbers(numbers) \in Seq(Int)
         /\ (\A i \in 1 .. Len(numbers) : numbers[i] \in -16 .. 15) =>
              OffsetNumbers(numbers) = numbers
<1> DEFINE n == Len(numbers)
<1>1. n \in Nat /\ \A i \in 1 .. n : numbers[i] \in Int
  BY LenProperties
<1>2. PICK kept \in [0 .. n -> Seq(Int)] :
        /\ OffsetNumbers(numbers) = kept[n]
        /\ kept[0] = <<>>
        /\ \A i \in 1 .. n :
             kept[i] = IF numbers[i] \in -16 .. 15
                         THEN Append(kept[i - 1], numbers[i]) ELSE kept[i - 1]
  BY OffsetLoop
<1> HIDE DEF n
<1>3. kept[n] \in Seq(Int)
  BY <1>1
<1>4. ASSUME \A i \in 1 .. n : numbers[i] \in -16 .. 15
      PROVE  kept[n] = numbers
  <2> DEFINE T == {k \in 0 .. n : /\ Len(kept[k]) = k
                                 /\ \A i \in 1 .. k : kept[k][i] = numbers[i]}
  <2>1. 0 \in T
    BY <1>1, <1>2
  <2>2. ASSUME NEW k \in 1 .. n, k - 1 \in T
        PROVE  k \in T
    <3>1. k - 1 \in 0 .. n /\ kept[k - 1] \in Seq(Int) /\ numbers[k] \in Int
      BY <1>1
    <3>2. kept[k] = Append(kept[k - 1], numbers[k])
      BY <1>2, <1>4
    <3>3. Len(kept[k - 1]) = k - 1 /\ \A i \in 1 .. k - 1 : kept[k - 1][i] = numbers[i]
      BY <2>2
    <3>4. /\ Len(kept[k]) = k /\ kept[k][k] = numbers[k]
          /\ \A i \in 1 .. k - 1 : kept[k][i] = kept[k - 1][i]
      BY <3>1, <3>2, <3>3, AppendProperties
    <3>5. ASSUME NEW i \in 1 .. k
          PROVE  kept[k][i] = numbers[i]
      <4>1. CASE i = k
        BY <3>4, <4>1
      <4>2. CASE i # k
        <5>1. i \in 1 .. k - 1
          BY <4>2
        <5> QED
          BY <3>3, <3>4, <5>1
      <4> QED
        BY <4>1, <4>2
    <3> QED
      BY <3>4, <3>5
  <2> HIDE DEF T
  <2>3. n \in T
    <3>1. \A i \in 0 .. n : i \in T
      BY <1>1, <2>1, <2>2, Induction
    <3> QED
      BY <1>1, <3>1
  <2>4. Len(kept[n]) = n /\ \A i \in 1 .. n : kept[n][i] = numbers[i]
    BY <2>3 DEF T
  <2>5. kept[n] = [i \in 1 .. n |-> kept[n][i]] /\ numbers = [i \in 1 .. n |-> numbers[i]]
    BY <1>3, <2>4, SequenceIs DEF n
  <2> QED
    BY <2>4, <2>5
<1> QED
  BY <1>2, <1>3, <1>4 DEF n

(***************************************************************************)
(* Numbers two by two, and the pairs one after the other again.            *)
(***************************************************************************)
LEMMA PairsType ==
  ASSUME NEW numbers \in Seq(Int)
  PROVE  Pairs(numbers) \in Seq(Int \X Int)
<1>1. Len(numbers) \in Nat /\ \A i \in 1 .. Len(numbers) : numbers[i] \in Int
  BY LenProperties
<1> DEFINE h == Len(numbers) \div 2
<1>2. h \in Nat /\ \A i \in 1 .. h : 2 * i - 1 \in 1 .. Len(numbers) /\ 2 * i \in 1 .. Len(numbers)
  BY <1>1
<1> HIDE DEF h
<1>3. \A i \in 1 .. h : <<numbers[2 * i - 1], numbers[2 * i]>> \in Int \X Int
  BY <1>1, <1>2
<1>4. [i \in 1 .. h |-> <<numbers[2 * i - 1], numbers[2 * i]>>] \in Seq(Int \X Int)
  BY <1>2, <1>3
<1> QED
  BY <1>4 DEF Pairs, h

LEMMA PairsUnpaired ==
  ASSUME NEW R, R \subseteq Int, NEW pairs \in Seq(R \X R)
  PROVE  /\ Unpaired(pairs) \in Seq(Int)
         /\ \A k \in 1 .. Len(Unpaired(pairs)) : Unpaired(pairs)[k] \in R
         /\ Pairs(Unpaired(pairs)) = pairs
<1> DEFINE n == Len(pairs)
           u == Unpaired(pairs)
<1>1. n \in Nat /\ pairs = [i \in 1 .. n |-> pairs[i]]
      /\ \A i \in 1 .. n : pairs[i] \in R \X R
  BY LenProperties
<1> HIDE DEF n
<1>2. u = [k \in 1 .. 2 * n |-> pairs[(k + 1) \div 2][2 - (k % 2)]]
  BY DEF Unpaired, n
<1> HIDE DEF u
<1>3. ASSUME NEW k \in 1 .. 2 * n
      PROVE  u[k] \in R
  <2>1. (k + 1) \div 2 \in 1 .. n /\ (2 - (k % 2) = 1 \/ 2 - (k % 2) = 2)
    <3>1. n \in Nat /\ k \in Int /\ 1 <= k /\ k <= 2 * n
      BY <1>1
    <3>2. k = 2 * (k \div 2) + (k % 2) /\ k \div 2 \in Int /\ (k % 2 = 0 \/ k % 2 = 1)
      BY ONLY <3>1
    <3>3. (k + 1) \div 2 = (k \div 2) + (k % 2)
      BY ONLY <3>1
    <3> QED
      BY ONLY <3>1, <3>2, <3>3
  <2>2. pairs[(k + 1) \div 2][1] \in R /\ pairs[(k + 1) \div 2][2] \in R
    BY <1>1, <2>1
  <2> QED
    BY <1>2, <2>1, <2>2
<1>4. u \in Seq(Int) /\ Len(u) = 2 * n
  <2>1. 2 * n \in Nat /\ \A k \in 1 .. 2 * n : u[k] \in Int
    BY <1>1, <1>3
  <2>2. u \in [1 .. 2 * n -> Int]
    BY <1>2, <2>1
  <2> QED
    BY <2>1, <2>2, IsASequence
<1>5. Pairs(u) = pairs
  <2>1. Pairs(u) = [i \in 1 .. n |-> <<u[2 * i - 1], u[2 * i]>>]
    <3>1. (2 * n) \div 2 = n
      BY <1>1
    <3> QED
      BY <1>4, <3>1 DEF Pairs
  <2>2. ASSUME NEW i \in 1 .. n
        PROVE  <<u[2 * i - 1], u[2 * i]>> = pairs[i]
    <3>1. /\ 2 * i \in 1 .. 2 * n /\ 2 * i - 1 \in 1 .. 2 * n
          /\ (2 * i + 1) \div 2 = i /\ ((2 * i - 1) + 1) \div 2 = i
      <4>1. 2 * i \in 1 .. 2 * n /\ 2 * i - 1 \in 1 .. 2 * n
        BY <1>1
      <4>2. (2 * i - 1) + 1 = 2 * i
        BY <1>1
      <4>3. (2 * i + 1) \div 2 = i /\ (2 * i) \div 2 = i
        <5>1. i \in Nat /\ 2 \in Nat \ {0} /\ 0 \in 0 .. 2 - 1 /\ 1 \in 0 .. 2 - 1
          OBVIOUS
        <5>2. (i * 2 + 0) \div 2 = i /\ (i * 2 + 1) \div 2 = i
          BY ONLY <5>1, DivMod
        <5>3. 2 * i + 1 = i * 2 + 1 /\ 2 * i = i * 2 + 0
          BY <5>1
        <5> QED
          BY <5>2, <5>3, Zenon
      <4> QED
        BY <4>1, <4>2, <4>3, Zenon
    <3>3. 2 - ((2 * i) % 2) = 2 /\ 2 - ((2 * i - 1) % 2) = 1
      BY <1>1
    <3>2. u[2 * i - 1] = pairs[i][1] /\ u[2 * i] = pairs[i][2]
      BY <1>2, <3>1, <3>3
    <3>4. pairs[i] = <<pairs[i][1], pairs[i][2]>>
      BY <1>1
    <3> QED
      BY <3>2, <3>4
  <2> QED
    BY <1>1, <2>1, <2>2
<1> QED
  BY <1>3, <1>4, <1>5 DEF u

(***************************************************************************)
(* An opening names pairs of numbers, whatever is in its line.             *)
(***************************************************************************)
LEMMA CoordsType ==
  ASSUME NEW numbers \in Seq(Int), NEW type
  PROVE  OpeningCoords(numbers, type) \in Seq(Int \X Int)
<1> DEFINE pairs == IF type = "offset" THEN Pairs(OffsetNumbers(numbers)) ELSE Pairs(numbers)
           n == Len(pairs)
<1>1. pairs \in Seq(Int \X Int)
  BY PairsType, OffsetKept
<1>2. OpeningCoords(numbers, type) =
        IF type = "offset" THEN [i \in DOMAIN pairs |-> <<pairs[i][1] + Center, pairs[i][2] + Center>>]
                           ELSE [i \in DOMAIN pairs |-> <<pairs[i][1], pairs[i][2] - 1>>]
  BY DEF OpeningCoords
<1> HIDE DEF pairs
<1>3. n \in Nat /\ DOMAIN pairs = 1 .. n /\ \A i \in 1 .. n : pairs[i] \in Int \X Int
  BY <1>1, SequenceIs, Zenon
<1> HIDE DEF n
<1>4. Center \in Int
  BY SizeAssumption DEF Center
<1>5. \A i \in 1 .. n : pairs[i][1] \in Int /\ pairs[i][2] \in Int
  BY <1>3
<1>6. ASSUME NEW a \in Int, NEW b \in Int
      PROVE  [i \in 1 .. n |-> <<pairs[i][1] + a, pairs[i][2] + b>>] \in Seq(Int \X Int)
  <2>1. [i \in 1 .. n |-> <<pairs[i][1] + a, pairs[i][2] + b>>] \in [1 .. n -> Int \X Int]
    BY <1>5
  <2> QED
    BY <1>3, <2>1, IsASequence
<1>7. CASE type = "offset"
  BY <1>2, <1>3, <1>4, <1>6, <1>7
<1>8. CASE type # "offset"
  <2>1. [i \in 1 .. n |-> <<pairs[i][1], pairs[i][2] - 1>>] \in [1 .. n -> Int \X Int]
    BY <1>5
  <2>2. [i \in 1 .. n |-> <<pairs[i][1], pairs[i][2] - 1>>] \in Seq(Int \X Int)
    BY <1>3, <2>1, IsASequence
  <2> QED
    BY <1>2, <1>3, <1>8, <2>2
<1> QED
  BY <1>7, <1>8

(***************************************************************************)
(* What to_opening_str writes of a history names its points.               *)
(***************************************************************************)
LEMMA OpeningOfHistory ==
  ASSUME NEW p, Recorded(p), NEW type \in {"offset", "pos"}
  PROVE  LET coords == OpeningCoords(OpeningNumbers(p, type), type)
         IN  /\ coords \in Seq(Int \X Int) /\ Len(coords) = Len(p.hist)
             /\ \A i \in 1 .. Len(p.hist) :
                  coords[i] = <<CoordX(PosFromMove(p.hist[i])), CoordY(PosFromMove(p.hist[i]))>>
<1> DEFINE n == Len(p.hist)
           X(i) == CoordX(PosFromMove(p.hist[i]))
           Y(i) == CoordY(PosFromMove(p.hist[i]))
           coords == OpeningCoords(OpeningNumbers(p, type), type)
<1>1. /\ n \in Nat /\ DOMAIN p.hist = 1 .. n
      /\ \A i \in 1 .. n : X(i) \in Coord /\ Y(i) \in Coord
  <2>1. /\ n \in Nat /\ DOMAIN p.hist = 1 .. n
        /\ \A i \in 1 .. n : PosFromMove(p.hist[i]) \in Square
    BY RecordedType, Zenon
  <2> QED
    BY <2>1, SquarePoint
<1> HIDE DEF n, X, Y
<1>2. /\ Center \in Int /\ Coord \subseteq Int
      /\ \A x \in Coord : x - Center \in -16 .. 15 /\ x + 1 \in Int
  BY SizeAssumption DEF Center, Coord
<1>3. ASSUME type = "offset"
      PROVE  coords = [i \in 1 .. n |-> <<X(i), Y(i)>>]
  <2> DEFINE pairs == [i \in 1 .. n |-> <<X(i) - Center, Y(i) - Center>>]
  <2>1. OpeningNumbers(p, type) = Unpaired(pairs)
    BY <1>1, <1>3 DEF OpeningNumbers, X, Y
  <2>2. -16 .. 15 \subseteq Int /\ pairs \in Seq((-16 .. 15) \X (-16 .. 15))
    <3>1. \A i \in 1 .. n : X(i) - Center \in -16 .. 15 /\ Y(i) - Center \in -16 .. 15
      BY <1>1, <1>2
    <3>2. pairs \in [1 .. n -> (-16 .. 15) \X (-16 .. 15)]
      BY <3>1
    <3> HIDE DEF pairs
    <3> QED
      BY <1>1, <3>2, IsASequence
  <2>3. \A i \in 1 .. n : pairs[i][1] = X(i) - Center /\ pairs[i][2] = Y(i) - Center
    OBVIOUS
  <2>4. DOMAIN pairs = 1 .. n
    OBVIOUS
  <2> HIDE DEF pairs
  <2>5. /\ Unpaired(pairs) \in Seq(Int)
        /\ \A k \in 1 .. Len(Unpaired(pairs)) : Unpaired(pairs)[k] \in -16 .. 15
        /\ Pairs(Unpaired(pairs)) = pairs
    BY <2>2, PairsUnpaired
  <2>6. OffsetNumbers(Unpaired(pairs)) = Unpaired(pairs)
    BY <2>5, OffsetKept
  <2>7. coords = [i \in 1 .. n |-> <<pairs[i][1] + Center, pairs[i][2] + Center>>]
    BY <1>3, <2>1, <2>4, <2>5, <2>6 DEF OpeningCoords
  <2>8. \A i \in 1 .. n : pairs[i][1] + Center = X(i) /\ pairs[i][2] + Center = Y(i)
    <3>1. \A i \in 1 .. n : X(i) \in Int /\ Y(i) \in Int
      BY <1>1, <1>2
    <3> QED
      BY <1>2, <2>3, <3>1
  <2> HIDE DEF coords
  <2> QED
    BY <2>7, <2>8
<1>4. ASSUME type = "pos"
      PROVE  coords = [i \in 1 .. n |-> <<X(i), Y(i)>>]
  <2> DEFINE pairs == [i \in 1 .. n |-> <<X(i), Y(i) + 1>>]
  <2>1. OpeningNumbers(p, type) = Unpaired(pairs)
    BY <1>1, <1>4 DEF OpeningNumbers, X, Y
  <2>2. pairs \in Seq(Int \X Int)
    <3>1. \A i \in 1 .. n : X(i) \in Int /\ Y(i) + 1 \in Int
      BY <1>1, <1>2
    <3>2. pairs \in [1 .. n -> Int \X Int]
      BY <3>1
    <3> HIDE DEF pairs
    <3> QED
      BY <1>1, <3>2, IsASequence
  <2>3. \A i \in 1 .. n : pairs[i][1] = X(i) /\ pairs[i][2] = Y(i) + 1
    OBVIOUS
  <2>4. DOMAIN pairs = 1 .. n
    OBVIOUS
  <2> HIDE DEF pairs
  <2>5. Pairs(Unpaired(pairs)) = pairs
    BY <2>2, PairsUnpaired
  <2>6. coords = [i \in 1 .. n |-> <<pairs[i][1], pairs[i][2] - 1>>]
    BY <1>4, <2>1, <2>4, <2>5 DEF OpeningCoords
  <2>7. \A i \in 1 .. n : pairs[i][1] = X(i) /\ pairs[i][2] - 1 = Y(i)
    <3>1. \A i \in 1 .. n : Y(i) \in Int
      BY <1>1, <1>2
    <3> QED
      BY <2>3, <3>1
  <2> HIDE DEF coords
  <2> QED
    BY <2>6, <2>7
<1>5. coords = [i \in 1 .. n |-> <<X(i), Y(i)>>]
  BY <1>3, <1>4
<1> HIDE DEF coords
<1>6. coords \in Seq(Int \X Int) /\ Len(coords) = n
  <2>1. coords \in [1 .. n -> Int \X Int]
    BY <1>1, <1>2, <1>5
  <2> QED
    BY <1>1, <2>1, IsASequence
<1>7. \A i \in 1 .. n : coords[i] = <<X(i), Y(i)>>
  BY <1>5
<1> QED
  BY <1>6, <1>7, Zenon DEF coords, n, X, Y

(***************************************************************************)
(* A history determines the stones and the side to move.                   *)
(***************************************************************************)
LEMMA SameHistory ==
  ASSUME NEW p, Recorded(p), NEW q, Recorded(q), Len(p.hist) = Len(q.hist),
         \A i \in 1 .. Len(p.hist) : PosFromMove(p.hist[i]) = PosFromMove(q.hist[i])
  PROVE  p = q
<1> DEFINE n == Len(p.hist)
<1>1. /\ p = [board |-> p.board, hist |-> p.hist, turn |-> p.turn]
      /\ p.board \in [Square -> Side \cup {EMPTY}]
      /\ p.hist \in Seq(PointMove) /\ n \in Nat /\ p.turn = n % 2
      /\ \A i \in 1 .. n :
           /\ p.hist[i] \in PointMove
           /\ ColorFromMove(p.hist[i]) = (i - 1) % 2
           /\ p.board[PosFromMove(p.hist[i])] = (i - 1) % 2
      /\ \A x \in Square :
           p.board[x] # EMPTY => \E i \in 1 .. n : PosFromMove(p.hist[i]) = x
  BY RecordedType, Zenon
<1>2. /\ q = [board |-> q.board, hist |-> q.hist, turn |-> q.turn]
      /\ q.board \in [Square -> Side \cup {EMPTY}]
      /\ q.hist \in Seq(PointMove) /\ q.turn = n % 2
      /\ \A i \in 1 .. n :
           /\ q.hist[i] \in PointMove
           /\ ColorFromMove(q.hist[i]) = (i - 1) % 2
           /\ q.board[PosFromMove(q.hist[i])] = (i - 1) % 2
      /\ \A x \in Square :
           q.board[x] # EMPTY => \E i \in 1 .. n : PosFromMove(q.hist[i]) = x
  <2>1. n = Len(q.hist)
    OBVIOUS
  <2> HIDE DEF n
  <2> QED
    BY <2>1, RecordedType, Zenon
<1>3. Len(q.hist) = n /\ \A i \in 1 .. n : PosFromMove(p.hist[i]) = PosFromMove(q.hist[i])
  OBVIOUS
<1> HIDE DEF n
<1>4. p.hist = q.hist
  <2>1. ASSUME NEW i \in 1 .. n
        PROVE  p.hist[i] = q.hist[i]
    <3>1. /\ p.hist[i] = BuildMovePos(PosFromMove(p.hist[i]), ColorFromMove(p.hist[i]))
          /\ q.hist[i] = BuildMovePos(PosFromMove(q.hist[i]), ColorFromMove(q.hist[i]))
      BY <1>1, <1>2, PointMoveParts
    <3> QED
      BY <1>1, <1>2, <1>3, <3>1, Zenon
  <2>2. /\ p.hist = [i \in 1 .. n |-> p.hist[i]]
        /\ q.hist = [i \in 1 .. n |-> q.hist[i]]
    BY <1>1, <1>2, <1>3 DEF n
  <2> QED
    BY <2>1, <2>2
<1>5. ASSUME NEW x \in Square
      PROVE  p.board[x] = q.board[x]
  <2>1. CASE \E i \in 1 .. n : PosFromMove(p.hist[i]) = x
    BY <1>1, <1>2, <1>3, <2>1, Zenon
  <2>2. CASE ~\E i \in 1 .. n : PosFromMove(p.hist[i]) = x
    BY <1>1, <1>2, <1>3, <2>2, Zenon
  <2> QED
    BY <2>1, <2>2
<1>6. p.board = q.board
  BY <1>1, <1>2, <1>5
<1> QED
  BY <1>1, <1>2, <1>4, <1>6, Zenon

(***************************************************************************)
(* A recorded position that is written as an opening is read back.         *)
(***************************************************************************)
LEMMA ReadBack ==
  ASSUME NEW p, Recorded(p), NEW type \in {"offset", "pos"}
  PROVE  LET numbers == OpeningNumbers(p, type)
         IN  OpeningFits(numbers, type) /\ ApplyOpening(numbers, type) = p
<1> DEFINE numbers == OpeningNumbers(p, type)
           coords == OpeningCoords(numbers, type)
           n == Len(p.hist)
           Point(i) == PosFromMove(p.hist[i])
           read == ApplyOpening(numbers, type)
<1>1. /\ coords \in Seq(Int \X Int) /\ Len(coords) = n
      /\ \A i \in 1 .. n : coords[i] = <<CoordX(Point(i)), CoordY(Point(i))>>
  BY OpeningOfHistory
<1>2. /\ n \in Nat /\ \A i \in 1 .. n : Point(i) \in Square
      /\ \A i, j \in 1 .. n : Point(i) = Point(j) => i = j
  BY RecordedType, Zenon
<1> HIDE DEF coords, n, Point
<1>3. ASSUME NEW i \in 1 .. n
      PROVE  /\ coords[i] \in Coord \X Coord
             /\ POS(coords[i][1], coords[i][2]) = Point(i)
  BY <1>1, <1>2, SquarePoint
<1>4. DOMAIN coords = 1 .. n
  BY <1>1
<1>5. OpeningFits(numbers, type)
  BY <1>3, <1>4 DEF OpeningFits, coords
<1>6. \A i, j \in 1 .. n : coords[i] = coords[j] => i = j
  BY <1>2, <1>3
<1>7. /\ Recorded(read) /\ Len(read.hist) = n
      /\ \A i \in 1 .. n : PosFromMove(read.hist[i]) = POS(coords[i][1], coords[i][2])
  <2>1. \A i, j \in DOMAIN coords : coords[i] = coords[j] => i = j
    BY <1>4, <1>6
  <2>2. /\ Recorded(read) /\ Len(read.hist) = Len(coords)
        /\ \A i \in 1 .. Len(coords) :
             PosFromMove(read.hist[i]) = POS(coords[i][1], coords[i][2])
    <3>1. OpeningCoords(numbers, type) \in Seq(Int \X Int) /\ OpeningFits(numbers, type)
      BY <1>1, <1>5 DEF coords
    <3>2. \A i, j \in DOMAIN OpeningCoords(numbers, type) :
            OpeningCoords(numbers, type)[i] = OpeningCoords(numbers, type)[j] => i = j
      BY <2>1 DEF coords
    <3> HIDE DEF numbers
    <3> QED
      BY <3>1, <3>2, OpeningRecorded, Zenon DEF coords
  <2> QED
    BY <1>1, <2>2
<1>8. \A i \in 1 .. n : PosFromMove(read.hist[i]) = PosFromMove(p.hist[i])
  BY <1>3, <1>7 DEF Point
<1>9. read = p
  <2> HIDE DEF read
  <2> QED
    BY <1>7, <1>8, SameHistory DEF n
<1> QED
  BY <1>5, <1>9

-----------------------------------------------------------------------------
\* Answers are numbers that five bits and the margin can hold.
AnswersInMargin == Answer \subseteq Margin \X Margin

\* The lines are numbers, and those that fit name no point twice.
OpeningsOnce ==
  \A line \in Opening :
    LET coords == OpeningCoords(line.numbers, line.type)
    IN  /\ line.numbers \in Seq(Int)
        /\ OpeningFits(line.numbers, line.type) =>
             \A i, j \in DOMAIN coords : coords[i] = coords[j] => i = j

LEMMA LoadedRecorded ==
  ASSUME OpeningsOnce, Init
  PROVE  IInv
<1>1. PICK line \in Opening, round \in Round :
        IF OpeningFits(line.numbers, line.type)
          THEN pos = Transform(ApplyOpening(line.numbers, line.type), round % NB_TRANS)
          ELSE pos = NewBoard
  BY DEF Init
<1>2. round % NB_TRANS \in Transforms
  <2>1. round \in Nat
    BY BoardPlayAssumption
  <2> QED
    BY <2>1 DEF NB_TRANS, Transforms
<1>3. Recorded(pos)
  <2>1. CASE OpeningFits(line.numbers, line.type)
    <3>1. Recorded(ApplyOpening(line.numbers, line.type))
      <4>1. OpeningCoords(line.numbers, line.type) \in Seq(Int \X Int)
      BY CoordsType DEF OpeningsOnce
    <4> QED
      BY <2>1, <4>1, OpeningRecorded DEF OpeningsOnce
    <3> QED
      BY <1>1, <1>2, <2>1, <3>1, TransformRecorded
  <2>2. CASE ~OpeningFits(line.numbers, line.type)
    BY <1>1, <2>2, NewBoardRecorded
  <2> QED
    BY <2>1, <2>2
<1>4. ply = 0
  BY DEF Init
<1> QED
  BY <1>3, <1>4 DEF IInv

(***************************************************************************)
(* An answer that is not refused is a point of the board that is free.     *)
(***************************************************************************)
LEMMA AnswerRecorded ==
  ASSUME IInv, NEW x \in Margin, NEW y \in Margin, Answers(x, y)
  PROVE  IInv'
<1> DEFINE m == AnswerMove(pos, x, y)
           q == POS(x, y)
<1>1. CASE UNCHANGED <<pos, played, ply>>
  BY <1>1 DEF IInv
<1>2. CASE /\ ~Refuses(m) /\ pos' = Move(pos, m) /\ played' = m /\ ply' = ply + 1
  <2>1. /\ Recorded(pos) /\ ply \in Nat
        /\ pos.hist \in Seq(PointMove) /\ pos.turn \in Side
    BY RecordedType DEF IInv
  <2>2. m = BuildMovePos(q, pos.turn)
    BY DEF AnswerMove, BuildMove
  <2>3. q \in PosBits
    BY PointOf, Zenon
  <2> HIDE DEF q, m
  <2>4. PosFromMove(m) = q
    BY <2>1, <2>2, <2>3, MoveParts, Zenon
  <2>5. q \in Square /\ pos.board[q] = EMPTY
    BY <1>2, <2>4 DEF Refuses, IsLegalMove, At, EMPTY, WALL
  <2>6. Recorded(pos')
    BY <1>2, <2>1, <2>2, <2>5, MoveRecorded
  <2>7. m \in PointMove
    BY <2>1, <2>2, <2>5 DEF PointMove
  <2>8. pos'.hist = Append(pos.hist, m)
    BY <1>2 DEF Move
  <2>9. pos'.hist # <<>> /\ m = pos'.hist[Len(pos'.hist)]
    BY <2>1, <2>7, <2>8, AppendProperties
  <2> QED
    BY <1>2, <2>1, <2>6, <2>9 DEF IInv
<1> QED
  BY <1>1, <1>2 DEF Answers, Finish

(***************************************************************************)
(* Every step keeps the records.                                           *)
(***************************************************************************)
LEMMA StepRecorded ==
  ASSUME AnswersInMargin, IInv, [Next]_vars
  PROVE  IInv'
<1>1. CASE UNCHANGED <<pos, played, ply>>
  BY <1>1 DEF IInv
<1>2. CASE ApplyRules
  BY <1>1, <1>2 DEF ApplyRules, Finish
<1>3. CASE \E xy \in Answer : Answers(xy[1], xy[2])
  <2>1. PICK xy \in Answer : Answers(xy[1], xy[2])
    BY <1>3
  <2>2. xy[1] \in Margin /\ xy[2] \in Margin
    BY DEF AnswersInMargin
  <2> QED
    BY <2>1, <2>2, AnswerRecorded
<1> QED
  BY <1>1, <1>2, <1>3 DEF Next, Over, vars

(***************************************************************************)
(* What the invariant says of the four parts of BoardIsHistory.            *)
(***************************************************************************)
LEMMA RecordsAgree ==
  ASSUME IInv
  PROVE  BoardIsHistory
<1>1. /\ Recorded(pos)
      /\ ply > 0 => pos.hist # <<>> /\ played = pos.hist[Len(pos.hist)]
  BY DEF IInv
<1>2. /\ DOMAIN pos.hist = 1 .. Len(pos.hist)
      /\ pos.turn = Len(pos.hist) % 2
      /\ \A i \in 1 .. Len(pos.hist) :
           /\ PosFromMove(pos.hist[i]) \in Square
           /\ ColorFromMove(pos.hist[i]) = (i - 1) % 2
           /\ pos.board[PosFromMove(pos.hist[i])] = (i - 1) % 2
  BY <1>1, RecordedType, Zenon
<1>3. ASSUME NEW i \in DOMAIN pos.hist
      PROVE  /\ ColorFromMove(pos.hist[i]) = (i - 1) % 2
             /\ At(pos.board, MovePoint(pos.hist[i])) = (i - 1) % 2
  BY <1>2 DEF At, MovePoint
<1>4. Cardinality(Square \ Free(pos.board)) = Len(pos.hist)
  BY <1>1, StonesCounted
<1>5. ASSUME ply > 0
      PROVE  /\ Move(Undo(pos), played) = pos
             /\ At(Undo(pos).board, MovePoint(played)) = EMPTY
  BY <1>1, <1>5, UndoMove DEF MovePoint
<1> QED
  BY <1>2, <1>3, <1>4, <1>5, Zenon DEF BoardIsHistory

(***************************************************************************)
(* BoardIsHistory on a board of any size, for any opening file, transforms,*)
(* rule and answers: board[], the history and the side to move are three   *)
(* views of one game, and undo takes back the last move of it.  The two    *)
(* hypotheses are not checked by the code: move() looks at no point of an  *)
(* opening, and gomostr_to_move keeps eight bits of a number.              *)
(***************************************************************************)
THEOREM TwoRecordsAgree ==
  ASSUME AnswersInMargin, OpeningsOnce
  PROVE  Spec => []BoardIsHistory
<1>1. Init => IInv
  BY LoadedRecorded
<1>2. IInv /\ [Next]_vars => IInv'
  BY StepRecorded
<1>3. IInv => BoardIsHistory
  BY RecordsAgree
<1> QED
  BY <1>1, <1>2, <1>3, PTL DEF Spec

(***************************************************************************)
(* OffBoardIsIllegal for the answers that the margin holds: what the       *)
(* assertion of gomostr_to_move says can fail only outside of it.          *)
(***************************************************************************)
THEOREM MarginIsIllegal ==
  ASSUME AnswersInMargin, OpeningsOnce
  PROVE  Spec => []OffBoardIsIllegal
<1>1. ASSUME IInv, NEW xy \in Answer, ~Refuses(AnswerMove(pos, xy[1], xy[2]))
      PROVE  xy \in Coord \X Coord
  <2>1. PICK x \in Margin, y \in Margin : xy = <<x, y>>
    BY DEF AnswersInMargin
  <2> DEFINE q == POS(x, y)
             m == AnswerMove(pos, x, y)
  <2>2. pos.turn \in Side
    BY <1>1, RecordedType DEF IInv
  <2>3. q \in PosBits /\ CoordX(q) = x /\ CoordY(q) = y
    BY PointOf, Zenon
  <2>4. m = BuildMovePos(q, pos.turn)
    BY DEF AnswerMove, BuildMove
  <2> HIDE DEF q, m
  <2>5. PosFromMove(m) = q
    BY <2>2, <2>3, <2>4, MoveParts, Zenon
  <2>6. ~Refuses(m)
    BY <1>1, <2>1 DEF m
  <2>7. q \in Square
    BY <2>5, <2>6 DEF Refuses, IsLegalMove, At, EMPTY, WALL
  <2>8. x \in Coord /\ y \in Coord
    BY <2>3, <2>7, SquarePoint
  <2> QED
    BY <2>1, <2>8
<1>2. IInv => OffBoardIsIllegal
  BY <1>1 DEF OffBoardIsIllegal
<1>3. Init => IInv
  BY LoadedRecorded
<1>4. IInv /\ [Next]_vars => IInv'
  BY StepRecorded
<1> QED
  BY <1>2, <1>3, <1>4, PTL DEF Spec
(***************************************************************************)
(* OpeningReadBack for every position of every game: what to_opening_str   *)
(* prints, in either notation, is the opening of the same position, stones,*)
(* history and side to move.                                               *)
(***************************************************************************)
THEOREM PositionsReadBack ==
  ASSUME AnswersInMargin, OpeningsOnce
  PROVE  Spec => []OpeningReadBack
<1>1. Init => IInv
  BY LoadedRecorded
<1>2. IInv /\ [Next]_vars => IInv'
  BY StepRecorded
<1>3. IInv => OpeningReadBack
  BY ReadBack DEF IInv, OpeningReadBack
<1> QED
  BY <1>1, <1>2, <1>3, PTL DEF Spec

-----------------------------------------------------------------------------
\* Differences of neighbouring points, one for each direction
Steps == {1, 32, 33, -31}

\* A line of the scan is all points of the board in steps of e.
Shaped(line, e) ==
  /\ Len(line) \in Nat \ {0} /\ DOMAIN line = 1 .. Len(line)
  /\ \A i \in 1 .. Len(line) : line[i] \in Square
  /\ \A i, j \in 1 .. Len(line) : line[j] = line[i] + (j - i) * e
  /\ line[1] - e \notin Square /\ line[Len(line)] + e \notin Square

(***************************************************************************)
(* Points as numbers; a point of the margin is none of the board.          *)
(***************************************************************************)
LEMMA PosValue ==
  ASSUME NEW x \in Margin, NEW y \in Margin
  PROVE  /\ POS(x, y) = ((32 * x) + y) + 165
         /\ POS(x, y) \in Square <=> x \in Coord /\ y \in Coord
<1>1. Byte(Byte(x) + 5) = x + 5 /\ Byte(Byte(y) + 5) = y + 5
  BY SMT DEF Byte, Margin
<1>2. Byte(x + 5) = x + 5 /\ Byte(y + 5) = y + 5
  BY SMT DEF Byte, Margin
<1>3. POS(x, y) = (x + 5) * 32 + (y + 5)
  BY <1>1, <1>2 DEF POS, POS_RAW, Margin
<1>4. CoordX(POS(x, y)) = x /\ CoordY(POS(x, y)) = y
  BY PointOf, Zenon
<1>5. ASSUME x \in Coord, y \in Coord
      PROVE  POS(x, y) \in Square
  BY <1>5 DEF Square
<1>6. POS(x, y) = ((32 * x) + y) + 165
  BY <1>3 DEF Margin
<1>7. POS(x, y) \in Square => x \in Coord /\ y \in Coord
  BY <1>4, SquarePoint, Zenon
<1> QED
  BY <1>5, <1>6, <1>7, Zenon

\* Points in steps of e from one outside of the board to the next outside.
Crosses(X, Y, n, e) ==
  /\ n \in Nat \ {0} /\ e \in Int
  /\ X \in [0 .. n + 1 -> Margin] /\ Y \in [0 .. n + 1 -> Margin]
  /\ \A i \in 1 .. n : X[i] \in Coord /\ Y[i] \in Coord
  /\ X[0] \notin Coord \/ Y[0] \notin Coord
  /\ X[n + 1] \notin Coord \/ Y[n + 1] \notin Coord
  /\ \A i, j \in 0 .. n + 1 :
       (32 * X[j]) + Y[j] = ((32 * X[i]) + Y[i]) + ((j - i) * e)

(***************************************************************************)
(* The points that one of the loops visits, and those before and after.    *)
(***************************************************************************)
LEMMA LineShaped ==
  ASSUME NEW X, NEW Y, NEW n, NEW e, Crosses(X, Y, n, e),
         NEW line, line = [i \in 1 .. n |-> POS(X[i], Y[i])]
  PROVE  Shaped(line, e) /\ Len(line) = n
<1> DEFINE P(i) == POS(X[i], Y[i])
<1>1. n \in Nat \ {0} /\ e \in Int
  BY DEF Crosses
<1>2. Len(line) = n /\ DOMAIN line = 1 .. n /\ \A i \in 1 .. n : line[i] = P(i)
  BY <1>1
<1>3. ASSUME NEW i \in 0 .. n + 1
      PROVE  /\ X[i] \in Int /\ Y[i] \in Int
             /\ P(i) = ((32 * X[i]) + Y[i]) + 165
             /\ P(i) \in Square <=> X[i] \in Coord /\ Y[i] \in Coord
  <2>1. X[i] \in Margin /\ Y[i] \in Margin
    BY DEF Crosses
  <2>2. X[i] \in Int /\ Y[i] \in Int
    <3>1. \A z \in Margin : z \in Int
      BY DEF Margin
    <3> QED
      BY <2>1, <3>1, Zenon
  <2> QED
    BY <2>1, <2>2, PosValue, Zenon
<1>4. ASSUME NEW i \in 0 .. n + 1, NEW j \in 0 .. n + 1
      PROVE  P(i) \in Int /\ P(j) = P(i) + ((j - i) * e)
  <2>1. (32 * X[j]) + Y[j] = ((32 * X[i]) + Y[i]) + ((j - i) * e) /\ (j - i) * e \in Int
    BY <1>1 DEF Crosses
  <2>2. /\ X[i] \in Int /\ Y[i] \in Int /\ X[j] \in Int /\ Y[j] \in Int
        /\ P(i) = ((32 * X[i]) + Y[i]) + 165 /\ P(j) = ((32 * X[j]) + Y[j]) + 165
    BY <1>3, Zenon
  <2> DEFINE u == (32 * X[i]) + Y[i]
             v == (32 * X[j]) + Y[j]
             w == (j - i) * e
  <2> HIDE DEF P
  <2>3. /\ u \in Int /\ v \in Int /\ w \in Int /\ v = u + w
        /\ P(i) = u + 165 /\ P(j) = v + 165
    <3>1. u \in Int /\ v \in Int
      <4>1. X[i] \in Int /\ Y[i] \in Int /\ X[j] \in Int /\ Y[j] \in Int
        BY <2>2
      <4> QED
        BY ONLY <4>1
    <3>2. P(i) = u + 165 /\ P(j) = v + 165
      BY <2>2
    <3>3. w \in Int /\ v = u + w
      BY <2>1
    <3> QED
      BY <3>1, <3>2, <3>3
  <2> HIDE DEF u, v
  <2>4. u + 165 \in Int /\ v + 165 = (u + 165) + w
    <3> HIDE DEF w
    <3> QED
      BY ONLY <2>3
  <2> QED
    BY <2>3, <2>4, Zenon
<1>5. ASSUME NEW i \in 1 .. n
      PROVE  P(i) \in Square
  <2>1. i \in 0 .. n + 1
    BY <1>1
  <2>2. X[i] \in Coord /\ Y[i] \in Coord
    BY DEF Crosses
  <2> QED
    BY <1>3, <2>1, <2>2, Zenon
<1>6. P(0) \notin Square /\ P(n + 1) \notin Square
  <2>1. 0 \in 0 .. n + 1 /\ n + 1 \in 0 .. n + 1
    BY <1>1
  <2> QED
    BY <1>3, <2>1 DEF Crosses
<1> HIDE DEF P
<1>7. /\ \A i \in 1 .. n : line[i] \in Square
      /\ \A i, j \in 1 .. n : line[j] = line[i] + ((j - i) * e)
  <2>1. \A i \in 1 .. n : i \in 0 .. n + 1
    BY <1>1
  <2> QED
    BY <1>2, <1>4, <1>5, <2>1, Zenon
<1>8. P(0) = line[1] - e /\ P(n + 1) = line[n] + e
  <2>1. /\ 0 \in 0 .. n + 1 /\ 1 \in 0 .. n + 1 /\ n \in 0 .. n + 1 /\ n + 1 \in 0 .. n + 1
        /\ 1 \in 1 .. n /\ n \in 1 .. n
        /\ (0 - 1) * e = -e /\ ((n + 1) - n) * e = e
    BY <1>1
  <2>2. /\ P(1) \in Int /\ P(0) = P(1) + ((0 - 1) * e)
        /\ P(n) \in Int /\ P(n + 1) = P(n) + (((n + 1) - n) * e)
    BY <1>4, <2>1
  <2>3. P(0) = P(1) - e /\ P(n + 1) = P(n) + e
    BY <1>1, <2>1, <2>2
  <2> QED
    BY <1>2, <2>1, <2>3
<1> QED
  BY <1>1, <1>2, <1>6, <1>7, <1>8 DEF Shaped

(***************************************************************************)
(* The six loops: columns, rows, and the diagonals from two edges each.    *)
(***************************************************************************)
LEMMA Columns ==
  ASSUME NEW i \in Coord
  PROVE  LET line == Line(i, 0, 0, 1, Size)
         IN  /\ Shaped(line, 1) /\ Len(line) = Size
             /\ \A k \in 1 .. Size : line[k] = POS(i, k - 1)
<1> DEFINE n == Size
           X == [k \in 0 .. n + 1 |-> i]
           Y == [k \in 0 .. n + 1 |-> k - 1]
           line == Line(i, 0, 0, 1, Size)
<1>1. i \in 0 .. Size - 1 /\ Size \in 5 .. 22 /\ n \in 1 .. Size
  BY SizeAssumption DEF Coord
<1>2. line = [k \in 1 .. n |-> POS(i, k - 1)]
  <2>1. \A k \in 1 .. n : (i) + (k - 1) * (0) = i /\ (0) + (k - 1) * (1) = k - 1
    BY <1>1
  <2> QED
    BY <2>1 DEF Line
<1>3. Crosses(X, Y, n, 1)
  <2>1. \A k \in 0 .. n + 1 : i \in Margin /\ k - 1 \in Margin
    BY <1>1 DEF Margin
  <2>2. X \in [0 .. n + 1 -> Margin] /\ Y \in [0 .. n + 1 -> Margin]
    BY <2>1
  <2>3. \A k \in 1 .. n : X[k] \in Coord /\ Y[k] \in Coord
    <3>1. \A k \in 1 .. n : i \in Coord /\ k - 1 \in Coord
      BY <1>1 DEF Coord
    <3>2. \A k \in 1 .. n : X[k] = i /\ Y[k] = k - 1
      BY <1>1
    <3> QED
      BY <3>1, <3>2, Zenon
  <2>4. /\ X[0] \notin Coord \/ Y[0] \notin Coord
        /\ X[n + 1] \notin Coord \/ Y[n + 1] \notin Coord
    BY <1>1 DEF Coord
  <2>5. \A k \in 0 .. n + 1 : X[k] = i /\ Y[k] = k - 1
    OBVIOUS
  <2> HIDE DEF X, Y
  <2>6. \A k, m \in 0 .. n + 1 :
          (32 * X[m]) + Y[m] = ((32 * X[k]) + Y[k]) + ((m - k) * (1))
    <3>1. ASSUME NEW k \in 0 .. n + 1, NEW m \in 0 .. n + 1
          PROVE  (32 * X[m]) + Y[m] = ((32 * X[k]) + Y[k]) + ((m - k) * (1))
      <4>1. k \in Int /\ m \in Int /\ i \in Int /\ Size \in Int
        BY <1>1
      <4>2. X[k] = i /\ Y[k] = k - 1 /\ X[m] = i /\ Y[m] = m - 1
        BY <2>5
      <4> QED
        BY ONLY <4>1, <4>2
    <3> QED
      BY <3>1
  <2>7. n \in Nat \ {0} /\ 1 \in Int
    BY <1>1
  <2> HIDE DEF n
  <2> QED
    BY <2>2, <2>3, <2>4, <2>6, <2>7, Zenon DEF Crosses
<1>4. line = [k \in 1 .. n |-> POS(X[k], Y[k])]
  <2>1. \A k \in 1 .. n : k \in 0 .. n + 1
    BY <1>1
  <2> HIDE DEF n, line
  <2> QED
    BY <1>2, <2>1
<1>5. \A k \in 1 .. n : line[k] = POS(i, k - 1)
  BY <1>2
<1> HIDE DEF X, Y, line
<1>6. Shaped(line, 1) /\ Len(line) = n
  BY <1>3, <1>4, LineShaped
<1> QED
  BY <1>5, <1>6 DEF line

LEMMA Rows ==
  ASSUME NEW j \in Coord
  PROVE  LET line == Line(0, j, 1, 0, Size)
         IN  /\ Shaped(line, 32) /\ Len(line) = Size
             /\ \A k \in 1 .. Size : line[k] = POS(k - 1, j)
<1> DEFINE n == Size
           X == [k \in 0 .. n + 1 |-> k - 1]
           Y == [k \in 0 .. n + 1 |-> j]
           line == Line(0, j, 1, 0, Size)
<1>1. j \in 0 .. Size - 1 /\ Size \in 5 .. 22 /\ n \in 1 .. Size
  BY SizeAssumption DEF Coord
<1>2. line = [k \in 1 .. n |-> POS(k - 1, j)]
  <2>1. \A k \in 1 .. n : (0) + (k - 1) * (1) = k - 1 /\ (j) + (k - 1) * (0) = j
    BY <1>1
  <2> QED
    BY <2>1 DEF Line
<1>3. Crosses(X, Y, n, 32)
  <2>1. \A k \in 0 .. n + 1 : k - 1 \in Margin /\ j \in Margin
    BY <1>1 DEF Margin
  <2>2. X \in [0 .. n + 1 -> Margin] /\ Y \in [0 .. n + 1 -> Margin]
    BY <2>1
  <2>3. \A k \in 1 .. n : X[k] \in Coord /\ Y[k] \in Coord
    <3>1. \A k \in 1 .. n : k - 1 \in Coord /\ j \in Coord
      BY <1>1 DEF Coord
    <3>2. \A k \in 1 .. n : X[k] = k - 1 /\ Y[k] = j
      BY <1>1
    <3> QED
      BY <3>1, <3>2, Zenon
  <2>4. /\ X[0] \notin Coord \/ Y[0] \notin Coord
        /\ X[n + 1] \notin Coord \/ Y[n + 1] \notin Coord
    BY <1>1 DEF Coord
  <2>5. \A k \in 0 .. n + 1 : X[k] = k - 1 /\ Y[k] = j
    OBVIOUS
  <2> HIDE DEF X, Y
  <2>6. \A k, m \in 0 .. n + 1 :
          (32 * X[m]) + Y[m] = ((32 * X[k]) + Y[k]) + ((m - k) * (32))
    <3>1. ASSUME NEW k \in 0 .. n + 1, NEW m \in 0 .. n + 1
          PROVE  (32 * X[m]) + Y[m] = ((32 * X[k]) + Y[k]) + ((m - k) * (32))
      <4>1. k \in Int /\ m \in Int /\ j \in Int /\ Size \in Int
        BY <1>1
      <4>2. X[k] = k - 1 /\ Y[k] = j /\ X[m] = m - 1 /\ Y[m] = j
        BY <2>5
      <4> QED
        BY ONLY <4>1, <4>2
    <3> QED
      BY <3>1
  <2>7. n \in Nat \ {0} /\ 32 \in Int
    BY <1>1
  <2> HIDE DEF n
  <2> QED
    BY <2>2, <2>3, <2>4, <2>6, <2>7, Zenon DEF Crosses
<1>4. line = [k \in 1 .. n |-> POS(X[k], Y[k])]
  <2>1. \A k \in 1 .. n : k \in 0 .. n + 1
    BY <1>1
  <2> HIDE DEF n, line
  <2> QED
    BY <1>2, <2>1
<1>5. \A k \in 1 .. n : line[k] = POS(k - 1, j)
  BY <1>2
<1> HIDE DEF X, Y, line
<1>6. Shaped(line, 32) /\ Len(line) = n
  BY <1>3, <1>4, LineShaped
<1> QED
  BY <1>5, <1>6 DEF line

LEMMA DiagonalsFromColumn ==
  ASSUME NEW j \in Coord
  PROVE  LET line == Line(0, j, 1, 1, Size - j)
         IN  /\ Shaped(line, 33) /\ Len(line) = Size - j
             /\ \A k \in 1 .. Size - j : line[k] = POS(k - 1, j + (k - 1))
<1> DEFINE n == Size - j
           X == [k \in 0 .. n + 1 |-> k - 1]
           Y == [k \in 0 .. n + 1 |-> j + (k - 1)]
           line == Line(0, j, 1, 1, Size - j)
<1>1. j \in 0 .. Size - 1 /\ Size \in 5 .. 22 /\ n \in 1 .. Size
  BY SizeAssumption DEF Coord
<1>2. line = [k \in 1 .. n |-> POS(k - 1, j + (k - 1))]
  <2>1. \A k \in 1 .. n : (0) + (k - 1) * (1) = k - 1 /\ (j) + (k - 1) * (1) = j + (k - 1)
    BY <1>1
  <2> QED
    BY <2>1 DEF Line
<1>3. Crosses(X, Y, n, 33)
  <2>1. \A k \in 0 .. n + 1 : k - 1 \in Margin /\ j + (k - 1) \in Margin
    BY <1>1 DEF Margin
  <2>2. X \in [0 .. n + 1 -> Margin] /\ Y \in [0 .. n + 1 -> Margin]
    BY <2>1
  <2>3. \A k \in 1 .. n : X[k] \in Coord /\ Y[k] \in Coord
    <3>1. \A k \in 1 .. n : k - 1 \in Coord /\ j + (k - 1) \in Coord
      BY <1>1 DEF Coord
    <3>2. \A k \in 1 .. n : X[k] = k - 1 /\ Y[k] = j + (k - 1)
      BY <1>1
    <3> QED
      BY <3>1, <3>2, Zenon
  <2>4. /\ X[0] \notin Coord \/ Y[0] \notin Coord
        /\ X[n + 1] \notin Coord \/ Y[n + 1] \notin Coord
    BY <1>1 DEF Coord
  <2>5. \A k \in 0 .. n + 1 : X[k] = k - 1 /\ Y[k] = j + (k - 1)
    OBVIOUS
  <2> HIDE DEF X, Y
  <2>6. \A k, m \in 0 .. n + 1 :
          (32 * X[m]) + Y[m] = ((32 * X[k]) + Y[k]) + ((m - k) * (33))
    <3>1. ASSUME NEW k \in 0 .. n + 1, NEW m \in 0 .. n + 1
          PROVE  (32 * X[m]) + Y[m] = ((32 * X[k]) + Y[k]) + ((m - k) * (33))
      <4>1. k \in Int /\ m \in Int /\ j \in Int /\ Size \in Int
        BY <1>1
      <4>2. X[k] = k - 1 /\ Y[k] = j + (k - 1) /\ X[m] = m - 1 /\ Y[m] = j + (m - 1)
        BY <2>5
      <4> QED
        BY ONLY <4>1, <4>2
    <3> QED
      BY <3>1
  <2>7. n \in Nat \ {0} /\ 33 \in Int
    BY <1>1
  <2> HIDE DEF n
  <2> QED
    BY <2>2, <2>3, <2>4, <2>6, <2>7, Zenon DEF Crosses
<1>4. line = [k \in 1 .. n |-> POS(X[k], Y[k])]
  <2>1. \A k \in 1 .. n : k \in 0 .. n + 1
    BY <1>1
  <2> HIDE DEF n, line
  <2> QED
    BY <1>2, <2>1
<1>5. \A k \in 1 .. n : line[k] = POS(k - 1, j + (k - 1))
  BY <1>2
<1> HIDE DEF X, Y, line
<1>6. Shaped(line, 33) /\ Len(line) = n
  BY <1>3, <1>4, LineShaped
<1> QED
  BY <1>5, <1>6 DEF line

LEMMA DiagonalsFromRow ==
  ASSUME NEW i \in Coord
  PROVE  LET line == Line(i, 0, 1, 1, Size - i)
         IN  /\ Shaped(line, 33) /\ Len(line) = Size - i
             /\ \A k \in 1 .. Size - i : line[k] = POS(i + (k - 1), k - 1)
<1> DEFINE n == Size - i
           X == [k \in 0 .. n + 1 |-> i + (k - 1)]
           Y == [k \in 0 .. n + 1 |-> k - 1]
           line == Line(i, 0, 1, 1, Size - i)
<1>1. i \in 0 .. Size - 1 /\ Size \in 5 .. 22 /\ n \in 1 .. Size
  BY SizeAssumption DEF Coord
<1>2. line = [k \in 1 .. n |-> POS(i + (k - 1), k - 1)]
  <2>1. \A k \in 1 .. n : (i) + (k - 1) * (1) = i + (k - 1) /\ (0) + (k - 1) * (1) = k - 1
    BY <1>1
  <2> QED
    BY <2>1 DEF Line
<1>3. Crosses(X, Y, n, 33)
  <2>1. \A k \in 0 .. n + 1 : i + (k - 1) \in Margin /\ k - 1 \in Margin
    BY <1>1 DEF Margin
  <2>2. X \in [0 .. n + 1 -> Margin] /\ Y \in [0 .. n + 1 -> Margin]
    BY <2>1
  <2>3. \A k \in 1 .. n : X[k] \in Coord /\ Y[k] \in Coord
    <3>1. \A k \in 1 .. n : i + (k - 1) \in Coord /\ k - 1 \in Coord
      BY <1>1 DEF Coord
    <3>2. \A k \in 1 .. n : X[k] = i + (k - 1) /\ Y[k] = k - 1
      BY <1>1
    <3> QED
      BY <3>1, <3>2, Zenon
  <2>4. /\ X[0] \notin Coord \/ Y[0] \notin Coord
        /\ X[n + 1] \notin Coord \/ Y[n + 1] \notin Coord
    BY <1>1 DEF Coord
  <2>5. \A k \in 0 .. n + 1 : X[k] = i + (k - 1) /\ Y[k] = k - 1
    OBVIOUS
  <2> HIDE DEF X, Y
  <2>6. \A k, m \in 0 .. n + 1 :
          (32 * X[m]) + Y[m] = ((32 * X[k]) + Y[k]) + ((m - k) * (33))
    <3>1. ASSUME NEW k \in 0 .. n + 1, NEW m \in 0 .. n + 1
          PROVE  (32 * X[m]) + Y[m] = ((32 * X[k]) + Y[k]) + ((m - k) * (33))
      <4>1. k \in Int /\ m \in Int /\ i \in Int /\ Size \in Int
        BY <1>1
      <4>2. X[k] = i + (k - 1) /\ Y[k] = k - 1 /\ X[m] = i + (m - 1) /\ Y[m] = m - 1
        BY <2>5
      <4> QED
        BY ONLY <4>1, <4>2
    <3> QED
      BY <3>1
  <2>7. n \in Nat \ {0} /\ 33 \in Int
    BY <1>1
  <2> HIDE DEF n
  <2> QED
    BY <2>2, <2>3, <2>4, <2>6, <2>7, Zenon DEF Crosses
<1>4. line = [k \in 1 .. n |-> POS(X[k], Y[k])]
  <2>1. \A k \in 1 .. n : k \in 0 .. n + 1
    BY <1>1
  <2> HIDE DEF n, line
  <2> QED
    BY <1>2, <2>1
<1>5. \A k \in 1 .. n : line[k] = POS(i + (k - 1), k - 1)
  BY <1>2
<1> HIDE DEF X, Y, line
<1>6. Shaped(line, 33) /\ Len(line) = n
  BY <1>3, <1>4, LineShaped
<1> QED
  BY <1>5, <1>6 DEF line

LEMMA CounterFromRow ==
  ASSUME NEW i \in Coord
  PROVE  LET line == Line(i, 0, -1, 1, i + 1)
         IN  /\ Shaped(line, -31) /\ Len(line) = i + 1
             /\ \A k \in 1 .. i + 1 : line[k] = POS(i - (k - 1), k - 1)
<1> DEFINE n == i + 1
           X == [k \in 0 .. n + 1 |-> i - (k - 1)]
           Y == [k \in 0 .. n + 1 |-> k - 1]
           line == Line(i, 0, -1, 1, i + 1)
<1>1. i \in 0 .. Size - 1 /\ Size \in 5 .. 22 /\ n \in 1 .. Size
  BY SizeAssumption DEF Coord
<1>2. line = [k \in 1 .. n |-> POS(i - (k - 1), k - 1)]
  <2>1. \A k \in 1 .. n : (i) + (k - 1) * (-1) = i - (k - 1) /\ (0) + (k - 1) * (1) = k - 1
    BY <1>1
  <2> QED
    BY <2>1 DEF Line
<1>3. Crosses(X, Y, n, -31)
  <2>1. \A k \in 0 .. n + 1 : i - (k - 1) \in Margin /\ k - 1 \in Margin
    BY <1>1 DEF Margin
  <2>2. X \in [0 .. n + 1 -> Margin] /\ Y \in [0 .. n + 1 -> Margin]
    BY <2>1
  <2>3. \A k \in 1 .. n : X[k] \in Coord /\ Y[k] \in Coord
    <3>1. \A k \in 1 .. n : i - (k - 1) \in Coord /\ k - 1 \in Coord
      BY <1>1 DEF Coord
    <3>2. \A k \in 1 .. n : X[k] = i - (k - 1) /\ Y[k] = k - 1
      BY <1>1
    <3> QED
      BY <3>1, <3>2, Zenon
  <2>4. /\ X[0] \notin Coord \/ Y[0] \notin Coord
        /\ X[n + 1] \notin Coord \/ Y[n + 1] \notin Coord
    BY <1>1 DEF Coord
  <2>5. \A k \in 0 .. n + 1 : X[k] = i - (k - 1) /\ Y[k] = k - 1
    OBVIOUS
  <2> HIDE DEF X, Y
  <2>6. \A k, m \in 0 .. n + 1 :
          (32 * X[m]) + Y[m] = ((32 * X[k]) + Y[k]) + ((m - k) * (-31))
    <3>1. ASSUME NEW k \in 0 .. n + 1, NEW m \in 0 .. n + 1
          PROVE  (32 * X[m]) + Y[m] = ((32 * X[k]) + Y[k]) + ((m - k) * (-31))
      <4>1. k \in Int /\ m \in Int /\ i \in Int /\ Size \in Int
        BY <1>1
      <4>2. X[k] = i - (k - 1) /\ Y[k] = k - 1 /\ X[m] = i - (m - 1) /\ Y[m] = m - 1
        BY <2>5
      <4> QED
        BY ONLY <4>1, <4>2
    <3> QED
      BY <3>1
  <2>7. n \in Nat \ {0} /\ -31 \in Int
    BY <1>1
  <2> HIDE DEF n
  <2> QED
    BY <2>2, <2>3, <2>4, <2>6, <2>7, Zenon DEF Crosses
<1>4. line = [k \in 1 .. n |-> POS(X[k], Y[k])]
  <2>1. \A k \in 1 .. n : k \in 0 .. n + 1
    BY <1>1
  <2> HIDE DEF n, line
  <2> QED
    BY <1>2, <2>1
<1>5. \A k \in 1 .. n : line[k] = POS(i - (k - 1), k - 1)
  BY <1>2
<1> HIDE DEF X, Y, line
<1>6. Shaped(line, -31) /\ Len(line) = n
  BY <1>3, <1>4, LineShaped
<1> QED
  BY <1>5, <1>6 DEF line

LEMMA CounterFromEdge ==
  ASSUME NEW j \in Coord
  PROVE  LET line == Line(Size - 1, j, -1, 1, Size - j)
         IN  /\ Shaped(line, -31) /\ Len(line) = Size - j
             /\ \A k \in 1 .. Size - j : line[k] = POS((Size - 1) - (k - 1), j + (k - 1))
<1> DEFINE n == Size - j
           X == [k \in 0 .. n + 1 |-> (Size - 1) - (k - 1)]
           Y == [k \in 0 .. n + 1 |-> j + (k - 1)]
           line == Line(Size - 1, j, -1, 1, Size - j)
<1>1. j \in 0 .. Size - 1 /\ Size \in 5 .. 22 /\ n \in 1 .. Size
  BY SizeAssumption DEF Coord
<1>2. line = [k \in 1 .. n |-> POS((Size - 1) - (k - 1), j + (k - 1))]
  <2>1. \A k \in 1 .. n : (Size - 1) + (k - 1) * (-1) = (Size - 1) - (k - 1) /\ (j) + (k - 1) * (1) = j + (k - 1)
    BY <1>1
  <2> QED
    BY <2>1 DEF Line
<1>3. Crosses(X, Y, n, -31)
  <2>1. \A k \in 0 .. n + 1 : (Size - 1) - (k - 1) \in Margin /\ j + (k - 1) \in Margin
    BY <1>1 DEF Margin
  <2>2. X \in [0 .. n + 1 -> Margin] /\ Y \in [0 .. n + 1 -> Margin]
    BY <2>1
  <2>3. \A k \in 1 .. n : X[k] \in Coord /\ Y[k] \in Coord
    <3>1. \A k \in 1 .. n : (Size - 1) - (k - 1) \in Coord /\ j + (k - 1) \in Coord
      BY <1>1 DEF Coord
    <3>2. \A k \in 1 .. n : X[k] = (Size - 1) - (k - 1) /\ Y[k] = j + (k - 1)
      BY <1>1
    <3> QED
      BY <3>1, <3>2, Zenon
  <2>4. /\ X[0] \notin Coord \/ Y[0] \notin Coord
        /\ X[n + 1] \notin Coord \/ Y[n + 1] \notin Coord
    BY <1>1 DEF Coord
  <2>5. \A k \in 0 .. n + 1 : X[k] = (Size - 1) - (k - 1) /\ Y[k] = j + (k - 1)
    OBVIOUS
  <2> HIDE DEF X, Y
  <2>6. \A k, m \in 0 .. n + 1 :
          (32 * X[m]) + Y[m] = ((32 * X[k]) + Y[k]) + ((m - k) * (-31))
    <3>1. ASSUME NEW k \in 0 .. n + 1, NEW m \in 0 .. n + 1
          PROVE  (32 * X[m]) + Y[m] = ((32 * X[k]) + Y[k]) + ((m - k) * (-31))
      <4>1. k \in Int /\ m \in Int /\ j \in Int /\ Size \in Int
        BY <1>1
      <4>2. X[k] = (Size - 1) - (k - 1) /\ Y[k] = j + (k - 1) /\ X[m] = (Size - 1) - (m - 1) /\ Y[m] = j + (m - 1)
        BY <2>5
      <4> QED
        BY ONLY <4>1, <4>2
    <3> QED
      BY <3>1
  <2>7. n \in Nat \ {0} /\ -31 \in Int
    BY <1>1
  <2> HIDE DEF n
  <2> QED
    BY <2>2, <2>3, <2>4, <2>6, <2>7, Zenon DEF Crosses
<1>4. line = [k \in 1 .. n |-> POS(X[k], Y[k])]
  <2>1. \A k \in 1 .. n : k \in 0 .. n + 1
    BY <1>1
  <2> HIDE DEF n, line
  <2> QED
    BY <1>2, <2>1
<1>5. \A k \in 1 .. n : line[k] = POS((Size - 1) - (k - 1), j + (k - 1))
  BY <1>2
<1> HIDE DEF X, Y, line
<1>6. Shaped(line, -31) /\ Len(line) = n
  BY <1>3, <1>4, LineShaped
<1> QED
  BY <1>5, <1>6 DEF line
(***************************************************************************)
(* The scan visits the board in steps, and every point in each direction.  *)
(***************************************************************************)
LEMMA ScanLines ==
  /\ \A line \in Lines : \E e \in Steps : Shaped(line, e)
  /\ \A q \in Square, e \in Steps : \E line \in Lines :
       Shaped(line, e) /\ \E i \in 1 .. Len(line) : line[i] = q
<1>1. ASSUME NEW line \in Lines
      PROVE  \E e \in Steps : Shaped(line, e)
  <2>1. /\ \A i \in Coord : Shaped(Line(i, 0, 0, 1, Size), 1)
        /\ \A j \in Coord : Shaped(Line(0, j, 1, 0, Size), 32)
        /\ \A j \in Coord : Shaped(Line(0, j, 1, 1, Size - j), 33)
        /\ \A i \in Coord : Shaped(Line(i, 0, 1, 1, Size - i), 33)
        /\ \A i \in Coord : Shaped(Line(i, 0, -1, 1, i + 1), -31)
        /\ \A j \in Coord : Shaped(Line(Size - 1, j, -1, 1, Size - j), -31)
    BY Columns, Rows, DiagonalsFromColumn, DiagonalsFromRow, CounterFromRow, CounterFromEdge, Zenon
  <2>2. 1 \in Steps /\ 32 \in Steps /\ 33 \in Steps /\ -31 \in Steps
    BY DEF Steps
  <2>3. \/ \E i \in Coord : line = Line(i, 0, 0, 1, Size)
        \/ \E j \in Coord : line = Line(0, j, 1, 0, Size)
        \/ \E j \in Coord : line = Line(0, j, 1, 1, Size - j)
        \/ \E i \in Coord : line = Line(i, 0, 1, 1, Size - i)
        \/ \E i \in Coord : line = Line(i, 0, -1, 1, i + 1)
        \/ \E j \in Coord : line = Line(Size - 1, j, -1, 1, Size - j)
    BY Zenon DEF Lines
  <2> QED
    BY <2>1, <2>2, <2>3, Zenon
<1>2. ASSUME NEW q \in Square, NEW e \in Steps
      PROVE  \E line \in Lines : Shaped(line, e) /\ \E i \in 1 .. Len(line) : line[i] = q
  <2>1. PICK u \in Coord, v \in Coord : q = POS(u, v)
    BY DEF Square
  <2>2. u \in 0 .. Size - 1 /\ v \in 0 .. Size - 1 /\ Size \in 5 .. 22
    BY SizeAssumption DEF Coord
  <2>3. CASE e = 1
    <3> DEFINE line == Line(u, 0, 0, 1, Size)
    <3>1. Shaped(line, 1) /\ Len(line) = Size /\ \A k \in 1 .. Size : line[k] = POS(u, k - 1)
      BY Columns, Zenon
    <3>2. line \in Lines
      BY Zenon DEF Lines
    <3> HIDE DEF line
    <3>3. v + 1 \in 1 .. Size /\ (v + 1) - 1 = v
      BY <2>2
    <3> QED
      BY <2>1, <2>3, <3>1, <3>2, <3>3
  <2>4. CASE e = 32
    <3> DEFINE line == Line(0, v, 1, 0, Size)
    <3>1. Shaped(line, 32) /\ Len(line) = Size /\ \A k \in 1 .. Size : line[k] = POS(k - 1, v)
      BY Rows, Zenon
    <3>2. line \in Lines
      BY Zenon DEF Lines
    <3> HIDE DEF line
    <3>3. u + 1 \in 1 .. Size /\ (u + 1) - 1 = u
      BY <2>2
    <3> QED
      BY <2>1, <2>4, <3>1, <3>2, <3>3
  <2>5. CASE e = 33 /\ u <= v
    <3> DEFINE j == v - u
               line == Line(0, j, 1, 1, Size - j)
    <3>1. /\ j \in Coord /\ u + 1 \in 1 .. Size - j
          /\ (u + 1) - 1 = u /\ j + ((u + 1) - 1) = v
      BY <2>2, <2>5 DEF Coord
    <3> HIDE DEF j
    <3>2. /\ Shaped(line, 33) /\ Len(line) = Size - j
          /\ \A k \in 1 .. Size - j : line[k] = POS(k - 1, j + (k - 1))
      BY <3>1, DiagonalsFromColumn, Zenon
    <3>3. line \in Lines
      BY <3>1, Zenon DEF Lines
    <3> HIDE DEF line
    <3> QED
      BY <2>1, <2>5, <3>1, <3>2, <3>3
  <2>6. CASE e = 33 /\ ~(u <= v)
    <3> DEFINE j == u - v
               line == Line(j, 0, 1, 1, Size - j)
    <3>1. /\ j \in Coord /\ v + 1 \in 1 .. Size - j
          /\ (v + 1) - 1 = v /\ j + ((v + 1) - 1) = u
      BY <2>2, <2>6 DEF Coord
    <3> HIDE DEF j
    <3>2. /\ Shaped(line, 33) /\ Len(line) = Size - j
          /\ \A k \in 1 .. Size - j : line[k] = POS(j + (k - 1), k - 1)
      BY <3>1, DiagonalsFromRow, Zenon
    <3>3. line \in Lines
      BY <3>1, Zenon DEF Lines
    <3> HIDE DEF line
    <3> QED
      BY <2>1, <2>6, <3>1, <3>2, <3>3
  <2>7. CASE e = -31 /\ u + v <= Size - 1
    <3> DEFINE j == u + v
               line == Line(j, 0, -1, 1, j + 1)
    <3>1. /\ j \in Coord /\ v + 1 \in 1 .. j + 1
          /\ (v + 1) - 1 = v /\ j - ((v + 1) - 1) = u
      BY <2>2, <2>7 DEF Coord
    <3> HIDE DEF j
    <3>2. /\ Shaped(line, -31) /\ Len(line) = j + 1
          /\ \A k \in 1 .. j + 1 : line[k] = POS(j - (k - 1), k - 1)
      BY <3>1, CounterFromRow, Zenon
    <3>3. line \in Lines
      BY <3>1, Zenon DEF Lines
    <3> HIDE DEF line
    <3> QED
      BY <2>1, <2>7, <3>1, <3>2, <3>3
  <2>8. CASE e = -31 /\ ~(u + v <= Size - 1)
    <3> DEFINE j == (u + v) - (Size - 1)
               line == Line(Size - 1, j, -1, 1, Size - j)
               k == Size - u
    <3>1. /\ j \in Coord /\ k \in 1 .. Size - j
          /\ (Size - 1) - (k - 1) = u /\ j + (k - 1) = v
      BY <2>2, <2>8 DEF Coord
    <3> HIDE DEF j, k
    <3>2. /\ Shaped(line, -31) /\ Len(line) = Size - j
          /\ \A m \in 1 .. Size - j : line[m] = POS((Size - 1) - (m - 1), j + (m - 1))
      BY <3>1, CounterFromEdge, Zenon
    <3>3. line \in Lines
      BY <3>1, Zenon DEF Lines
    <3> HIDE DEF line
    <3> QED
      BY <2>1, <2>8, <3>1, <3>2, <3>3
  <2> QED
    BY <2>3, <2>4, <2>5, <2>6, <2>7, <2>8 DEF Steps
<1> QED
  BY <1>1, <1>2

(***************************************************************************)
(* What continueCount is after each point.                                 *)
(***************************************************************************)
LEMMA CountLoop ==
  ASSUME NEW b, NEW side, NEW line, NEW n \in Nat, Len(line) = n
  PROVE  \E count \in [0 .. n -> Nat] :
           /\ ContinueCounts(b, side, line) = count
           /\ count[0] = 0
           /\ \A i \in 1 .. n :
                count[i] = IF b[line[i]] # side THEN 0 ELSE count[i - 1] + 1
<1> DEFINE Defines(f) == f = [i \in 0 .. n |->
             IF i = 0 \/ b[line[i]] # side THEN 0 ELSE f[i - 1] + 1]
           step == [ci \in Nat \X (1 .. n) |->
                      IF b[line[ci[2]]] # side THEN 0 ELSE ci[1] + 1]
<1>1. ContinueCounts(b, side, line) = CHOOSE f : Defines(f)
  BY DEF ContinueCounts
<1>2. step \in [Nat \X (1 .. n) -> Nat]
  OBVIOUS
<1>3. \A c \in Nat, i \in 1 .. n :
        step[<<c, i>>] = IF b[line[i]] # side THEN 0 ELSE c + 1
  OBVIOUS
<1> HIDE DEF step
<1>4. \E f : f \in LoopRuns(Nat, 0, n, step)
  BY <1>2, LoopExists, Zenon
<1>5. PICK f \in [0 .. n -> Nat] :
        f[0] = 0 /\ \A i \in 1 .. n : f[i] = step[<<f[i - 1], i>>]
  BY <1>4 DEF LoopRuns
<1>6. ASSUME NEW i \in 1 .. n
      PROVE  f[i] = IF b[line[i]] # side THEN 0 ELSE f[i - 1] + 1
  <2>1. i - 1 \in 0 .. n
    OBVIOUS
  <2>2. f[i - 1] \in Nat
    BY <1>5, <2>1
  <2>3. f[i] = step[<<f[i - 1], i>>]
    BY <1>5, Zenon
  <2>4. step[<<f[i - 1], i>>] = IF b[line[i]] # side THEN 0 ELSE f[i - 1] + 1
    BY <1>3, <2>2, Zenon
  <2> QED
    BY ONLY <2>3, <2>4
<1>7. Defines(f)
  <2>1. \A i \in 0 .. n : i = 0 \/ i \in 1 .. n
    OBVIOUS
  <2>2. \A i \in 0 .. n : f[i] = IF i = 0 \/ b[line[i]] # side THEN 0 ELSE f[i - 1] + 1
    BY <1>5, <1>6, <2>1, Zenon
  <2> QED
    BY <1>5, <2>2
<1> DEFINE count == CHOOSE g : Defines(g)
<1>8. Defines(count)
  <2> HIDE DEF Defines
  <2> QED
    BY <1>7
<1> HIDE DEF count
<1>9. count[0] = 0
  BY <1>8
<1>10. ASSUME NEW i \in 1 .. n
       PROVE  count[i] = IF b[line[i]] # side THEN 0 ELSE count[i - 1] + 1
  <2>1. i \in 0 .. n /\ i # 0
    OBVIOUS
  <2> QED
    BY <1>8, <2>1, Zenon
<1>11. \A i \in 0 .. n : count[i] \in Nat
  <2> DEFINE T == {i \in 0 .. n : count[i] \in Nat}
  <2>1. 0 \in T
    BY <1>9
  <2>2. ASSUME NEW i \in 1 .. n, i - 1 \in T
        PROVE  i \in T
    BY <1>10, <2>2
  <2> HIDE DEF T
  <2>3. \A i \in 0 .. n : i \in T
    BY <2>1, <2>2, Induction
  <2> QED
    BY <2>3 DEF T
<1>12. count \in [0 .. n -> Nat]
  <2>1. count = [i \in 0 .. n |-> count[i]]
    BY <1>8
  <2> QED
    BY <1>11, <2>1
<1> QED
  BY <1>1, <1>9, <1>10, <1>12, Zenon DEF count

(***************************************************************************)
(* It counts the stones that end at a point, and no stone is before them.  *)
(***************************************************************************)
LEMMA CountIsRun ==
  ASSUME NEW b, NEW side, NEW line, NEW n \in Nat, Len(line) = n
  PROVE  LET count == ContinueCounts(b, side, line)
         IN  \A i \in 0 .. n :
               /\ count[i] \in 0 .. i
               /\ \A j \in (i - count[i]) + 1 .. i : b[line[j]] = side
               /\ i - count[i] >= 1 => b[line[i - count[i]]] # side
<1> DEFINE count == ContinueCounts(b, side, line)
<1>1. /\ count \in [0 .. n -> Nat]
      /\ count[0] = 0
      /\ \A i \in 1 .. n : count[i] = IF b[line[i]] # side THEN 0 ELSE count[i - 1] + 1
  BY CountLoop
<1> HIDE DEF count
<1> DEFINE Counted(i, c) == /\ c \in 0 .. i
                            /\ \A j \in (i - c) + 1 .. i : b[line[j]] = side
                            /\ i - c >= 1 => b[line[i - c]] # side
           T == {i \in 0 .. n : Counted(i, count[i])}
<1>2. 0 \in T
  BY <1>1
<1>3. ASSUME NEW i \in 1 .. n, i - 1 \in T
      PROVE  i \in T
  <2>1. CASE b[line[i]] # side
    <3>1. count[i] = 0 /\ i - 0 = i
      BY <1>1, <2>1
    <3>2. Counted(i, 0)
      BY <2>1
    <3> QED
      BY <3>1, <3>2
  <2>2. CASE b[line[i]] = side
    <3>1. PICK c \in Nat : c = count[i - 1] /\ count[i] = c + 1
      BY <1>1, <2>2
    <3>2. Counted(i - 1, c)
      BY <1>3, <3>1
    <3>3. i - (c + 1) = (i - 1) - c /\ c + 1 \in 0 .. i
      BY <3>2
    <3>4. ASSUME NEW j \in (i - (c + 1)) + 1 .. i
          PROVE  b[line[j]] = side
      <4>1. CASE j = i
        BY <2>2, <4>1
      <4>2. CASE j # i
        <5>1. j \in ((i - 1) - c) + 1 .. i - 1
          BY <3>1, <4>2
        <5> QED
          BY <3>2, <5>1, Zenon
      <4> QED
        BY <4>1, <4>2
    <3>5. i - (c + 1) >= 1 => b[line[i - (c + 1)]] # side
      BY <3>2, <3>3, Zenon
    <3>6. Counted(i, c + 1)
      BY <3>3, <3>4, <3>5
    <3> HIDE DEF Counted
    <3> QED
      BY <3>1, <3>6
  <2> QED
    BY <2>1, <2>2
<1> HIDE DEF T, Counted
<1>4. \A i \in 0 .. n : i \in T
  BY <1>2, <1>3, Induction
<1>5. \A i \in 0 .. n : Counted(i, count[i])
  BY <1>4 DEF T
<1> QED
  BY <1>5, Zenon DEF Counted, count

-----------------------------------------------------------------------------
\* Five points in steps of e, and the fives that the rules of gomoku know.
Row(q, e) == {q, q + e, q + (2 * e), q + (3 * e), q + (4 * e)}

FiveAt(S, q, e, long) ==
  Row(q, e) \subseteq S /\ (long \/ (q - e \notin S /\ q + (5 * e) \notin S))

Stones(b, side) == {p \in Square : b[p] = side}

HasFive(b, side, long) == \E p \in Stones(b, side) : Wins(Stones(b, side), p, long)

(***************************************************************************)
(* A five can be read from both of its ends.                               *)
(***************************************************************************)
LEMMA Backwards ==
  ASSUME NEW S, NEW q \in Int, NEW e \in Int, NEW long, FiveAt(S, q, e, long)
  PROVE  FiveAt(S, q + (4 * e), -e, long) /\ Row(q + (4 * e), -e) = Row(q, e)
<1> DEFINE p == q + (4 * e)
<1>1. /\ p + (-e) = q + (3 * e) /\ p + (2 * (-e)) = q + (2 * e)
      /\ p + (3 * (-e)) = q + e /\ p + (4 * (-e)) = q
      /\ p - (-e) = q + (5 * e) /\ p + (5 * (-e)) = q - e
  OBVIOUS
<1> HIDE DEF p
<1>2. Row(p, -e) = {p, q + (3 * e), q + (2 * e), q + e, q}
  BY <1>1, Zenon DEF Row
<1>3. Row(p, -e) = Row(q, e)
  BY <1>2 DEF Row, p
<1>4. p - (-e) \notin S /\ p + (5 * (-e)) \notin S <=> q - e \notin S /\ q + (5 * e) \notin S
  BY <1>1, Zenon
<1>5. FiveAt(S, p, -e, long)
  BY <1>3, <1>4, Zenon DEF FiveAt
<1> QED
  BY <1>3, <1>5 DEF p

(***************************************************************************)
(* A stone wins when it is one of five.                                    *)
(***************************************************************************)
LEMMA WindowIsRow ==
  ASSUME NEW p \in Int, NEW d \in Int, NEW k \in Int
  PROVE  LET q == p - ((k - 1) * d)
         IN  /\ q \in Int
             /\ Window(p, d, 5, k) = Row(q, d)
             /\ WindowEnds(p, d, 5, k) = {q - d, q + (5 * d)}
<1> DEFINE q == p - ((k - 1) * d)
           at == [i \in 1 .. 5 |-> p + (i - k) * d]
<1>1. /\ q \in Int
      /\ p + (1 - k) * d = q /\ p + (2 - k) * d = q + d
      /\ p + (3 - k) * d = q + (2 * d) /\ p + (4 - k) * d = q + (3 * d)
      /\ p + (5 - k) * d = q + (4 * d)
      /\ p - k * d = q - d /\ p + (5 + 1 - k) * d = q + (5 * d)
  OBVIOUS
<1> HIDE DEF q
<1>2. at[1] = q /\ at[2] = q + d /\ at[3] = q + (2 * d) /\ at[4] = q + (3 * d) /\ at[5] = q + (4 * d)
  BY <1>1
<1>3. Window(p, d, 5, k) = {at[i] : i \in {1, 2, 3, 4, 5}}
  <2>1. 1 .. 5 = {1, 2, 3, 4, 5}
    OBVIOUS
  <2>2. \A i \in 1 .. 5 : at[i] = p + (i - k) * d
    OBVIOUS
  <2> HIDE DEF at
  <2> QED
    BY <2>1, <2>2 DEF Window
<1>4. {at[i] : i \in {1, 2, 3, 4, 5}} = {at[1], at[2], at[3], at[4], at[5]}
  <2> HIDE DEF at
  <2> QED
    OBVIOUS
<1>5. Window(p, d, 5, k) = Row(q, d)
  <2> HIDE DEF at
  <2> QED
    BY <1>2, <1>3, <1>4, Zenon DEF Row
<1>6. WindowEnds(p, d, 5, k) = {q - d, q + (5 * d)}
  BY <1>1, Zenon DEF WindowEnds
<1> QED
  BY <1>1, <1>5, <1>6, Zenon DEF q

LEMMA WinsInFive ==
  ASSUME NEW S, NEW p \in Int, NEW long \in BOOLEAN
  PROVE  Wins(S, p, long) <=>
           \E d \in Direction, q \in Int : p \in Row(q, d) /\ FiveAt(S, q, d, long)
<1>1. Direction \subseteq Int
  BY DEF Direction
<1>2. ASSUME NEW d \in Direction
      PROVE  (IF long THEN FiveOrMore(S, p, d) ELSE ExactFive(S, p, d)) <=>
               \E k \in 1 .. 5 : FiveAt(S, p - ((k - 1) * d), d, long)
  <2>1. ASSUME NEW k \in 1 .. 5
        PROVE  LET q == p - ((k - 1) * d)
               IN  /\ Window(p, d, 5, k) \subseteq S <=> Row(q, d) \subseteq S
                   /\ WindowEnds(p, d, 5, k) \cap S = {} <=> q - d \notin S /\ q + (5 * d) \notin S
    <3> DEFINE q == p - ((k - 1) * d)
    <3>1. k \in Int /\ d \in Int
      BY <1>1
    <3>2. /\ Window(p, d, 5, k) = Row(q, d)
          /\ WindowEnds(p, d, 5, k) = {q - d, q + (5 * d)}
      BY <3>1, WindowIsRow, Zenon
    <3> HIDE DEF q
    <3>3. {q - d, q + (5 * d)} \cap S = {} <=> q - d \notin S /\ q + (5 * d) \notin S
      OBVIOUS
    <3>4. /\ Window(p, d, 5, k) \subseteq S <=> Row(q, d) \subseteq S
          /\ WindowEnds(p, d, 5, k) \cap S = {} <=> q - d \notin S /\ q + (5 * d) \notin S
      BY <3>2, <3>3, Zenon
    <3> QED
      BY <3>4, Zenon DEF q
  <2>2. CASE long
    <3>1. FiveOrMore(S, p, d) <=> \E k \in 1 .. 5 : Window(p, d, 5, k) \subseteq S
      BY Zenon DEF FiveOrMore
    <3> QED
      BY <2>1, <2>2, <3>1, Zenon DEF FiveAt
  <2>3. CASE ~long
    <3>1. ExactFive(S, p, d) <=>
            \E k \in 1 .. 5 : /\ Window(p, d, 5, k) \subseteq S
                              /\ WindowEnds(p, d, 5, k) \cap S = {}
      BY Zenon DEF ExactFive
    <3> QED
      BY <2>1, <2>3, <3>1, Zenon DEF FiveAt
  <2> QED
    BY <2>2, <2>3
<1>3. ASSUME NEW d \in Direction, NEW k \in 1 .. 5
      PROVE  p - ((k - 1) * d) \in Int /\ p \in Row(p - ((k - 1) * d), d)
  <2> DEFINE q == p - ((k - 1) * d)
  <2>1. d \in Int /\ q \in Int
    BY <1>1
  <2>2. k \in {1, 2, 3, 4, 5}
    OBVIOUS
  <2>3. p = q \/ p = q + d \/ p = q + (2 * d) \/ p = q + (3 * d) \/ p = q + (4 * d)
    BY <2>1, <2>2
  <2> HIDE DEF q
  <2>4. p \in Row(q, d)
    BY <2>3 DEF Row
  <2> QED
    BY <2>1, <2>4 DEF q
<1>4. ASSUME NEW d \in Direction, NEW q \in Int, p \in Row(q, d)
      PROVE  \E k \in 1 .. 5 : q = p - ((k - 1) * d)
  <2>1. d \in Int
    BY <1>1
  <2>2. p = q \/ p = q + d \/ p = q + (2 * d) \/ p = q + (3 * d) \/ p = q + (4 * d)
    BY <1>4 DEF Row
  <2>3. \/ q = p - ((1 - 1) * d) \/ q = p - ((2 - 1) * d) \/ q = p - ((3 - 1) * d)
        \/ q = p - ((4 - 1) * d) \/ q = p - ((5 - 1) * d)
    BY <2>1, <2>2
  <2>4. 1 \in 1 .. 5 /\ 2 \in 1 .. 5 /\ 3 \in 1 .. 5 /\ 4 \in 1 .. 5 /\ 5 \in 1 .. 5
    OBVIOUS
  <2> QED
    BY <2>3, <2>4, Zenon
<1>5. Wins(S, p, long) <=>
        \E d \in Direction, k \in 1 .. 5 : FiveAt(S, p - ((k - 1) * d), d, long)
  BY <1>2, Zenon DEF Wins
<1> QED
  BY <1>3, <1>4, <1>5, Zenon

(***************************************************************************)
(* A side has a five when there is one in steps of the scan.               *)
(***************************************************************************)
LEMMA HasFiveInSteps ==
  ASSUME NEW b, NEW side, NEW long \in BOOLEAN
  PROVE  HasFive(b, side, long) <=>
           \E q \in Int, e \in Steps : FiveAt(Stones(b, side), q, e, long)
<1> DEFINE S == Stones(b, side)
<1>1. S \subseteq Int
  <2>1. \A p \in Square : p \in Int
    BY SquarePoint DEF PosBits
  <2> QED
    BY <2>1 DEF Stones
<1>2. /\ Direction \subseteq Int /\ Steps \subseteq Int
      /\ \A d \in Direction : d \in Steps \/ -d \in Steps
      /\ \A e \in Steps : e \in Direction \/ -e \in Direction
  <2>1. Direction \subseteq Int /\ Steps \subseteq Int
    BY DEF Direction, Steps
  <2>2. \A d \in Direction : d \in Steps \/ d = 31
    BY DEF Direction, Steps
  <2>3. \A e \in Steps : e \in Direction \/ e = -31
    BY DEF Direction, Steps
  <2>4. 31 \in Direction /\ -31 \in Steps
    BY DEF Direction, Steps
  <2>5. ASSUME NEW e \in Steps
        PROVE  e \in Direction \/ -e \in Direction
    <3>1. e \in Int /\ (e = -31 => -e = 31)
      BY <2>1
    <3> QED
      BY <2>3, <2>4, <2>5, <3>1, Zenon
  <2>6. ASSUME NEW d \in Direction
        PROVE  d \in Steps \/ -d \in Steps
    <3>1. d \in Int /\ (d = 31 => -d = -31)
      BY <2>1
    <3> QED
      BY <2>2, <2>4, <2>6, <3>1, Zenon
  <2> QED
    BY <2>1, <2>5, <2>6
<1> HIDE DEF S
<1>3. ASSUME NEW p \in S, Wins(S, p, long)
      PROVE  \E q \in Int, e \in Steps : FiveAt(S, q, e, long)
  <2>1. PICK d \in Direction, q \in Int : FiveAt(S, q, d, long)
    BY <1>1, <1>3, WinsInFive
  <2>2. FiveAt(S, q + (4 * d), -d, long) /\ q + (4 * d) \in Int
    BY <1>2, <2>1, Backwards
  <2> QED
    BY <1>2, <2>1, <2>2, Zenon
<1>4. ASSUME NEW q \in Int, NEW e \in Steps, FiveAt(S, q, e, long)
      PROVE  \E p \in S : Wins(S, p, long)
  <2>1. \E d \in Direction, r \in Int : FiveAt(S, r, d, long)
    <3>1. FiveAt(S, q + (4 * e), -e, long) /\ q + (4 * e) \in Int
      BY <1>2, <1>4, Backwards
    <3> QED
      BY <1>2, <1>4, <3>1, Zenon
  <2>2. PICK d \in Direction, r \in Int : FiveAt(S, r, d, long)
    BY <2>1
  <2>3. r \in Row(r, d)
    BY DEF Row
  <2>4. r \in S
    BY <2>2, <2>3 DEF FiveAt
  <2>5. Wins(S, r, long)
    BY <2>2, <2>3, WinsInFive
  <2> QED
    BY <2>4, <2>5
<1> QED
  BY <1>3, <1>4, Zenon DEF HasFive, S

(***************************************************************************)
(* What the scan finds is a five.                                          *)
(***************************************************************************)
LEMMA ScanFinds ==
  ASSUME NEW b, NEW side, NEW long \in BOOLEAN, FiveInLineSide(b, side, long)
  PROVE  \E q \in Int, e \in Steps : FiveAt(Stones(b, side), q, e, long)
<1> DEFINE S == Stones(b, side)
<1>1. PICK line \in Lines :
        \E i \in DOMAIN line :
          /\ i < Len(line) => b[line[i + 1]] # side
          /\ IsFiveCount(ContinueCounts(b, side, line)[i], long)
  BY Zenon DEF FiveInLineSide
<1>2. PICK i \in DOMAIN line :
          /\ i < Len(line) => b[line[i + 1]] # side
          /\ IsFiveCount(ContinueCounts(b, side, line)[i], long)
  BY <1>1
<1> DEFINE c == ContinueCounts(b, side, line)[i]
           n == Len(line)
<1>3. PICK e \in Steps : Shaped(line, e)
  BY ScanLines, Zenon
<1>4. /\ n \in Nat \ {0} /\ DOMAIN line = 1 .. n
      /\ \A k \in 1 .. n : line[k] \in Square
      /\ \A k, m \in 1 .. n : line[m] = line[k] + (m - k) * e
      /\ line[1] - e \notin Square /\ line[n] + e \notin Square
  BY <1>3, Zenon DEF Shaped
<1>5. i \in 0 .. n /\ i \in 1 .. n
  BY <1>4
<1>6. /\ c \in 0 .. i
      /\ \A j \in (i - c) + 1 .. i : b[line[j]] = side
      /\ i - c >= 1 => b[line[i - c]] # side
  BY <1>4, <1>5, CountIsRun, Zenon
<1>7. c >= 5 /\ (~long => c = 5)
  BY <1>2, <1>6 DEF IsFiveCount
<1> HIDE DEF c, n
<1>8. e \in Int
  BY DEF Steps
<1>9. \A p \in Square : p \in Int
  BY SquarePoint DEF PosBits
<1> DEFINE q == line[i - 4]
<1>10. /\ i - 4 \in 1 .. n /\ i - 3 \in 1 .. n /\ i - 2 \in 1 .. n /\ i - 1 \in 1 .. n
       /\ i - 4 \in (i - c) + 1 .. i /\ i - 3 \in (i - c) + 1 .. i
       /\ i - 2 \in (i - c) + 1 .. i /\ i - 1 \in (i - c) + 1 .. i /\ i \in (i - c) + 1 .. i
       /\ (i - 3) - (i - 4) = 1 /\ (i - 2) - (i - 4) = 2
       /\ (i - 1) - (i - 4) = 3 /\ i - (i - 4) = 4
  <2>1. i \in Int /\ n \in Int /\ c \in Int /\ c <= i /\ c >= 5 /\ i <= n
    BY <1>4, <1>5, <1>6, <1>7
  <2> QED
    BY ONLY <2>1
<1>11. q \in Int
  BY <1>4, <1>9, <1>10, Zenon
<1>12. /\ line[i - 3] = q + 1 * e /\ line[i - 2] = q + 2 * e
       /\ line[i - 1] = q + 3 * e /\ line[i] = q + 4 * e
  <2>1. /\ line[i - 3] = line[i - 4] + ((i - 3) - (i - 4)) * e
        /\ line[i - 2] = line[i - 4] + ((i - 2) - (i - 4)) * e
        /\ line[i - 1] = line[i - 4] + ((i - 1) - (i - 4)) * e
        /\ line[i] = line[i - 4] + (i - (i - 4)) * e
    BY <1>4, <1>5, <1>10, Zenon
  <2> QED
    BY <1>10, <2>1, Zenon
<1>13. \A j \in 1 .. n : j \in (i - c) + 1 .. i => line[j] \in S
  BY <1>4, <1>6, Zenon DEF Stones
<1>14. {line[i - 4], line[i - 3], line[i - 2], line[i - 1], line[i]} \subseteq S
  <2>1. /\ line[i - 4] \in S /\ line[i - 3] \in S /\ line[i - 2] \in S
        /\ line[i - 1] \in S /\ line[i] \in S
    BY <1>5, <1>10, <1>13, Zenon
  <2> HIDE DEF S, q
  <2> QED
    BY <2>1
<1> HIDE DEF q
<1>15. Row(q, e) \subseteq S
  <2>1. 1 * e = e
    BY <1>8
  <2> QED
    BY <1>12, <1>14, <2>1, Zenon DEF Row, q
<1>16. ASSUME ~long
       PROVE  q - e \notin S /\ q + (5 * e) \notin S
  <2>1. c = 5
    BY <1>7, <1>16
  <2>2. q - e \notin S
    <3>1. CASE i = 5
      <4>1. q = line[1]
        BY <3>1 DEF q
      <4> QED
        BY <1>4, <4>1, Zenon DEF Stones
    <3>2. CASE i # 5
      <4>1. i - 5 \in 1 .. n /\ i - c >= 1 /\ i - c = i - 5 /\ (i - 5) - (i - 4) = -1
        <5>1. i \in Int /\ n \in Int /\ c = 5 /\ c <= i /\ i <= n /\ i # 5
          BY <1>4, <1>5, <1>6, <2>1, <3>2
        <5> QED
          BY ONLY <5>1
      <4>2. line[i - 5] = q + (-1) * e
        <5>1. line[i - 5] = line[i - 4] + ((i - 5) - (i - 4)) * e
          BY <1>4, <1>10, <4>1, Zenon
        <5> QED
          BY <4>1, <5>1, Zenon DEF q
      <4>3. q - e = line[i - 5]
        BY <1>8, <1>11, <4>2
      <4>4. b[line[i - 5]] # side
        BY <1>6, <4>1, Zenon
      <4> QED
        BY <4>3, <4>4, Zenon DEF Stones
    <3> QED
      BY <3>1, <3>2
  <2>3. q + (5 * e) = line[i] + e
    BY <1>8, <1>11, <1>12
  <2>4. line[i] + e \notin S
    <3>1. CASE i = n
      BY <1>4, <3>1, Zenon DEF Stones
    <3>2. CASE i # n
      <4>1. i + 1 \in 1 .. n /\ i < n /\ (i + 1) - i = 1
        <5>1. i \in Int /\ n \in Int /\ i >= 1 /\ i <= n /\ i # n
          BY <1>4, <1>5, <3>2
        <5> QED
          BY ONLY <5>1
      <4>2. line[i + 1] = line[i] + 1 * e
        <5>1. line[i + 1] = line[i] + ((i + 1) - i) * e
          BY <1>4, <1>5, <4>1, Zenon
        <5> QED
          BY <4>1, <5>1, Zenon
      <4>3. 1 * e = e
        BY <1>8
      <4>4. b[line[i + 1]] # side
        BY <1>2, <4>1, Zenon DEF n
      <4> QED
        BY <4>2, <4>3, <4>4, Zenon DEF Stones
    <3> QED
      BY <3>1, <3>2
  <2> QED
    BY <2>2, <2>3, <2>4, Zenon
<1>17. FiveAt(S, q, e, long)
  <2> HIDE DEF S
  <2> QED
    BY <1>15, <1>16, Zenon DEF FiveAt
<1> QED
  BY <1>11, <1>17, Zenon

(***************************************************************************)
(* The scan finds the fives.                                               *)
(***************************************************************************)
LEMMA ScanMisses ==
  ASSUME NEW b, NEW side, NEW long \in BOOLEAN,
         NEW q \in Int, NEW e \in Steps, FiveAt(Stones(b, side), q, e, long)
  PROVE  FiveInLineSide(b, side, long)
<1> DEFINE S == Stones(b, side)
<1>1. /\ q \in S /\ q + e \in S /\ q + (2 * e) \in S /\ q + (3 * e) \in S /\ q + (4 * e) \in S
  BY DEF FiveAt, Row
<1>2. \A p \in S : p \in Square /\ b[p] = side
  BY DEF Stones
<1>3. PICK line \in Lines : Shaped(line, e) /\ \E i \in 1 .. Len(line) : line[i] = q
  BY <1>1, <1>2, ScanLines, Zenon
<1>4. PICK a \in 1 .. Len(line) : line[a] = q
  BY <1>3
<1> DEFINE n == Len(line)
           count == ContinueCounts(b, side, line)
<1>5. /\ n \in Nat \ {0} /\ DOMAIN line = 1 .. n
      /\ \A k \in 1 .. n : line[k] \in Square
      /\ \A k, m \in 1 .. n : line[m] = line[k] + (m - k) * e
      /\ line[1] - e \notin Square /\ line[n] + e \notin Square
  BY <1>3, Zenon DEF Shaped
<1>6. \A i \in 0 .. n :
        /\ count[i] \in 0 .. i
        /\ \A j \in (i - count[i]) + 1 .. i : b[line[j]] = side
        /\ i - count[i] >= 1 => b[line[i - count[i]]] # side
  BY <1>5, CountIsRun, Zenon
<1> HIDE DEF S, n, count
<1>7. a \in 1 .. n /\ e \in Int
  BY <1>4 DEF n, Steps
<1>8. \A k \in 1 .. n : line[k] = q + (k - a) * e
  BY <1>4, <1>5, <1>7, Zenon
<1>9. a + 4 <= n
  <2> SUFFICES ASSUME ~(a + 4 <= n) PROVE FALSE
    OBVIOUS
  <2>1. line[n] + e = q + ((n + 1) - a) * e
    <3>1. n \in 1 .. n
      BY <1>5
    <3>2. line[n] = q + (n - a) * e
      BY <1>8, <3>1
    <3>3. n \in Int /\ a \in Int
      BY <1>5, <1>7
    <3> QED
      BY <1>7, <3>2, <3>3
  <2>2. \/ (n + 1) - a = 1 \/ (n + 1) - a = 2 \/ (n + 1) - a = 3 \/ (n + 1) - a = 4
    BY <1>5, <1>7
  <2>3. \/ line[n] + e = q + e \/ line[n] + e = q + (2 * e)
        \/ line[n] + e = q + (3 * e) \/ line[n] + e = q + (4 * e)
    BY <1>7, <2>1, <2>2
  <2> QED
    BY <1>1, <1>2, <1>5, <2>3, Zenon
<1>10. ASSUME NEW j \in a .. a + 4
       PROVE  j \in 1 .. n /\ b[line[j]] = side
  <2>1. j \in 1 .. n
    BY <1>5, <1>7, <1>9
  <2>2. j - a = 0 \/ j - a = 1 \/ j - a = 2 \/ j - a = 3 \/ j - a = 4
    BY <1>7
  <2>3. line[j] = q + (j - a) * e
    BY <1>8, <2>1
  <2>4. \/ line[j] = q \/ line[j] = q + e \/ line[j] = q + (2 * e)
        \/ line[j] = q + (3 * e) \/ line[j] = q + (4 * e)
    BY <1>7, <2>2, <2>3
  <2> QED
    BY <1>1, <1>2, <2>1, <2>4, Zenon
<1> DEFINE Stops(i) == i = n \/ b[line[i + 1]] # side
           T == {i \in a + 4 .. n : Stops(i)}
<1>11. PICK i \in T : \A j \in T : i <= j
  <2>1. n \in T
    BY <1>5, <1>9
  <2>2. T \subseteq Nat
    BY <1>5, <1>7
  <2> HIDE DEF T
  <2> QED
    BY <2>1, <2>2, SmallestElement
<1>12. i \in a + 4 .. n /\ Stops(i) /\ i \in 1 .. n /\ i \in 0 .. n
  BY <1>5, <1>7, <1>11
<1>13. ASSUME NEW j \in a .. i
       PROVE  b[line[j]] = side
  <2>1. CASE j \in a .. a + 4
    BY <1>10, <2>1
  <2>2. CASE j \notin a .. a + 4
    <3>1. j - 1 \in a + 4 .. n /\ ~(i <= j - 1) /\ (j - 1) + 1 = j
      <4>1. /\ j \in Int /\ i \in Int /\ n \in Int /\ a \in Int
            /\ j <= i /\ i <= n /\ j > a + 4
        BY <1>5, <1>7, <1>12, <2>2
      <4> QED
        BY ONLY <4>1
    <3>2. j - 1 \notin T
      BY <1>11, <3>1, Zenon
    <3>3. ~Stops(j - 1)
      BY <3>1, <3>2
    <3>4. b[line[(j - 1) + 1]] = side
      BY <3>3
    <3> QED
      BY <3>1, <3>4, Zenon
  <2> QED
    BY <2>1, <2>2
<1>14. PICK c \in 0 .. i :
         /\ count[i] = c
         /\ \A j \in (i - c) + 1 .. i : b[line[j]] = side
         /\ i - c >= 1 => b[line[i - c]] # side
  BY <1>6, <1>12, Zenon
<1>15. c >= (i - a) + 1
  <2> SUFFICES ASSUME ~(c >= (i - a) + 1) PROVE FALSE
    OBVIOUS
  <2>1. i - c \in a .. i /\ i - c >= 1
    BY <1>7, <1>12, <1>14
  <2> QED
    BY <1>13, <1>14, <2>1, Zenon
<1>16. i < n => b[line[i + 1]] # side
  BY <1>5, <1>12
<1>17. c >= 5
  BY <1>7, <1>12, <1>15
<1>18. ASSUME ~long
       PROVE  c = 5
  <2>1. q - e \notin S /\ q + (5 * e) \notin S
    BY <1>18 DEF FiveAt, S
  <2>2. i = a + 4
    <3>1. a + 4 \in T
      <4>1. a + 4 \in a + 4 .. n
        BY <1>5, <1>7, <1>9
      <4>2. ASSUME a + 4 # n
            PROVE  b[line[(a + 4) + 1]] # side
        <5>1. (a + 4) + 1 \in 1 .. n /\ ((a + 4) + 1) - a = 5
          BY <1>5, <1>7, <1>9, <4>2
        <5>2. line[(a + 4) + 1] = q + 5 * e
          BY <1>8, <5>1, Zenon
        <5> QED
          BY <1>5, <2>1, <5>1, <5>2, Zenon DEF S, Stones
      <4> QED
        BY <4>1, <4>2
    <3> QED
      BY <1>7, <1>11, <1>12, <3>1
  <2> SUFFICES ASSUME c # 5 PROVE FALSE
    OBVIOUS
  <2>3. a - 1 \in 1 .. n /\ a - 1 \in (i - c) + 1 .. i /\ (a - 1) - a = -1
    <3>1. /\ a \in Int /\ n \in Int /\ c \in Int /\ i = a + 4
          /\ a <= n /\ c >= 6 /\ c <= i
      BY <1>5, <1>7, <1>14, <1>17, <2>2
    <3> QED
      BY ONLY <3>1
  <2>4. line[a - 1] = q + (-1) * e
    BY <1>8, <2>3, Zenon
  <2>5. line[a - 1] = q - e
    BY <1>7, <2>4
  <2>6. b[line[a - 1]] = side
    BY <1>14, <2>3, Zenon
  <2> QED
    BY <1>5, <2>1, <2>3, <2>5, <2>6, Zenon DEF S, Stones
<1>19. IsFiveCount(count[i], long)
  BY <1>14, <1>17, <1>18 DEF IsFiveCount
<1> QED
  BY <1>5, <1>12, <1>16, <1>19, Zenon DEF FiveInLineSide, n, count

(***************************************************************************)
(* check_five_in_line_side: the scan of all lines with a running count     *)
(* finds the fives of the rules of gomoku, and nothing else.               *)
(***************************************************************************)
THEOREM ScanFindsTheFives ==
  ASSUME NEW b, NEW side, NEW long \in BOOLEAN
  PROVE  FiveInLineSide(b, side, long) <=> HasFive(b, side, long)
BY ScanFinds, ScanMisses, HasFiveInSteps, Zenon

(***************************************************************************)
(* A five that a stone makes has the stone in it.                          *)
(***************************************************************************)
LEMMA FiveWithoutExact ==
  ASSUME NEW b, NEW side, HasFive(b, side, FALSE)
  PROVE  HasFive(b, side, TRUE)
<1>1. PICK q \in Int, e \in Steps : FiveAt(Stones(b, side), q, e, FALSE)
  BY HasFiveInSteps
<1>2. FiveAt(Stones(b, side), q, e, TRUE)
  BY <1>1 DEF FiveAt
<1> QED
  BY <1>2, HasFiveInSteps

LEMMA NewFive ==
  ASSUME NEW b, NEW q \in Square, b[q] \in Side, b \in [Square -> Side \cup {EMPTY}],
         NEW long \in BOOLEAN, HasFive(b, b[q], long),
         ~HasFive([b EXCEPT ![q] = EMPTY], b[q], long)
  PROVE  Wins(Stones(b, b[q]), q, long)
<1> DEFINE side == b[q]
           S == Stones(b, side)
           before == Stones([b EXCEPT ![q] = EMPTY], side)
<1>1. before = S \ {q}
  <2>1. side # EMPTY
    BY DEF Side, BLACK, WHITE, EMPTY
  <2>2. \A p \in Square : [b EXCEPT ![q] = EMPTY][p] = IF p = q THEN EMPTY ELSE b[p]
    OBVIOUS
  <2> HIDE DEF side
  <2> QED
    BY <2>1, <2>2 DEF Stones
<1>2. q \in Int /\ Steps \subseteq Int
  <2>1. q \in Int
    BY SquarePoint DEF PosBits
  <2> QED
    BY <2>1 DEF Steps
<1>3. PICK r \in Int, e \in Steps : FiveAt(S, r, e, long)
  BY HasFiveInSteps
<1>4. ~FiveAt(before, r, e, long)
  BY HasFiveInSteps
<1> HIDE DEF S, before
<1>5. q \in Row(r, e)
  BY <1>1, <1>3, <1>4 DEF FiveAt
<1>6. \E d \in Direction, p \in Int : q \in Row(p, d) /\ FiveAt(S, p, d, long)
  <2>1. FiveAt(S, r + (4 * e), -e, long) /\ Row(r + (4 * e), -e) = Row(r, e) /\ r + (4 * e) \in Int
    BY <1>2, <1>3, Backwards
  <2>2. e \in Direction \/ -e \in Direction
    <3>1. e \in Direction \/ e = -31
      BY DEF Direction, Steps
    <3>2. e \in Int /\ (e = -31 => -e = 31) /\ 31 \in Direction
      BY <1>2 DEF Direction
    <3> QED
      BY <3>1, <3>2, Zenon
  <2> QED
    BY <1>3, <1>5, <2>1, <2>2, Zenon
<1> QED
  BY <1>2, <1>6, WinsInFive DEF S, side

(***************************************************************************)
(* check_five_in_line_lastmove: five stones need five moves.               *)
(***************************************************************************)
LEMMA FiveMoves ==
  ASSUME NEW p, Recorded(p), NEW side \in Side, NEW long \in BOOLEAN,
         HasFive(p.board, side, long)
  PROVE  Len(p.hist) >= 5
<1> DEFINE n == Len(p.hist)
           at == [i \in 1 .. n |-> PosFromMove(p.hist[i])]
<1>1. PICK q \in Int, e \in Steps : FiveAt(Stones(p.board, side), q, e, long)
  BY HasFiveInSteps
<1>2. n \in Nat /\ \A x \in Square : p.board[x] # EMPTY => \E i \in 1 .. n : PosFromMove(p.hist[i]) = x
  BY RecordedType, Zenon
<1>3. \A x \in Stones(p.board, side) : \E i \in 1 .. n : at[i] = x
  <2>1. side # EMPTY
    BY DEF Side, BLACK, WHITE, EMPTY
  <2>2. \A i \in 1 .. n : at[i] = PosFromMove(p.hist[i])
    OBVIOUS
  <2> HIDE DEF at, n
  <2> QED
    BY <1>2, <2>1, <2>2 DEF Stones
<1> HIDE DEF at, n
<1>4. /\ \E i \in 1 .. n : at[i] = q
      /\ \E i \in 1 .. n : at[i] = q + e
      /\ \E i \in 1 .. n : at[i] = q + (2 * e)
      /\ \E i \in 1 .. n : at[i] = q + (3 * e)
      /\ \E i \in 1 .. n : at[i] = q + (4 * e)
  <2>1. Row(q, e) \subseteq Stones(p.board, side)
    BY <1>1 DEF FiveAt
  <2>2. /\ q \in Row(q, e) /\ q + e \in Row(q, e) /\ q + (2 * e) \in Row(q, e)
        /\ q + (3 * e) \in Row(q, e) /\ q + (4 * e) \in Row(q, e)
    BY Zenon DEF Row
  <2> QED
    BY <1>3, <2>1, <2>2, Zenon
<1>5. PICK i \in 1 .. n, j \in 1 .. n, k \in 1 .. n, l \in 1 .. n, m \in 1 .. n :
        /\ at[i] = q /\ at[j] = q + e /\ at[k] = q + (2 * e)
        /\ at[l] = q + (3 * e) /\ at[m] = q + (4 * e)
  BY <1>4, Zenon
<1>6. e \in Int /\ e # 0
  BY DEF Steps
<1>7. /\ i # j /\ i # k /\ i # l /\ i # m /\ j # k /\ j # l /\ j # m
      /\ k # l /\ k # m /\ l # m
  BY <1>5, <1>6
<1>8. n >= 5
  BY <1>2, <1>7
<1> QED
  BY <1>8 DEF n

LEMMA LastMoveScan ==
  ASSUME NEW p, Recorded(p), p.hist # <<>>, NEW long \in BOOLEAN
  PROVE  LET q == PosFromMove(p.hist[Len(p.hist)])
         IN  /\ q \in Square /\ p.board[q] \in Side
             /\ p.board[q] = Opponent(p.turn)
             /\ p.board[q] = ColorFromMove(p.hist[Len(p.hist)])
             /\ FiveInLineLastMove(p, long) <=> HasFive(p.board, p.board[q], long)
<1> DEFINE n == Len(p.hist)
           q == PosFromMove(p.hist[n])
<1>1. /\ n \in Nat /\ p.turn = n % 2 /\ p.hist \in Seq(PointMove)
      /\ \A i \in 1 .. n : /\ PosFromMove(p.hist[i]) \in Square
                          /\ ColorFromMove(p.hist[i]) = (i - 1) % 2
                          /\ p.board[PosFromMove(p.hist[i])] = (i - 1) % 2
  BY RecordedType, Zenon
<1>2. n # 0
  BY <1>1
<1>3. n \in 1 .. n
  BY <1>1, <1>2
<1>4. q \in Square /\ p.board[q] = (n - 1) % 2 /\ ColorFromMove(p.hist[n]) = (n - 1) % 2
  BY <1>1, <1>3
<1>5. (n - 1) % 2 = 1 - (n % 2) /\ (n - 1) % 2 \in {0, 1}
  <2>1. n \in Nat
    BY <1>1
  <2> HIDE DEF n
  <2> QED
    BY ONLY <2>1
<1>6. p.board[q] \in Side
  BY <1>4, <1>5 DEF Side, BLACK, WHITE
<1>7. p.board[q] = Opponent(p.turn)
  BY <1>1, <1>4, <1>5 DEF Opponent
<1>8. Last(p.hist) = p.hist[n] /\ At(p.board, q) = p.board[q]
  BY <1>4 DEF Last, At
<1>9. FiveInLineLastMove(p, long) <=> n >= 5 /\ FiveInLineSide(p.board, p.board[q], long)
  BY <1>8, Zenon DEF FiveInLineLastMove
<1>10. HasFive(p.board, p.board[q], long) => n >= 5
  BY <1>6, FiveMoves
<1>11. FiveInLineLastMove(p, long) <=> HasFive(p.board, p.board[q], long)
  BY <1>9, <1>10, ScanFindsTheFives, Zenon
<1> QED
  BY <1>4, <1>6, <1>7, <1>11, Zenon

-----------------------------------------------------------------------------
\* No opening that fits has five or more of one colour in line.
OpeningsUndecided ==
  \A line \in Opening, round \in Round, side \in Side :
    OpeningFits(line.numbers, line.type) =>
      LET p == Transform(ApplyOpening(line.numbers, line.type), round % NB_TRANS)
      IN  ~HasFive(p.board, side, TRUE)

\* The stones before the last move
BoardBefore == [pos.board EXCEPT ![MovePoint(played)] = EMPTY]

FiveInv ==
  /\ IInv
  /\ rule \in {0, 1, 4}
  /\ \A side \in Side :
       /\ pc = "rules" /\ ply = 0 => ~HasFive(pos.board, side, TRUE)
       /\ pc = "rules" /\ ply > 0 => ~HasFive(BoardBefore, side, LongWins(side))
       /\ pc = "think" => ~HasFive(pos.board, side, LongWins(side))
  /\ state = "five_connect" => pc = "over" /\ LastMoveWins

LEMMA LongWinsType == \A side : LongWins(side) \in BOOLEAN
BY DEF LongWins

(***************************************************************************)
(* An undecided opening.                                                   *)
(***************************************************************************)
LEMMA LoadedUndecided ==
  ASSUME OpeningsOnce, OpeningsUndecided, Init
  PROVE  FiveInv
<1>1. IInv
  BY LoadedRecorded
<1>2. PICK line \in Opening, round \in Round :
        IF OpeningFits(line.numbers, line.type)
          THEN /\ pos = Transform(ApplyOpening(line.numbers, line.type), round % NB_TRANS)
               /\ pc = "rules" /\ state = "none"
          ELSE pos = NewBoard /\ pc = "over" /\ state = "died"
  BY DEF Init
<1>3. rule \in {0, 1, 4} /\ ply = 0
  BY BoardPlayAssumption DEF Init
<1>4. pc # "think" /\ state # "five_connect"
  BY <1>2
<1>5. ASSUME NEW side \in Side, pc = "rules"
      PROVE  ~HasFive(pos.board, side, TRUE)
  BY <1>2, <1>5 DEF OpeningsUndecided
<1>6. ~(ply > 0)
  BY <1>3
<1> QED
  BY <1>1, <1>3, <1>4, <1>5, <1>6, Zenon DEF FiveInv

(***************************************************************************)
(* game_apply_rules after a move: the scan with the rule's flag finds what *)
(* the move made.                                                          *)
(***************************************************************************)
LEMMA RulesAfterMove ==
  ASSUME FiveInv, pc = "rules", ply > 0
  PROVE  /\ FiveInLineLastMove(pos, AllowLong(played)) <=> LastMoveWins
         /\ ~LastMoveWins =>
              \A side \in Side : ~HasFive(pos.board, side, LongWins(side))
<1> DEFINE q == MovePoint(played)
           color == Opponent(pos.turn)
           b == pos.board
           long == LongWins(color)
<1>1. /\ Recorded(pos) /\ pos.hist # <<>> /\ played = pos.hist[Len(pos.hist)]
      /\ rule \in {0, 1, 4}
      /\ \A side \in Side : ~HasFive(BoardBefore, side, LongWins(side))
  BY DEF FiveInv, IInv
<1>2. /\ q \in Square /\ b[q] \in Side /\ b[q] = color /\ color = ColorFromMove(played)
      /\ \A l \in BOOLEAN : FiveInLineLastMove(pos, l) <=> HasFive(b, color, l)
  <2>1. \A l \in BOOLEAN :
          LET x == PosFromMove(pos.hist[Len(pos.hist)])
          IN  /\ x \in Square /\ b[x] \in Side
              /\ b[x] = Opponent(pos.turn)
              /\ b[x] = ColorFromMove(pos.hist[Len(pos.hist)])
              /\ FiveInLineLastMove(pos, l) <=> HasFive(b, b[x], l)
    BY <1>1, LastMoveScan
  <2>2. TRUE \in BOOLEAN
    OBVIOUS
  <2> QED
    BY <1>1, <2>1, <2>2, Zenon DEF MovePoint
<1>3. b \in [Square -> Side \cup {EMPTY}]
  BY <1>1, RecordedType, Zenon
<1>4. AllowLong(played) = long /\ long \in BOOLEAN
  BY <1>1, <1>2 DEF AllowLong, LongWins, Side, BLACK, WHITE
<1>5. StonesOf(color) = Stones(b, color)
  BY DEF StonesOf, Stones
<1>6. LastMoveWins <=> Wins(Stones(b, color), q, long)
  BY <1>5, Zenon DEF LastMoveWins
<1> HIDE DEF q, color, b, long
<1>7. HasFive(b, color, long) <=> Wins(Stones(b, color), q, long)
  <2>1. q \in Stones(b, color)
    BY <1>2, Zenon DEF Stones
  <2>2. ~HasFive([b EXCEPT ![q] = EMPTY], color, long)
    BY <1>1, <1>2 DEF BoardBefore, b, q, long
  <2>3. HasFive(b, color, long) => Wins(Stones(b, color), q, long)
    BY <1>2, <1>3, <1>4, <2>2, NewFive, Zenon
  <2> QED
    BY <2>1, <2>3, Zenon DEF HasFive
<1>8. ASSUME NEW side \in Side, side # color
      PROVE  ~HasFive(b, side, LongWins(side))
  <2>1. Stones([b EXCEPT ![q] = EMPTY], side) = Stones(b, side)
    <3>1. side # EMPTY
      BY DEF Side, BLACK, WHITE, EMPTY
    <3>2. \A p \in Square : [b EXCEPT ![q] = EMPTY][p] = IF p = q THEN EMPTY ELSE b[p]
      BY <1>3
    <3> QED
      BY <1>2, <1>8, <3>1, <3>2 DEF Stones
  <2>2. ~HasFive([b EXCEPT ![q] = EMPTY], side, LongWins(side))
    BY <1>1 DEF BoardBefore, b, q
  <2> QED
    BY <2>1, <2>2, Zenon DEF HasFive
<1>9. FiveInLineLastMove(pos, AllowLong(played)) <=> LastMoveWins
  BY <1>2, <1>4, <1>6, <1>7, Zenon
<1>10. ASSUME ~LastMoveWins, NEW side \in Side
       PROVE  ~HasFive(b, side, LongWins(side))
  <2>1. CASE side = color
    BY <1>6, <1>7, <1>10, <2>1, Zenon DEF long
  <2>2. CASE side # color
    BY <1>8, <2>2
  <2> QED
    BY <2>1, <2>2
<1> QED
  BY <1>9, <1>10 DEF b

LEMMA RulesKeep ==
  ASSUME FiveInv, IInv', ApplyRules
  PROVE  FiveInv'
<1> DEFINE five == FiveInLineLastMove(pos, AllowLong(played))
<1>1. /\ pc = "rules" /\ rule \in {0, 1, 4} /\ ply \in Nat /\ state # "five_connect"
      /\ UNCHANGED <<rule, pos, played, ply>>
  BY DEF ApplyRules, Finish, FiveInv, IInv
<1>2. LastMoveWins' = LastMoveWins /\ \A side : LongWins(side)' = LongWins(side)
  BY <1>1 DEF LastMoveWins, StonesOf, LongWins, MovePoint
<1>3. \/ five /\ pc' = "over" /\ state' = "five_connect"
      \/ pc' = "over" /\ state' = "insufficient_space"
      \/ ~five /\ pc' = "think" /\ state' = state
  BY DEF ApplyRules, Finish
<1>4. CASE ply = 0
  <2>1. \A side \in Side : ~HasFive(pos.board, side, TRUE)
    BY <1>1, <1>4 DEF FiveInv
  <2>2. \A side \in Side : ~HasFive(pos.board, side, LongWins(side))
    <3>1. ASSUME NEW side \in Side, HasFive(pos.board, side, LongWins(side))
          PROVE  FALSE
      <4>1. LongWins(side) = TRUE \/ LongWins(side) = FALSE
        BY LongWinsType
      <4> QED
        BY <2>1, <3>1, <4>1, FiveWithoutExact
    <3> QED
      BY <3>1
  <2>3. ~five
    <3>1. AllowLong(played) \in BOOLEAN /\ Recorded(pos)
      BY DEF AllowLong, FiveInv, IInv
    <3>2. CASE pos.hist = <<>>
      <4>1. Len(pos.hist) = 0
        BY <3>2
      <4> QED
        BY <4>1 DEF FiveInLineLastMove
    <3>3. CASE pos.hist # <<>>
      <4>1. ASSUME NEW l \in BOOLEAN
            PROVE  ~FiveInLineLastMove(pos, l)
        <5>1. PICK side \in Side : FiveInLineLastMove(pos, l) <=> HasFive(pos.board, side, l)
          BY <3>1, <3>3, LastMoveScan, Zenon
        <5>2. ~HasFive(pos.board, side, l)
          BY <2>1, FiveWithoutExact
        <5> QED
          BY <5>1, <5>2
      <4> QED
        BY <3>1, <4>1, Zenon
    <3> QED
      BY <3>2, <3>3
  <2> HIDE DEF five
  <2> QED
    BY <1>1, <1>2, <1>3, <2>2, <2>3 DEF FiveInv
<1>5. CASE ply > 0
  <2>1. /\ five <=> LastMoveWins
        /\ ~LastMoveWins => \A side \in Side : ~HasFive(pos.board, side, LongWins(side))
    BY <1>1, <1>5, RulesAfterMove
  <2> HIDE DEF five
  <2> QED
    BY <1>1, <1>2, <1>3, <2>1 DEF FiveInv
<1> QED
  BY <1>1, <1>4, <1>5

LEMMA AnswerKeeps ==
  ASSUME FiveInv, IInv', NEW x \in Margin, NEW y \in Margin, Answers(x, y)
  PROVE  FiveInv'
<1> DEFINE m == AnswerMove(pos, x, y)
<1>1. pc = "think" /\ rule' = rule /\ rule \in {0, 1, 4} /\ ply \in Nat
  BY DEF Answers, Finish, FiveInv, IInv
<1>2. \A side : LongWins(side)' = LongWins(side)
  BY <1>1 DEF LongWins
<1>3. CASE pc' = "over" /\ state' \in {"illegal_move", "forbidden_move"}
  BY <1>1, <1>3 DEF FiveInv
<1>4. CASE /\ ~Refuses(m) /\ pos' = Move(pos, m) /\ played' = m
           /\ ply' = ply + 1 /\ pc' = "rules" /\ state' = state
  <2>1. state # "five_connect" /\ \A side \in Side : ~HasFive(pos.board, side, LongWins(side))
    BY <1>1 DEF FiveInv
  <2>2. pos.board \in [Square -> Side \cup {EMPTY}]
    BY RecordedType, Zenon DEF FiveInv, IInv
  <2> DEFINE q == PosFromMove(m)
  <2>3. q \in Square /\ pos.board[q] = EMPTY
    BY <1>4 DEF Refuses, IsLegalMove, At, EMPTY, WALL
  <2>4. pos'.board = [pos.board EXCEPT ![q] = pos.turn]
    BY <1>4 DEF Move
  <2>5. BoardBefore' = [pos'.board EXCEPT ![q] = EMPTY]
    BY <1>4 DEF BoardBefore, MovePoint
  <2> HIDE DEF m, q
  <2>6. BoardBefore' = pos.board
    BY <2>2, <2>3, <2>4, <2>5
  <2>7. ply' # 0
    BY <1>1, <1>4
  <2>8. \A side \in Side : ~HasFive(BoardBefore', side, LongWins(side)')
    BY <1>2, <2>1, <2>6, Zenon
  <2> QED
    BY <1>1, <1>4, <2>1, <2>7, <2>8, Zenon DEF FiveInv
<1> QED
  BY <1>3, <1>4 DEF Answers, Finish

LEMMA StepKeepsFives ==
  ASSUME AnswersInMargin, FiveInv, [Next]_vars
  PROVE  FiveInv'
<1>1. IInv'
  BY StepRecorded DEF FiveInv
<1>2. CASE UNCHANGED vars
  <2>1. UNCHANGED <<rule, pos, played, ply, pc, state>>
    BY <1>2 DEF vars
  <2> QED
    BY <1>1, <2>1 DEF FiveInv, BoardBefore, LongWins, LastMoveWins, StonesOf, MovePoint
<1>3. CASE ApplyRules
  BY <1>1, <1>3, RulesKeep
<1>4. CASE \E xy \in Answer : Answers(xy[1], xy[2])
  <2>1. PICK xy \in Answer : Answers(xy[1], xy[2])
    BY <1>4
  <2>2. xy[1] \in Margin /\ xy[2] \in Margin
    BY DEF AnswersInMargin
  <2> QED
    BY <1>1, <2>1, <2>2, AnswerKeeps
<1> QED
  BY <1>2, <1>3, <1>4 DEF Next, Over

(***************************************************************************)
(* FiveEndsTheGame on a board of any size: from an opening in which nobody *)
(* has five, the game goes on as long as nobody has what wins under the    *)
(* rule, and is won by the move that connects it - although the code scans *)
(* the lines of all stones of the side, not those of the move.             *)
(***************************************************************************)
THEOREM FiveByTheLastMove ==
  ASSUME AnswersInMargin, OpeningsOnce, OpeningsUndecided
  PROVE  Spec => []FiveEndsTheGame
<1>1. Init => FiveInv
  BY LoadedUndecided
<1>2. FiveInv /\ [Next]_vars => FiveInv'
  BY StepKeepsFives
<1>3. FiveInv => FiveEndsTheGame
  <2>1. ASSUME FiveInv, pc = "think", LastMoveWins
        PROVE  FALSE
    <3> DEFINE color == Opponent(pos.turn)
               q == MovePoint(played)
    <3>1. /\ Recorded(pos) /\ pos.hist # <<>> /\ played = pos.hist[Len(pos.hist)]
          /\ \A side \in Side : ~HasFive(pos.board, side, LongWins(side))
      BY <2>1 DEF FiveInv, IInv, LastMoveWins
    <3>2. q \in Square /\ pos.board[q] \in Side /\ pos.board[q] = color
      <4>1. TRUE \in BOOLEAN
        OBVIOUS
      <4> QED
        BY <3>1, <4>1, LastMoveScan, Zenon DEF MovePoint
    <3>3. StonesOf(color) = Stones(pos.board, color)
      BY DEF StonesOf, Stones
    <3>4. Wins(Stones(pos.board, color), q, LongWins(color))
      BY <2>1, <3>3, Zenon DEF LastMoveWins
    <3>5. q \in Stones(pos.board, color)
      BY <3>2, Zenon DEF Stones
    <3> HIDE DEF color, q
    <3> QED
      BY <3>1, <3>2, <3>4, <3>5, Zenon DEF HasFive
  <2> QED
    BY <2>1 DEF FiveEndsTheGame, FiveInv
<1> QED
  BY <1>1, <1>2, <1>3, PTL DEF Spec

-----------------------------------------------------------------------------
\* Renju: the recursions of the code and of the rule end, because each level
\* puts a stone.

\* The board is finite.
LEMMA SquareFinite == IsFiniteSet(Square)
<1>1. Square \in SUBSET PosBits
  BY SquarePoint
<1> DEFINE last == 1023
<1>2. 0 \in Int /\ last \in Int /\ PosBits = 0 .. last
  BY DEF PosBits
<1> HIDE DEF last
<1>3. IsFiniteSet(PosBits)
  BY <1>2, FS_Interval, Zenon
<1> QED
  BY <1>1, <1>3, FS_Subset, Zenon

(***************************************************************************)
(* The stone that a question puts, on the sets of points of the rule.      *)
(***************************************************************************)
LEMMA PutStone ==
  ASSUME NEW b \in Boards, NEW p \in Square, b[p] = EMPTY
  PROVE  /\ Put(b, p) \in Boards
         /\ Black(Put(b, p)) = Black(b) \cup {p}
         /\ Free(Put(b, p)) = Free(b) \ {p}
<1>1. Put(b, p) \in Boards
  BY DEF Put, Boards
<1>2. \A x \in Square : Put(b, p)[x] = IF x = p THEN BLACK ELSE b[x]
  BY DEF Put, Boards
<1>3. BLACK # EMPTY
  BY DEF BLACK, EMPTY
<1>4. Black(Put(b, p)) = Black(b) \cup {p}
  BY <1>2, <1>3 DEF Black
<1>5. Free(Put(b, p)) = Free(b) \ {p}
  BY <1>2, <1>3 DEF Free
<1> QED
  BY <1>1, <1>4, <1>5

\* The number of empty points
Empties(b) == Cardinality(Free(b))

\* A stone put leaves one empty point less.
LEMMA EmptiesPut ==
  ASSUME NEW b \in Boards
  PROVE  /\ Empties(b) \in 0 .. Cardinality(Square)
         /\ \A p \in Square : b[p] = EMPTY => Empties(Put(b, p)) < Empties(b)
<1>1. Free(b) \subseteq Square
  BY DEF Free
<1>2. /\ IsFiniteSet(Free(b)) /\ Cardinality(Free(b)) <= Cardinality(Square)
      /\ Cardinality(Square) \in Nat
  BY <1>1, SquareFinite, FS_Subset, FS_CardinalityType
<1>3. Empties(b) \in 0 .. Cardinality(Square)
  BY <1>2, FS_CardinalityType DEF Empties
<1>4. ASSUME NEW p \in Square, b[p] = EMPTY
      PROVE  Empties(Put(b, p)) < Empties(b)
  <2>1. p \in Free(b)
    BY <1>4 DEF Free
  <2>2. Cardinality(Free(b) \ {p}) = Cardinality(Free(b)) - 1
    BY <1>2, <2>1, FS_RemoveElement
  <2>3. Empties(Put(b, p)) = Empties(b) - 1
    BY <1>4, <2>2, PutStone DEF Empties
  <2> QED
    BY <1>3, <2>3
<1> QED
  BY <1>3, <1>4

DoubleThreeOf(f) ==
  [at \in Boards \X Int |->
     LET b == at[1]  p == at[2]
     IN  /\ At(b, p) = EMPTY /\ ~IsFive(b, p)
         /\ \E d, e \in Direction :
              d < e /\ IsOpenThree(b, p, d, f) /\ IsOpenThree(b, p, e, f)]

\* One level of the recursion of isDoubleThree, at one point
LEMMA DoubleThreeAt ==
  ASSUME NEW b \in Boards, NEW p \in Int, NEW f
  PROVE  DoubleThreeOf(f)[<<b, p>>] =
           (/\ At(b, p) = EMPTY /\ ~IsFive(b, p)
            /\ \E d, e \in Direction :
                 d < e /\ IsOpenThree(b, p, d, f) /\ IsOpenThree(b, p, e, f))
BY DEF DoubleThreeOf

\* An empty point is one of the board.
LEMMA OnBoard ==
  ASSUME NEW b, NEW p, At(b, p) = EMPTY
  PROVE  p \in Square /\ b[p] = EMPTY /\ p \in Int
<1>1. p \in Square /\ b[p] = EMPTY
  BY DEF At, EMPTY, WALL
<1> QED
  BY <1>1, SquarePoint DEF PosBits

(***************************************************************************)
(* isOpenThree asks about boards with a stone more only.                   *)
(***************************************************************************)
LEMMA OpenThreeAsks ==
  ASSUME NEW b, NEW p, NEW d, NEW f, NEW g,
         \A q \in Int : f[<<Put(b, p), q>>] = g[<<Put(b, p), q>>]
  PROVE  IsOpenThree(b, p, d, f) = IsOpenThree(b, p, d, g)
<1>1. \A q : IsOpenFourTrue(Put(b, p), q, d) => q \in Int
  BY OnBoard DEF IsOpenFourTrue, MakesTwoFives, MayMakeLine
<1>2. ASSUME NEW q, IsOpenFourTrue(Put(b, p), q, d)
      PROVE  f[<<Put(b, p), q>>] = g[<<Put(b, p), q>>]
  BY <1>1, <1>2
<1>3. (\E q \in Ends(Put(b, p), p, d) :
          /\ IsOpenFourTrue(Put(b, p), q, d)
          /\ ~IsDoubleFour(Put(b, p), q) /\ ~f[<<Put(b, p), q>>])
      = (\E q \in Ends(Put(b, p), p, d) :
          /\ IsOpenFourTrue(Put(b, p), q, d)
          /\ ~IsDoubleFour(Put(b, p), q) /\ ~g[<<Put(b, p), q>>])
  BY <1>2, Zenon
<1> QED
  BY <1>3, Zenon DEF IsOpenThree

\* doubleThree is what its recursion says.
LEMMA DoubleThreeIs ==
  ASSUME NEW b \in Boards, NEW p \in Int
  PROVE  doubleThree[<<b, p>>] =
           (/\ At(b, p) = EMPTY /\ ~IsFive(b, p)
            /\ \E d, e \in Direction :
                 /\ d < e /\ IsOpenThree(b, p, d, doubleThree)
                 /\ IsOpenThree(b, p, e, doubleThree))
<1> DEFINE D == Boards \X Int
           B == BOOLEAN
           N == Cardinality(Square)
           m == [at \in D |-> Empties(at[1])]
           G == [f \in [D -> B] |-> DoubleThreeOf(f)]
<1>1. N \in Nat /\ m \in [D -> 0 .. N]
  BY EmptiesPut, SquareFinite, FS_CardinalityType
<1>2. G \in [[D -> B] -> [D -> B]]
  <2>1. \A f : DoubleThreeOf(f) \in [D -> B]
    BY Zenon DEF DoubleThreeOf
  <2> HIDE DEF D
  <2> QED
    BY <2>1
<1>3. ASSUME NEW f \in [D -> B], NEW g \in [D -> B], NEW x \in D,
             \A y \in D : m[y] < m[x] => f[y] = g[y]
      PROVE  G[f][x] = G[g][x]
  <2>1. PICK c \in Boards, q \in Int : x = <<c, q>>
    OBVIOUS
  <2>2. CASE At(c, q) # EMPTY
    <3>1. DoubleThreeOf(f)[<<c, q>>] = FALSE /\ DoubleThreeOf(g)[<<c, q>>] = FALSE
      BY <2>2, DoubleThreeAt, Zenon
    <3> HIDE DEF D
    <3> QED
      BY <2>1, <3>1
  <2>3. CASE At(c, q) = EMPTY
    <3>1. q \in Square /\ c[q] = EMPTY
      BY <2>3, OnBoard, Zenon
    <3>2. Put(c, q) \in Boards /\ Empties(Put(c, q)) < Empties(c)
      BY <3>1, PutStone, EmptiesPut, Zenon
    <3>3. ASSUME NEW r \in Int
          PROVE  f[<<Put(c, q), r>>] = g[<<Put(c, q), r>>]
      <4>1. <<Put(c, q), r>> \in D /\ m[<<Put(c, q), r>>] = Empties(Put(c, q))
        BY <3>2
      <4>2. m[x] = Empties(c)
        BY <2>1
      <4> QED
        BY <1>3, <3>2, <4>1, <4>2, Zenon
    <3>4. \A d : IsOpenThree(c, q, d, f) = IsOpenThree(c, q, d, g)
      BY <3>3, OpenThreeAsks
    <3>5. DoubleThreeOf(f)[<<c, q>>] = DoubleThreeOf(g)[<<c, q>>]
      BY <3>4, DoubleThreeAt, Zenon
    <3> HIDE DEF D
    <3> QED
      BY <2>1, <3>5
  <2> QED
    BY <2>2, <2>3
<1>4. PICK f \in [D -> B] : f = G[f]
  <2>1. PICK no : no \in B
    OBVIOUS
  <2>2. G \in Recursions(D, B, m)
    <3> HIDE DEF D, B, N, m, G
    <3> QED
      BY <1>2, <1>3 DEF Recursions
  <2> HIDE DEF D, B, N, m, G
  <2> QED
    BY <1>1, <2>1, <2>2, RecursionExists
<1>5. f = DoubleThreeOf(f)
  <2> HIDE DEF D
  <2> QED
    BY <1>4
<1>6. doubleThree = CHOOSE g : g = DoubleThreeOf(g)
  BY Zenon DEF doubleThree, DoubleThreeOf
<1>7. doubleThree = DoubleThreeOf(doubleThree)
  BY <1>5, <1>6, Zenon
<1> QED
  BY <1>7, DoubleThreeAt, Zenon

\* What the rule says of a stone that was put at p
Verdict(stones, free, p, f) ==
  LET threes == {d \in Direction : IsThree(stones, free, p, d, f)}
      fours == UNION {FoursThrough(stones, free, p, d) : d \in Direction}
  IN  IF \E d \in Direction : Overline(stones, p, d) THEN "overline"
      ELSE IF Wins(stones, p, FALSE) THEN "none"
      ELSE IF Cardinality(threes) >= 2 THEN "double_three"
      ELSE IF Cardinality(fours) >= 2 THEN "double_four" ELSE "none"

Verdicts == {"overline", "none", "double_three", "double_four"}

RuleOf(f) ==
  [at \in (SUBSET Square) \X (SUBSET Square) \X Square |->
     Verdict(at[1] \cup {at[3]}, at[2] \ {at[3]}, at[3], f)]

\* A verdict asks about free points only, with the stone on the board.
LEMMA VerdictAsks ==
  ASSUME NEW stones, NEW free, NEW p, NEW f, NEW g,
         \A q \in free : f[<<stones, free, q>>] = g[<<stones, free, q>>]
  PROVE  Verdict(stones, free, p, f) = Verdict(stones, free, p, g)
<1>1. \A d : IsThree(stones, free, p, d, f) <=> IsThree(stones, free, p, d, g)
  BY Zenon DEF IsThree
<1>2. {d \in Direction : IsThree(stones, free, p, d, f)}
        = {d \in Direction : IsThree(stones, free, p, d, g)}
  BY <1>1
<1> QED
  BY <1>2 DEF Verdict

\* A verdict is one of four.
LEMMA VerdictType ==
  ASSUME NEW stones, NEW free, NEW p, NEW f
  PROVE  Verdict(stones, free, p, f) \in Verdicts
<1> DEFINE over == \E d \in Direction : Overline(stones, p, d)
           wins == Wins(stones, p, FALSE)
           threes == Cardinality({d \in Direction : IsThree(stones, free, p, d, f)}) >= 2
           fours == Cardinality(UNION {FoursThrough(stones, free, p, d) : d \in Direction}) >= 2
<1>1. Verdict(stones, free, p, f) =
        IF over THEN "overline" ELSE IF wins THEN "none"
        ELSE IF threes THEN "double_three" ELSE IF fours THEN "double_four" ELSE "none"
  BY DEF Verdict
<1> HIDE DEF over, wins, threes, fours
<1> QED
  BY <1>1 DEF Verdicts

(***************************************************************************)
(* foul is what its recursion says.                                        *)
(***************************************************************************)
LEMMA FoulIs ==
  ASSUME NEW S \in SUBSET Square, NEW F \in SUBSET Square, NEW p \in Square
  PROVE  foul[<<S, F, p>>] = Verdict(S \cup {p}, F \ {p}, p, foul)
<1> DEFINE D == (SUBSET Square) \X (SUBSET Square) \X Square
           M == Cardinality(Square)
           N == M + 1
           m == [at \in D |-> IF at[3] \in at[2] THEN Cardinality(at[2])
                                                ELSE Cardinality(at[2]) + 1]
           G == [f \in [D -> Verdicts] |-> RuleOf(f)]
<1>1. /\ M \in Nat
      /\ \A A \in SUBSET Square : /\ IsFiniteSet(A) /\ Cardinality(A) \in Nat
                                  /\ Cardinality(A) <= M
  BY SquareFinite, FS_CardinalityType, FS_Subset
<1>2. N \in Nat /\ m \in [D -> 0 .. N]
  <2>1. \A x \in D : x[2] \in SUBSET Square
    OBVIOUS
  <2> HIDE DEF M, D
  <2> QED
    BY <1>1, <2>1
<1>3. G \in [[D -> Verdicts] -> [D -> Verdicts]]
  <2>1. \A f : RuleOf(f) \in [D -> Verdicts]
    BY VerdictType DEF RuleOf
  <2> HIDE DEF D
  <2> QED
    BY <2>1
<1>4. ASSUME NEW f \in [D -> Verdicts], NEW g \in [D -> Verdicts], NEW x \in D,
             \A y \in D : m[y] < m[x] => f[y] = g[y]
      PROVE  G[f][x] = G[g][x]
  <2>1. PICK T \in SUBSET Square, E \in SUBSET Square, q \in Square : x = <<T, E, q>>
    OBVIOUS
  <2>2. ASSUME NEW r \in E \ {q}
        PROVE  f[<<T \cup {q}, E \ {q}, r>>] = g[<<T \cup {q}, E \ {q}, r>>]
    <3> DEFINE y == <<T \cup {q}, E \ {q}, r>>
    <3>1. y \in D /\ m[y] = Cardinality(E \ {q})
      OBVIOUS
    <3>2. m[x] = IF q \in E THEN Cardinality(E) ELSE Cardinality(E) + 1
      BY <2>1
    <3>3. q \in E => Cardinality(E \ {q}) = Cardinality(E) - 1
      BY <1>1, FS_RemoveElement
    <3>4. q \notin E => Cardinality(E \ {q}) = Cardinality(E)
      <4>1. q \notin E => E \ {q} = E
        OBVIOUS
      <4> QED
        BY <4>1, Zenon
    <3>5. Cardinality(E) \in Nat /\ Cardinality(E \ {q}) \in Nat
      <4>1. E \ {q} \in SUBSET Square
        OBVIOUS
      <4> QED
        BY <1>1, <4>1, Zenon
    <3>6. m[y] < m[x]
      <4> HIDE DEF m, y
      <4> QED
        BY <3>1, <3>2, <3>3, <3>4, <3>5
    <3> HIDE DEF m, y, D
    <3>7. f[y] = g[y]
      BY <1>4, <3>1, <3>6
    <3> QED
      BY <3>7 DEF y
  <2>3. Verdict(T \cup {q}, E \ {q}, q, f) = Verdict(T \cup {q}, E \ {q}, q, g)
    <3> DEFINE st == T \cup {q}
               fr == E \ {q}
    <3>1. \A r \in fr : f[<<st, fr, r>>] = g[<<st, fr, r>>]
      BY <2>2
    <3> HIDE DEF st, fr, D
    <3>2. Verdict(st, fr, q, f) = Verdict(st, fr, q, g)
      BY <3>1, VerdictAsks
    <3> QED
      BY <3>2 DEF st, fr
  <2>4. RuleOf(f)[x] = RuleOf(g)[x]
    BY <2>1, <2>3 DEF RuleOf
  <2> HIDE DEF D
  <2> QED
    BY <2>4
<1>5. PICK f \in [D -> Verdicts] : f = G[f]
  <2>1. "none" \in Verdicts
    BY DEF Verdicts
  <2>2. G \in Recursions(D, Verdicts, m)
    <3> HIDE DEF D, N, m, G
    <3> QED
      BY <1>3, <1>4 DEF Recursions
  <2> HIDE DEF D, N, m, G
  <2> QED
    BY <1>2, <2>1, <2>2, RecursionExists
<1>6. f = RuleOf(f)
  <2> HIDE DEF D
  <2> QED
    BY <1>5
<1>7. foul = CHOOSE g : g = RuleOf(g)
  BY Zenon DEF foul, RuleOf, Verdict
<1>8. foul = RuleOf(foul)
  BY <1>6, <1>7, Zenon
<1>9. RuleOf(foul)[<<S, F, p>>] = Verdict(S \cup {p}, F \ {p}, p, foul)
  BY DEF RuleOf
<1> QED
  BY <1>8, <1>9, Zenon

-----------------------------------------------------------------------------
\* Renju: lines as sets of whole numbers, in steps from a point

\* A line through p, by the number of steps from p
Axis(S, p, d) == {x \in Int : p + (x * d) \in S}

FiveOn(A, x) ==
  \E j \in x - 4 .. x : /\ \A i \in j .. j + 4 : i \in A
                        /\ j - 1 \notin A /\ j + 5 \notin A

SixOn(A, x) == \E j \in x - 5 .. x : \A i \in j .. j + 5 : i \in A

\* A window seen from a point of its line
LEMMA AxisWindow ==
  ASSUME NEW S, NEW p \in Int, NEW d \in Int, NEW x \in Int, NEW n \in Nat, NEW k \in Int
  PROVE  Window(p + (x * d), d, n, k) \subseteq S <=>
           \A i \in (x + 1) - k .. (x + n) - k : i \in Axis(S, p, d)
<1>1. \A i \in Int : (p + (x * d)) + ((i - k) * d) = p + (((x + i) - k) * d)
  OBVIOUS
<1>2. ASSUME Window(p + (x * d), d, n, k) \subseteq S, NEW i \in (x + 1) - k .. (x + n) - k
      PROVE  i \in Axis(S, p, d)
  <2> DEFINE h == (i + k) - x
  <2>1. h \in 1 .. n /\ (x + h) - k = i /\ h \in Int
    OBVIOUS
  <2>2. (p + (x * d)) + ((h - k) * d) \in Window(p + (x * d), d, n, k)
    BY <2>1 DEF Window
  <2> HIDE DEF h
  <2>3. p + (i * d) \in S
    BY <1>1, <1>2, <2>1, <2>2
  <2> QED
    BY <2>3 DEF Axis
<1>3. ASSUME \A i \in (x + 1) - k .. (x + n) - k : i \in Axis(S, p, d),
             NEW q \in Window(p + (x * d), d, n, k)
      PROVE  q \in S
  <2>1. PICK h \in 1 .. n : q = (p + (x * d)) + ((h - k) * d)
    BY DEF Window
  <2>2. (x + h) - k \in (x + 1) - k .. (x + n) - k
    OBVIOUS
  <2>3. (x + h) - k \in Axis(S, p, d)
    BY <1>3, <2>2
  <2> QED
    BY <1>1, <2>1, <2>3 DEF Axis
<1> QED
  BY <1>2, <1>3

\* The two points next to a window, seen from a point of its line
LEMMA AxisEnds ==
  ASSUME NEW S, NEW p \in Int, NEW d \in Int, NEW x \in Int, NEW n \in Nat, NEW k \in Int
  PROVE  /\ WindowEnds(p + (x * d), d, n, k) \cap S = {} <=>
              x - k \notin Axis(S, p, d) /\ (x + n + 1) - k \notin Axis(S, p, d)
         /\ WindowEnds(p + (x * d), d, n, k) \subseteq S <=>
              x - k \in Axis(S, p, d) /\ (x + n + 1) - k \in Axis(S, p, d)
<1>1. /\ (p + (x * d)) - (k * d) = p + ((x - k) * d)
      /\ (p + (x * d)) + (((n + 1) - k) * d) = p + (((x + n + 1) - k) * d)
  OBVIOUS
<1>2. WindowEnds(p + (x * d), d, n, k)
        = {p + ((x - k) * d), p + (((x + n + 1) - k) * d)}
  BY <1>1 DEF WindowEnds
<1>3. /\ p + ((x - k) * d) \in S <=> x - k \in Axis(S, p, d)
      /\ p + (((x + n + 1) - k) * d) \in S <=> (x + n + 1) - k \in Axis(S, p, d)
  BY DEF Axis
<1> QED
  BY <1>2, <1>3

\* Fives and overlines of the rule on the axis
LEMMA AxisFive ==
  ASSUME NEW S, NEW p \in Int, NEW d \in Int, NEW x \in Int
  PROVE  /\ ExactFive(S, p + (x * d), d) <=> FiveOn(Axis(S, p, d), x)
         /\ Overline(S, p + (x * d), d) <=> SixOn(Axis(S, p, d), x)
<1> DEFINE A == Axis(S, p, d)
           q == p + (x * d)
<1>1. \A i \in Int : p + (i * d) \in S <=> i \in A
  BY DEF Axis
<1>2. ASSUME NEW k \in 1 .. 5
      PROVE  /\ Window(q, d, 5, k) \subseteq S <=>
                  \A i \in (x + 1) - k .. ((x + 1) - k) + 4 : i \in A
             /\ WindowEnds(q, d, 5, k) \cap S = {} <=>
                  ((x + 1) - k) - 1 \notin A /\ ((x + 1) - k) + 5 \notin A
  <2>1. /\ (x + 5) - k = ((x + 1) - k) + 4 /\ x - k = ((x + 1) - k) - 1
        /\ (x + 5 + 1) - k = ((x + 1) - k) + 5 /\ 5 \in Nat /\ k \in Int
        /\ x - k \in Int /\ (x + 5 + 1) - k \in Int
    OBVIOUS
  <2>2. Window(q, d, 5, k) \subseteq S <=>
          \A i \in (x + 1) - k .. (x + 5) - k : i \in A
    BY <2>1, AxisWindow
  <2>4. WindowEnds(q, d, 5, k) \cap S = {} <=> x - k \notin A /\ (x + 5 + 1) - k \notin A
    BY <2>1, AxisEnds
  <2> HIDE DEF A, q
  <2> QED
    BY <2>1, <2>2, <2>4
<1>3. ASSUME NEW k \in 1 .. 6
      PROVE  Window(q, d, 6, k) \subseteq S <=>
                  \A i \in (x + 1) - k .. ((x + 1) - k) + 5 : i \in A
  <2>1. (x + 6) - k = ((x + 1) - k) + 5 /\ 6 \in Nat /\ k \in Int
    OBVIOUS
  <2> QED
    BY <2>1, AxisWindow
<1>4. ExactFive(S, q, d) <=>
        \E k \in 1 .. 5 : /\ \A i \in (x + 1) - k .. ((x + 1) - k) + 4 : i \in A
                          /\ ((x + 1) - k) - 1 \notin A /\ ((x + 1) - k) + 5 \notin A
  <2> HIDE DEF A, q
  <2> QED
    BY <1>2 DEF ExactFive
<1>5. Overline(S, q, d) <=>
        \E k \in 1 .. 6 : \A i \in (x + 1) - k .. ((x + 1) - k) + 5 : i \in A
  <2> HIDE DEF A, q
  <2> QED
    BY <1>3 DEF Overline
<1> HIDE DEF A
<1>6. /\ \A k \in 1 .. 5 : (x + 1) - k \in x - 4 .. x
      /\ \A j \in x - 4 .. x : (x + 1) - j \in 1 .. 5 /\ (x + 1) - ((x + 1) - j) = j
      /\ \A k \in 1 .. 6 : (x + 1) - k \in x - 5 .. x
      /\ \A j \in x - 5 .. x : (x + 1) - j \in 1 .. 6 /\ (x + 1) - ((x + 1) - j) = j
  OBVIOUS
<1>7. ExactFive(S, q, d) => FiveOn(A, x)
  BY <1>4, <1>6, Zenon DEF FiveOn
<1>8. ASSUME FiveOn(A, x) PROVE ExactFive(S, q, d)
  <2>1. PICK j \in x - 4 .. x : /\ \A i \in j .. j + 4 : i \in A
                                /\ j - 1 \notin A /\ j + 5 \notin A
    BY <1>8 DEF FiveOn
  <2> DEFINE k == (x + 1) - j
  <2>2. k \in 1 .. 5 /\ (x + 1) - k = j
    OBVIOUS
  <2> HIDE DEF k
  <2>3. /\ \A i \in (x + 1) - k .. ((x + 1) - k) + 4 : i \in A
        /\ ((x + 1) - k) - 1 \notin A /\ ((x + 1) - k) + 5 \notin A
    BY <2>1, <2>2
  <2> QED
    BY <1>4, <2>2, <2>3, Zenon
<1>9. Overline(S, q, d) => SixOn(A, x)
  BY <1>5, <1>6, Zenon DEF SixOn
<1>10. ASSUME SixOn(A, x) PROVE Overline(S, q, d)
  <2>1. PICK j \in x - 5 .. x : \A i \in j .. j + 5 : i \in A
    BY <1>10 DEF SixOn
  <2> DEFINE k == (x + 1) - j
  <2>2. k \in 1 .. 6 /\ (x + 1) - k = j
    OBVIOUS
  <2> HIDE DEF k
  <2>3. \A i \in (x + 1) - k .. ((x + 1) - k) + 5 : i \in A
    BY <2>1, <2>2
  <2> QED
    BY <1>5, <2>2, <2>3, Zenon
<1> QED
  BY <1>7, <1>8, <1>9, <1>10 DEF A

\* At finds the black stones.
LEMMA AtBlack ==
  ASSUME NEW b, NEW q
  PROVE  At(b, q) = BLACK <=> q \in Black(b)
BY DEF At, Black, BLACK, WALL

\* The axis in the other direction
LEMMA AxisBack ==
  ASSUME NEW S, NEW p \in Int, NEW d \in Int, NEW x \in Int
  PROVE  /\ x \in Axis(S, p, -d) <=> -x \in Axis(S, p, d)
         /\ -d \in Int
<1>1. p + (x * (-d)) = p + ((-x) * d)
  OBVIOUS
<1> QED
  BY <1>1 DEF Axis

(***************************************************************************)
(* The loops over stones next to a point stop at the first that is not     *)
(* black, or at their bound.                                               *)
(***************************************************************************)
LEMMA RunIs ==
  ASSUME NEW b, NEW p \in Int, NEW d \in Int, NEW max \in Nat
  PROVE  LET n == Run(b, p, d, max)
             A == Axis(Black(b), p, d)
         IN  /\ n \in 0 .. max /\ \A i \in 1 .. n : i \in A
             /\ n = max \/ n + 1 \notin A
<1> DEFINE A == Axis(Black(b), p, d)
           T == {i \in 0 .. max : i = max \/ i + 1 \notin A}
           Stops(n) == /\ \A i \in 1 .. n : At(b, p + i * d) = BLACK
                       /\ n = max \/ At(b, p + (n + 1) * d) # BLACK
<1>1. \A i \in Int : At(b, p + i * d) = BLACK <=> i \in A
  BY AtBlack DEF Axis
<1> HIDE DEF A
<1>2. max \in T /\ T \subseteq Nat
  OBVIOUS
<1>3. PICK n \in T : \A i \in T : n <= i
  <2> HIDE DEF T
  <2> QED
    BY <1>2, SmallestElement
<1>4. \A i \in 1 .. n : i - 1 \notin T
  BY <1>3
<1>5. \A i \in 1 .. n : i \in A
  <2>1. ASSUME NEW i \in 1 .. n
        PROVE  i \in A
    <3>1. i - 1 \in 0 .. max /\ (i - 1) + 1 = i
      OBVIOUS
    <3>2. i - 1 \notin T
      BY <1>4
    <3> QED
      BY <3>1, <3>2
  <2> QED
    BY <2>1
<1>6. n \in 0 .. max /\ Stops(n)
  <2>1. n \in 0 .. max /\ n + 1 \in Int /\ (n = max \/ n + 1 \notin A)
    BY <1>3
  <2>2. \A i \in 1 .. n : At(b, p + i * d) = BLACK
    <3>1. \A i \in 1 .. n : i \in Int
      OBVIOUS
    <3> QED
      BY <1>1, <1>5, <3>1, Zenon
  <2>3. n + 1 \notin A => At(b, p + (n + 1) * d) # BLACK
    BY <1>1, <2>1
  <2> QED
    BY <2>1, <2>2, <2>3
<1> HIDE DEF T
<1>7. Run(b, p, d, max) = CHOOSE i \in 0 .. max : Stops(i)
  BY DEF Run
<1> DEFINE r == Run(b, p, d, max)
<1>8. r \in 0 .. max /\ Stops(r)
  <2> HIDE DEF Stops
  <2> QED
    BY <1>6, <1>7
<1> HIDE DEF r
<1>9. r \in 0 .. max /\ (\A i \in 1 .. r : i \in A) /\ (r = max \/ r + 1 \notin A)
  BY <1>1, <1>8
<1> QED
  BY <1>9 DEF A, r

\* The stones before and after 0 on an axis, counted up to max
Before0(A, max, l) ==
  /\ l \in 0 .. max /\ \A i \in 1 .. l : -i \in A
  /\ l = max \/ -(l + 1) \notin A
After0(A, max, r) ==
  /\ r \in 0 .. max /\ \A i \in 1 .. r : i \in A
  /\ r = max \/ r + 1 \notin A

\* The loops to the left and to the right of a point
LEMMA RunsOnAxis ==
  ASSUME NEW b, NEW p \in Int, NEW d \in Int, NEW max \in Nat
  PROVE  /\ Before0(Axis(Black(b), p, d), max, Run(b, p, -d, max))
         /\ After0(Axis(Black(b), p, d), max, Run(b, p, d, max))
<1> DEFINE A == Axis(Black(b), p, d)
           l == Run(b, p, -d, max)
<1>1. /\ l \in 0 .. max /\ \A i \in 1 .. l : i \in Axis(Black(b), p, -d)
      /\ l = max \/ l + 1 \notin Axis(Black(b), p, -d)
  BY RunIs, AxisBack
<1>2. \A i \in Int : i \in Axis(Black(b), p, -d) <=> -i \in A
  BY AxisBack
<1> HIDE DEF A, l
<1>3. Before0(A, max, l)
  BY <1>1, <1>2 DEF Before0
<1>4. After0(Axis(Black(b), p, d), max, Run(b, p, d, max))
  BY RunIs DEF After0
<1> QED
  BY <1>3, <1>4 DEF A, l

\* The count of the two loops is five for exactly a five, more for an overline.
LEMMA CountOnAxis ==
  ASSUME NEW A, NEW l, NEW r, Before0(A, 5, l), After0(A, 5 - l, r)
  PROVE  /\ 1 + l + r \in 1 .. 6
         /\ 1 + l + r = 5 <=> FiveOn(A \cup {0}, 0)
         /\ 1 + l + r > 5 <=> SixOn(A \cup {0}, 0)
<1> DEFINE B == A \cup {0}
<1>1. /\ l \in 0 .. 5 /\ \A i \in 1 .. l : -i \in A
      /\ l = 5 \/ -(l + 1) \notin A
      /\ r \in 0 .. 5 - l /\ \A i \in 1 .. r : i \in A
      /\ r = 5 - l \/ r + 1 \notin A
  BY DEF Before0, After0
<1>2. \A i \in (-l) .. r : i \in B
  <2>1. ASSUME NEW i \in (-l) .. r
        PROVE  i \in B
    <3>1. CASE i < 0
      <4>1. -i \in 1 .. l /\ -(-i) = i
        BY <1>1, <3>1
      <4> QED
        BY <1>1, <4>1
    <3>2. CASE i = 0
      BY <3>2
    <3>3. CASE i > 0
      BY <1>1, <3>3
    <3> QED
      BY <1>1, <3>1, <3>2, <3>3
  <2> QED
    BY <2>1
<1>3. (l = 5 \/ (-l) - 1 \notin B) /\ (r = 5 - l \/ r + 1 \notin B)
  BY <1>1
<1> HIDE DEF B
<1>4. ASSUME 1 + l + r = 5 PROVE FiveOn(B, 0)
  <2>1. /\ -l \in 0 - 4 .. 0 /\ r = (-l) + 4 /\ r + 1 = (-l) + 5
        /\ (-l) - 1 \notin B /\ r + 1 \notin B
    BY <1>1, <1>3, <1>4
  <2> QED
    BY <1>2, <2>1 DEF FiveOn
<1>5. ASSUME 1 + l + r > 5 PROVE SixOn(B, 0)
  <2>1. -l \in 0 - 5 .. 0 /\ r = (-l) + 5
    BY <1>1, <1>5
  <2> QED
    BY <1>2, <2>1 DEF SixOn
<1>6. ASSUME FiveOn(B, 0) PROVE 1 + l + r = 5
  <2>1. PICK j \in 0 - 4 .. 0 : /\ \A i \in j .. j + 4 : i \in B
                                /\ j - 1 \notin B /\ j + 5 \notin B
    BY <1>6 DEF FiveOn
  <2>2. j <= -l
    <3>1. l = 5 => -5 \in B
      BY <1>1, <1>2
    <3>2. ~(l # 5 /\ (-l) - 1 \in j .. j + 4)
      BY <1>3, <2>1
    <3>3. ~(j - 1 \in (-l) .. r)
      BY <1>2, <2>1
    <3> QED
      BY <1>1, <3>1, <3>2, <3>3
  <2>3. -l <= j
    <3>1. ~((-l) - 1 \in j .. j + 4 /\ l # 5)
      BY <1>3, <2>1
    <3>2. ~(j - 1 \in (-l) .. r)
      BY <1>2, <2>1
    <3> QED
      BY <1>1, <3>1, <3>2
  <2>4. r <= j + 4
    <3>1. ~(j + 5 \in (-l) .. r)
      BY <1>2, <2>1
    <3> QED
      BY <1>1, <3>1
  <2>5. r >= j + 4
    <3>1. ~(r + 1 \in j .. j + 4 /\ r # 5 - l)
      BY <1>3, <2>1
    <3> QED
      BY <1>1, <2>2, <2>3, <3>1
  <2> QED
    BY <1>1, <2>2, <2>3, <2>4, <2>5
<1>7. ASSUME SixOn(B, 0) PROVE 1 + l + r > 5
  <2>1. PICK j \in 0 - 5 .. 0 : \A i \in j .. j + 5 : i \in B
    BY <1>7 DEF SixOn
  <2>2. l = 5 \/ -l <= j
    <3>1. ~((-l) - 1 \in j .. j + 5 /\ l # 5)
      BY <1>3, <2>1
    <3> QED
      BY <1>1, <3>1
  <2>3. r = 5 - l \/ r >= j + 5
    <3>1. ~(r + 1 \in j .. j + 5 /\ r # 5 - l)
      BY <1>3, <2>1
    <3> QED
      BY <1>1, <3>1
  <2> QED
    BY <1>1, <2>2, <2>3
<1> QED
  BY <1>1, <1>4, <1>5, <1>6, <1>7 DEF B

\* Count, seen on the axis
LEMMA CountIs ==
  ASSUME NEW b, NEW p \in Int, NEW d \in Int
  PROVE  LET B == Axis(Black(b), p, d) \cup {0}
         IN  /\ Count(b, p, d) = 5 <=> FiveOn(B, 0)
             /\ Count(b, p, d) > 5 <=> SixOn(B, 0)
<1> DEFINE A == Axis(Black(b), p, d)
           l == Run(b, p, -d, 5)
           r == Run(b, p, d, 5 - l)
<1>1. Before0(A, 5, l)
  BY RunsOnAxis
<1>2. 5 - l \in Nat
  BY <1>1 DEF Before0
<1>3. After0(A, 5 - l, r)
  BY <1>2, RunsOnAxis
<1>4. Count(b, p, d) = 1 + l + r
  BY DEF Count
<1> HIDE DEF A, l, r
<1>5. /\ 1 + l + r = 5 <=> FiveOn(A \cup {0}, 0)
      /\ 1 + l + r > 5 <=> SixOn(A \cup {0}, 0)
  BY <1>1, <1>3, CountOnAxis, Zenon
<1> QED
  BY <1>4, <1>5 DEF A

\* Directions are steps to the right or down.
LEMMA DirectionType == Direction \subseteq Int /\ \A d \in Direction : d > 0 /\ -d \in Int
BY DEF Direction

\* At finds the free points.
LEMMA AtEmpty ==
  ASSUME NEW b, NEW q
  PROVE  /\ At(b, q) = EMPTY <=> q \in Free(b)
         /\ q \in Free(b) => q \in Square /\ q \in Int /\ b[q] = EMPTY /\ q \notin Black(b)
<1>1. At(b, q) = EMPTY <=> q \in Free(b)
  BY DEF At, Free, EMPTY, WALL
<1>2. q \in Free(b) => q \in Square /\ b[q] = EMPTY /\ q \notin Black(b)
  BY DEF Free, Black, EMPTY, BLACK
<1>3. q \in Square => q \in Int
  BY SquarePoint DEF PosBits
<1> QED
  BY <1>1, <1>2, <1>3

(***************************************************************************)
(* A stone more on an axis, and the axis seen from another point of it.    *)
(***************************************************************************)
LEMMA AxisPut ==
  ASSUME NEW S, NEW p \in Int, NEW d \in Direction, NEW y \in Int
  PROVE  Axis(S \cup {p + (y * d)}, p, d) = Axis(S, p, d) \cup {y}
<1>1. \A x \in Int : p + (x * d) = p + (y * d) <=> x = y
  BY DEF Direction
<1> QED
  BY <1>1 DEF Axis

\* The stone at the middle of an axis
LEMMA AxisStone ==
  ASSUME NEW S, NEW p \in Int, NEW d \in Direction
  PROVE  /\ Axis(S \cup {p}, p, d) = Axis(S, p, d) \cup {0}
         /\ ExactFive(S, p, d) <=> FiveOn(Axis(S, p, d), 0)
         /\ Overline(S, p, d) <=> SixOn(Axis(S, p, d), 0)
<1>1. d \in Int
  BY DirectionType
<1>2. p + (0 * d) = p /\ 0 \in Int
  BY <1>1
<1>3. Axis(S \cup {p + (0 * d)}, p, d) = Axis(S, p, d) \cup {0}
  BY <1>2, AxisPut
<1>4. /\ ExactFive(S, p + (0 * d), d) <=> FiveOn(Axis(S, p, d), 0)
      /\ Overline(S, p + (0 * d), d) <=> SixOn(Axis(S, p, d), 0)
  BY <1>1, <1>2, AxisFive
<1> QED
  BY <1>2, <1>3, <1>4, Zenon

\* An axis counted from another of its points
LEMMA AxisShift ==
  ASSUME NEW S, NEW p \in Int, NEW d \in Direction, NEW y \in Int, NEW x \in Int
  PROVE  /\ p + (y * d) \in Int
         /\ x \in Axis(S, p + (y * d), d) <=> x + y \in Axis(S, p, d)
         /\ x \in Axis(S, p, d) <=> p + (x * d) \in S
<1>1. d \in Int
  BY DirectionType
<1>2. (p + (y * d)) + (x * d) = p + ((x + y) * d) /\ p + (y * d) \in Int
  BY <1>1
<1> QED
  BY <1>2 DEF Axis

(***************************************************************************)
(* isFive and isOverline find exactly five in line, and six.               *)
(***************************************************************************)
LEMMA CountIsOfTheRule ==
  ASSUME NEW b, NEW p \in Int, NEW d \in Direction
  PROVE  /\ Count(b, p, d) = 5 <=> ExactFive(Black(b) \cup {p}, p, d)
         /\ Count(b, p, d) > 5 <=> Overline(Black(b) \cup {p}, p, d)
<1> DEFINE S == Black(b) \cup {p}
<1>1. d \in Int
  BY DirectionType
<1>2. /\ Axis(S, p, d) = Axis(Black(b), p, d) \cup {0}
      /\ ExactFive(S, p, d) <=> FiveOn(Axis(S, p, d), 0)
      /\ Overline(S, p, d) <=> SixOn(Axis(S, p, d), 0)
  BY AxisStone
<1> QED
  BY <1>1, <1>2, CountIs

\* isFive and isOverline are the fives and overlines of the rule.
LEMMA LinesOfTheRule ==
  ASSUME NEW b, NEW p \in Free(b)
  PROVE  /\ \A d \in Direction :
              /\ IsFiveDir(b, p, d) <=> ExactFive(Black(b) \cup {p}, p, d)
              /\ Count(b, p, d) > 5 <=> Overline(Black(b) \cup {p}, p, d)
         /\ IsFive(b, p) <=> Wins(Black(b) \cup {p}, p, FALSE)
         /\ IsOverline(b, p) <=> \E d \in Direction : Overline(Black(b) \cup {p}, p, d)
<1>1. At(b, p) = EMPTY /\ p \in Int
  BY AtEmpty
<1>2. \A d \in Direction :
        /\ Count(b, p, d) = 5 <=> ExactFive(Black(b) \cup {p}, p, d)
        /\ Count(b, p, d) > 5 <=> Overline(Black(b) \cup {p}, p, d)
  BY <1>1, CountIsOfTheRule
<1>3. \A d \in Direction : IsFiveDir(b, p, d) <=> ExactFive(Black(b) \cup {p}, p, d)
  BY <1>1, <1>2, Zenon DEF IsFiveDir
<1>4. IsFive(b, p) <=> Wins(Black(b) \cup {p}, p, FALSE)
  BY <1>3 DEF IsFive, Wins
<1>5. IsOverline(b, p) <=> \E d \in Direction : Overline(Black(b) \cup {p}, p, d)
  BY <1>1, <1>2, Zenon DEF IsOverline
<1> QED
  BY <1>2, <1>3, <1>4, <1>5, Zenon

\* The stones in line with one at 0, of which there are four at most.
RowOn(B, l, r) ==
  /\ l \in 0 .. 3 /\ r \in 0 .. 3 - l
  /\ \A i \in (-l) .. r : i \in B
  /\ (-l) - 1 \notin B /\ r + 1 \notin B

\* Without a five, the loops that stop at four stones find both ends of a line.
LEMMA RowFound ==
  ASSUME NEW B, 0 \in B, ~FiveOn(B, 0), ~SixOn(B, 0),
         NEW l, NEW r, Before0(B, 4, l), After0(B, 4 - l, r)
  PROVE  RowOn(B, l, r)
<1>1. /\ l \in 0 .. 4 /\ \A i \in 1 .. l : -i \in B
      /\ l = 4 \/ -(l + 1) \notin B
      /\ r \in 0 .. 4 - l /\ \A i \in 1 .. r : i \in B
      /\ r = 4 - l \/ r + 1 \notin B
  BY DEF Before0, After0
<1>2. \A i \in (-l) .. r : i \in B
  <2>1. ASSUME NEW i \in (-l) .. r
        PROVE  i \in B
    <3>1. CASE i < 0
      <4>1. -i \in 1 .. l /\ -(-i) = i
        BY <1>1, <3>1
      <4> QED
        BY <1>1, <4>1
    <3>2. CASE i = 0
      BY <3>2
    <3>3. CASE i > 0
      BY <1>1, <3>3
    <3> QED
      BY <1>1, <3>1, <3>2, <3>3
  <2> QED
    BY <2>1
<1>3. ASSUME l + r = 4 PROVE FALSE
  <2>1. -l \in 0 - 4 .. 0 /\ r = (-l) + 4 /\ l \in Int
    BY <1>1, <1>3
  <2>2. \A i \in -l .. (-l) + 4 : i \in B
    BY <1>2, <2>1
  <2>3. (-l) - 1 \in B \/ (-l) + 5 \in B
    BY <2>1, <2>2 DEF FiveOn
  <2>4. (-l) - 1 \notin B
    <3>1. SUFFICES ASSUME (-l) - 1 \in B PROVE FALSE
      OBVIOUS
    <3>2. (-l) - 1 \in 0 - 5 .. 0
      BY <2>1
    <3>3. \A i \in (-l) - 1 .. ((-l) - 1) + 5 : i \in B
      BY <2>1, <2>2, <3>1
    <3> QED
      BY <3>2, <3>3 DEF SixOn
  <2>5. (-l) + 5 \notin B
    <3>1. SUFFICES ASSUME (-l) + 5 \in B PROVE FALSE
      OBVIOUS
    <3>2. -l \in 0 - 5 .. 0
      BY <2>1
    <3>3. \A i \in -l .. (-l) + 5 : i \in B
      BY <2>1, <2>2, <3>1
    <3> QED
      BY <3>2, <3>3 DEF SixOn
  <2> QED
    BY <2>3, <2>4, <2>5
<1>4. l \in 0 .. 3 /\ r \in 0 .. 3 - l /\ (-l) - 1 = -(l + 1)
  BY <1>1, <1>3
<1> QED
  BY <1>1, <1>2, <1>3, <1>4 DEF RowOn

(***************************************************************************)
(* The line of black's new stone: its ends, and whether it has four.       *)
(***************************************************************************)
LEMMA RowOfStone ==
  ASSUME NEW b \in Boards, NEW p \in Free(b), NEW d \in Direction,
         ~ExactFive(Black(b) \cup {p}, p, d), ~Overline(Black(b) \cup {p}, p, d)
  PROVE  \E l, r \in 0 .. 3 :
           /\ RowOn(Axis(Black(b) \cup {p}, p, d), l, r)
           /\ Ends(Put(b, p), p, d) = {p + (((-l) - 1) * d), p + ((r + 1) * d)}
           /\ HasFourStones(b, p, d) <=> l + r = 3
<1> DEFINE c == Put(b, p)
           S == Black(b) \cup {p}
           A == Axis(Black(b), p, d)
           B == Axis(S, p, d)
           l == Run(c, p, -d, 4)
           r == Run(c, p, d, 4 - l)
           left == Run(b, p, -d, 4)
           right == Run(b, p, d, 4)
<1>1. p \in Int /\ d \in Int /\ p \in Square /\ b[p] = EMPTY
  BY AtEmpty, DirectionType
<1>2. Black(c) = S
  BY <1>1, PutStone
<1>3. B = A \cup {0}
  BY <1>1, AxisStone
<1>4. Before0(B, 4, l)
  BY <1>1, <1>2, RunsOnAxis
<1>5. 4 - l \in Nat
  BY <1>4 DEF Before0
<1>6. After0(B, 4 - l, r)
  BY <1>1, <1>2, <1>5, RunsOnAxis
<1>7. ~FiveOn(B, 0) /\ ~SixOn(B, 0)
  <2>1. /\ ExactFive(S, p, d) <=> FiveOn(B, 0)
        /\ Overline(S, p, d) <=> SixOn(B, 0)
    BY <1>1, AxisStone
  <2> QED
    BY <2>1
<1>8. Before0(A, 4, left) /\ After0(A, 4, right)
  BY <1>1, RunsOnAxis
<1>9. Ends(c, p, d) = (IF l < 4 THEN {p - (l + 1) * d} ELSE {})
                        \cup (IF r < 4 - l THEN {p + (r + 1) * d} ELSE {})
  BY DEF Ends
<1>10. HasFourStones(b, p, d) <=> left + right = 3
  BY DEF HasFourStones
<1> HIDE DEF c, S, A, B, l, r, left, right
<1>11. RowOn(B, l, r)
  BY <1>3, <1>4, <1>6, <1>7, RowFound
<1>12. /\ l \in 0 .. 3 /\ r \in 0 .. 3 - l /\ r \in 0 .. 3
       /\ \A i \in (-l) .. r : i \in B
       /\ (-l) - 1 \notin B /\ r + 1 \notin B
  BY <1>11 DEF RowOn
<1>13. Ends(c, p, d) = {p + (((-l) - 1) * d), p + ((r + 1) * d)}
  <2>1. l < 4 /\ r < 4 - l
    BY <1>12
  <2>2. p - (l + 1) * d = p + (((-l) - 1) * d)
    BY <1>1, <1>12
  <2> QED
    BY <1>9, <2>1, <2>2
<1>14. left = l /\ right = r
  <2>1. /\ left \in 0 .. 4 /\ \A i \in 1 .. left : -i \in A
        /\ left = 4 \/ -(left + 1) \notin A
        /\ right \in 0 .. 4 /\ \A i \in 1 .. right : i \in A
        /\ right = 4 \/ right + 1 \notin A
    BY <1>8 DEF Before0, After0
  <2>2. \A i \in Int : i # 0 => (i \in A <=> i \in B)
    BY <1>3
  <2>3. left <= l
    <3>1. ~(l + 1 \in 1 .. left)
      <4>1. (-l) - 1 = -(l + 1) /\ -(l + 1) # 0 /\ -(l + 1) \in Int
        BY <1>12
      <4> QED
        BY <1>12, <2>1, <2>2, <4>1
    <3> QED
      BY <1>12, <2>1, <3>1
  <2>4. l <= left
    <3>1. left < l => -(left + 1) \in (-l) .. r /\ -(left + 1) # 0 /\ left # 4
      BY <1>12, <2>1
    <3>2. left < l => FALSE
      BY <1>12, <2>1, <2>2, <3>1
    <3> QED
      BY <1>12, <2>1, <3>2
  <2>5. right <= r
    <3>1. ~(r + 1 \in 1 .. right)
      BY <1>12, <2>1, <2>2
    <3> QED
      BY <1>12, <2>1, <3>1
  <2>6. r <= right
    <3>1. right < r => right + 1 \in (-l) .. r /\ right + 1 # 0 /\ right # 4
      BY <1>12, <2>1
    <3>2. right < r => FALSE
      BY <1>12, <2>1, <2>2, <3>1
    <3> QED
      BY <1>12, <2>1, <3>2
  <2> QED
    BY <1>12, <2>1, <2>3, <2>4, <2>5, <2>6
<1>15. \E x, y \in 0 .. 3 : /\ RowOn(B, x, y)
                            /\ Ends(c, p, d) = {p + (((-x) - 1) * d), p + ((y + 1) * d)}
                            /\ HasFourStones(b, p, d) <=> x + y = 3
  BY <1>10, <1>11, <1>12, <1>13, <1>14, Zenon
<1> QED
  BY <1>15 DEF c, S, B

-----------------------------------------------------------------------------
\* Renju: fours, as the points that make them fives and as sets of stones

(***************************************************************************)
(* A point of a line that makes a five.                                    *)
(***************************************************************************)
LEMMA FivePointOnAxis ==
  ASSUME NEW b, NEW p \in Int, NEW d \in Direction, NEW x \in Int
  PROVE  IsFiveDir(b, p + (x * d), d) <=>
           p + (x * d) \in Free(b) /\ FiveOn(Axis(Black(b), p, d) \cup {x}, x)
<1> DEFINE q == p + (x * d)
           S == Black(b) \cup {q}
<1>1. q \in Int /\ d \in Int
  BY DirectionType
<1>2. Count(b, q, d) = 5 <=> ExactFive(S, q, d)
  BY <1>1, CountIsOfTheRule
<1>3. Axis(S, p, d) = Axis(Black(b), p, d) \cup {x}
  BY AxisPut
<1>4. ExactFive(S, q, d) <=> FiveOn(Axis(S, p, d), x)
  <2> HIDE DEF S
  <2> QED
    BY <1>1, AxisFive
<1>5. IsFiveDir(b, q, d) <=> q \in Free(b) /\ Count(b, q, d) = 5
  BY AtEmpty, Zenon DEF IsFiveDir
<1> HIDE DEF q, S
<1>6. IsFiveDir(b, q, d) <=> q \in Free(b) /\ FiveOn(Axis(Black(b), p, d) \cup {x}, x)
  BY <1>2, <1>3, <1>4, <1>5, Zenon
<1> QED
  BY <1>6 DEF q

\* The points of a window through p
LEMMA WindowPoints ==
  ASSUME NEW p \in Int, NEW d \in Direction, NEW n \in Nat, NEW k \in Int
  PROVE  /\ \A q : q \in Window(p, d, n, k) <=> \E i \in 1 - k .. n - k : q = p + (i * d)
         /\ \A i \in Int : p + (i * d) \in Window(p, d, n, k) <=> i \in 1 - k .. n - k
<1>1. ASSUME NEW q, q \in Window(p, d, n, k)
      PROVE  \E i \in 1 - k .. n - k : q = p + (i * d)
  <2>1. PICK h \in 1 .. n : q = p + (h - k) * d
    BY <1>1 DEF Window
  <2>2. h - k \in 1 - k .. n - k
    OBVIOUS
  <2> QED
    BY <2>1, <2>2
<1>2. ASSUME NEW i \in 1 - k .. n - k
      PROVE  p + (i * d) \in Window(p, d, n, k)
  <2> DEFINE h == i + k
  <2>1. h \in 1 .. n /\ h - k = i
    OBVIOUS
  <2> HIDE DEF h
  <2> QED
    BY <2>1 DEF Window
<1>3. \A i, j \in Int : p + (i * d) = p + (j * d) => i = j
  BY DEF Direction
<1>4. \A q : q \in Window(p, d, n, k) <=> \E i \in 1 - k .. n - k : q = p + (i * d)
  BY <1>1, <1>2, Zenon
<1>5. \A i \in Int : p + (i * d) \in Window(p, d, n, k) => i \in 1 - k .. n - k
  BY <1>1, <1>3
<1>6. \A i \in Int : i \in 1 - k .. n - k => p + (i * d) \in Window(p, d, n, k)
  BY <1>2
<1> QED
  BY <1>4, <1>5, <1>6, Zenon

(***************************************************************************)
(* A window that lacks one stone for a five with the stones at 0 lacks it  *)
(* at one of the two ends of their line.                                   *)
(***************************************************************************)
LEMMA WindowOfRow ==
  ASSUME NEW B, 0 \in B, NEW l, NEW r, RowOn(B, l, r), ~FiveOn(B, 0),
         NEW j \in -4 .. 0, NEW y \in Int, y \notin B,
         \A i \in j .. j + 4 : i \in B \cup {y}, j - 1 \notin B, j + 5 \notin B
  PROVE  /\ FiveOn(B \cup {y}, y)
         /\ (j = -l /\ y = r + 1) \/ (j = r - 4 /\ y = (-l) - 1)
<1>1. /\ l \in 0 .. 3 /\ r \in 0 .. 3 - l
      /\ \A i \in (-l) .. r : i \in B
      /\ (-l) - 1 \notin B /\ r + 1 \notin B
  BY DEF RowOn
<1>2. y \in j .. j + 4
  <2>1. SUFFICES ASSUME y \notin j .. j + 4 PROVE FALSE
    OBVIOUS
  <2>2. j \in 0 - 4 .. 0 /\ \A i \in j .. j + 4 : i \in B
    BY <2>1
  <2> QED
    BY <2>2 DEF FiveOn
<1>3. y # 0 /\ y \notin (-l) .. r
  BY <1>1
<1>4. ASSUME y > 0 PROVE j = -l /\ y = r + 1
  <2>1. (-l) - 1 \notin j .. j + 4
    BY <1>1, <1>4
  <2>2. j - 1 \notin (-l) .. r
    BY <1>1
  <2>3. j = -l
    BY <1>1, <2>1, <2>2
  <2>4. r + 1 \in j .. j + 4
    BY <1>1, <2>3
  <2> QED
    BY <1>1, <2>3, <2>4
<1>5. ASSUME y < 0 PROVE j = r - 4 /\ y = (-l) - 1
  <2>1. r + 1 \notin j .. j + 4
    BY <1>1, <1>5
  <2>2. j + 5 \notin (-l) .. r
    BY <1>1
  <2>3. j = r - 4
    BY <1>1, <2>1, <2>2
  <2>4. (-l) - 1 \in j .. j + 4
    BY <1>1, <2>3
  <2> QED
    BY <1>1, <2>3, <2>4
<1>6. FiveOn(B \cup {y}, y)
  <2>1. j \in y - 4 .. y /\ j - 1 \notin B \cup {y} /\ j + 5 \notin B \cup {y}
    BY <1>2
  <2> QED
    BY <2>1 DEF FiveOn
<1> QED
  BY <1>3, <1>4, <1>5, <1>6

\* A point that makes a five of a line stands at its end.
LEMMA FiveOfRow ==
  ASSUME NEW B, NEW l, NEW r, RowOn(B, l, r)
  PROVE  /\ FiveOn(B \cup {r + 1}, r + 1) =>
              /\ \A i \in (-l) .. (-l) + 4 : i \in B \cup {r + 1}
              /\ (-l) - 1 \notin B /\ (-l) + 5 \notin B
         /\ FiveOn(B \cup {(-l) - 1}, (-l) - 1) =>
              /\ \A i \in r - 4 .. r : i \in B \cup {(-l) - 1}
              /\ r - 5 \notin B /\ r + 1 \notin B
<1>1. /\ l \in 0 .. 3 /\ r \in 0 .. 3 - l
      /\ \A i \in (-l) .. r : i \in B
      /\ (-l) - 1 \notin B /\ r + 1 \notin B
  BY DEF RowOn
<1>2. ASSUME FiveOn(B \cup {r + 1}, r + 1)
      PROVE  /\ \A i \in (-l) .. (-l) + 4 : i \in B \cup {r + 1}
             /\ (-l) + 5 \notin B
  <2>1. PICK j \in (r + 1) - 4 .. r + 1 :
          /\ \A i \in j .. j + 4 : i \in B \cup {r + 1}
          /\ j - 1 \notin B \cup {r + 1} /\ j + 5 \notin B \cup {r + 1}
    BY <1>2 DEF FiveOn
  <2>2. (-l) - 1 \notin j .. j + 4
    BY <1>1, <2>1
  <2>3. j - 1 \notin (-l) .. r
    BY <1>1, <2>1
  <2>4. j # r + 2
    BY <1>1
  <2>5. j = -l
    BY <1>1, <2>2, <2>3
  <2> QED
    BY <1>1, <2>1, <2>5
<1>3. ASSUME FiveOn(B \cup {(-l) - 1}, (-l) - 1)
      PROVE  /\ \A i \in r - 4 .. r : i \in B \cup {(-l) - 1}
             /\ r - 5 \notin B
  <2> DEFINE y == (-l) - 1
  <2>1. PICK j \in y - 4 .. y :
          /\ \A i \in j .. j + 4 : i \in B \cup {y}
          /\ j - 1 \notin B \cup {y} /\ j + 5 \notin B \cup {y}
    BY <1>3 DEF FiveOn
  <2>2. r + 1 \notin j .. j + 4
    BY <1>1, <2>1
  <2>3. j + 5 \notin (-l) .. r
    BY <1>1, <2>1
  <2>4. j = r - 4
    BY <1>1, <2>2, <2>3
  <2> QED
    BY <1>1, <2>1, <2>4
<1> QED
  BY <1>1, <1>2, <1>3

\* Windows of p among a set of stones
LEMMA WindowOnAxis ==
  ASSUME NEW S, NEW p \in Int, NEW d \in Direction, NEW n \in Nat, NEW k \in Int
  PROVE  /\ Window(p, d, n, k) \subseteq S <=>
              \A i \in 1 - k .. n - k : i \in Axis(S, p, d)
         /\ WindowEnds(p, d, n, k) \cap S = {} <=>
              -k \notin Axis(S, p, d) /\ (n + 1) - k \notin Axis(S, p, d)
         /\ WindowEnds(p, d, n, k) \subseteq S <=>
              -k \in Axis(S, p, d) /\ (n + 1) - k \in Axis(S, p, d)
<1>1. d \in Int /\ 0 \in Int
  BY DirectionType
<1>2. p + (0 * d) = p
  BY <1>1
<1>3. Window(p + (0 * d), d, n, k) \subseteq S <=>
        \A i \in (0 + 1) - k .. (0 + n) - k : i \in Axis(S, p, d)
  BY <1>1, AxisWindow
<1>4. /\ WindowEnds(p + (0 * d), d, n, k) \cap S = {} <=>
           0 - k \notin Axis(S, p, d) /\ (0 + n + 1) - k \notin Axis(S, p, d)
      /\ WindowEnds(p + (0 * d), d, n, k) \subseteq S <=>
           0 - k \in Axis(S, p, d) /\ (0 + n + 1) - k \in Axis(S, p, d)
  BY <1>1, AxisEnds
<1>5. /\ (0 + 1) - k = 1 - k /\ (0 + n) - k = n - k /\ 0 - k = -k
      /\ (0 + n + 1) - k = (n + 1) - k
  OBVIOUS
<1> QED
  BY <1>2, <1>3, <1>4, <1>5

\* A window with p in it that one free point fills: a four of the rule
FourWindow(S, F, p, d, k) ==
  \E q \in F : /\ Window(p, d, 5, k) \subseteq S \cup {q}
               /\ WindowEnds(p, d, 5, k) \cap S = {}

\* The line of a stone that black put at p, seen on both sides
Lined(b, p, d, l, r) ==
  /\ b \in Boards /\ p \in Free(b) /\ d \in Direction
  /\ ~ExactFive(Black(b) \cup {p}, p, d)
  /\ l \in 0 .. 3 /\ r \in 0 .. 3
  /\ RowOn(Axis(Black(b) \cup {p}, p, d), l, r)

LeftFive(b, p, d, l) == IsFiveDir(Put(b, p), p + (((-l) - 1) * d), d)
RightFive(b, p, d, r) == IsFiveDir(Put(b, p), p + ((r + 1) * d), d)

\* What a line knows of its two ends
LEMMA LinedParts ==
  ASSUME NEW b, NEW p, NEW d, NEW l, NEW r, Lined(b, p, d, l, r)
  PROVE  LET B == Axis(Black(b) \cup {p}, p, d)
         IN  /\ p \in Int /\ p \in Square /\ b[p] = EMPTY /\ d \in Int
             /\ Black(Put(b, p)) = Black(b) \cup {p} /\ Free(Put(b, p)) = Free(b) \ {p}
             /\ (Black(b) \cup {p}) \cap (Free(b) \ {p}) = {}
             /\ 0 \in B /\ ~FiveOn(B, 0)
             /\ l \in 0 .. 3 /\ r \in 0 .. 3 - l
             /\ \A i \in (-l) .. r : i \in B
             /\ (-l) - 1 \notin B /\ r + 1 \notin B
             /\ LeftFive(b, p, d, l) <=>
                  /\ p + (((-l) - 1) * d) \in Free(b) \ {p}
                  /\ FiveOn(B \cup {(-l) - 1}, (-l) - 1)
             /\ RightFive(b, p, d, r) <=>
                  /\ p + ((r + 1) * d) \in Free(b) \ {p}
                  /\ FiveOn(B \cup {r + 1}, r + 1)
<1> DEFINE S == Black(b) \cup {p}
           B == Axis(S, p, d)
           c == Put(b, p)
<1>1. /\ b \in Boards /\ p \in Free(b) /\ d \in Direction /\ ~ExactFive(S, p, d)
      /\ RowOn(B, l, r)
  BY DEF Lined
<1>2. p \in Int /\ p \in Square /\ b[p] = EMPTY /\ d \in Int
  BY <1>1, AtEmpty, DirectionType
<1>3. Black(c) = S /\ Free(c) = Free(b) \ {p}
  BY <1>1, <1>2, PutStone
<1>4. S \cap (Free(b) \ {p}) = {}
  BY AtEmpty
<1>5. 0 \in B /\ ~FiveOn(B, 0)
  <2>1. ExactFive(S, p, d) <=> FiveOn(B, 0)
    BY <1>1, <1>2, AxisStone
  <2>2. 0 \in B
    BY <1>1, <1>2, AxisStone
  <2> QED
    BY <1>1, <2>1, <2>2
<1> HIDE DEF S, B, c
<1>6. /\ l \in 0 .. 3 /\ r \in 0 .. 3 - l
      /\ \A i \in (-l) .. r : i \in B
      /\ (-l) - 1 \notin B /\ r + 1 \notin B
  BY <1>1 DEF RowOn
<1>7. (-l) - 1 \in Int /\ r + 1 \in Int
  BY <1>6
<1>8. \A x \in Int : IsFiveDir(c, p + (x * d), d) <=>
                       p + (x * d) \in Free(b) \ {p} /\ FiveOn(B \cup {x}, x)
  BY <1>1, <1>2, <1>3, FivePointOnAxis DEF B
<1>9. LeftFive(b, p, d, l) <=>
        /\ p + (((-l) - 1) * d) \in Free(b) \ {p}
        /\ FiveOn(B \cup {(-l) - 1}, (-l) - 1)
  BY <1>7, <1>8, Zenon DEF LeftFive, c
<1>10. RightFive(b, p, d, r) <=>
         /\ p + ((r + 1) * d) \in Free(b) \ {p}
         /\ FiveOn(B \cup {r + 1}, r + 1)
  BY <1>7, <1>8, Zenon DEF RightFive, c
<1>11. (Black(b) \cup {p}) \cap (Free(b) \ {p}) = {}
  BY <1>4 DEF S
<1> QED
  BY <1>2, <1>3, <1>5, <1>6, <1>9, <1>10, <1>11, Zenon DEF S, B, c

\* The windows of p that are fours of the rule are at most two, one at each end of its line.
LEMMA FourWindowsOfRow ==
  ASSUME NEW b, NEW p, NEW d, NEW l, NEW r, Lined(b, p, d, l, r), NEW k \in 1 .. 5
  PROVE  FourWindow(Black(b) \cup {p}, Free(b) \ {p}, p, d, k) <=>
           \/ k = l + 1 /\ RightFive(b, p, d, r)
           \/ k = 5 - r /\ LeftFive(b, p, d, l)
<1> DEFINE S == Black(b) \cup {p}
           F == Free(b) \ {p}
           B == Axis(S, p, d)
<1>1. /\ p \in Int /\ d \in Int /\ S \cap F = {} /\ 0 \in B /\ ~FiveOn(B, 0)
      /\ l \in 0 .. 3 /\ r \in 0 .. 3 - l
      /\ \A i \in (-l) .. r : i \in B
      /\ (-l) - 1 \notin B /\ r + 1 \notin B
      /\ LeftFive(b, p, d, l) <=>
           p + (((-l) - 1) * d) \in F /\ FiveOn(B \cup {(-l) - 1}, (-l) - 1)
      /\ RightFive(b, p, d, r) <=>
           p + ((r + 1) * d) \in F /\ FiveOn(B \cup {r + 1}, r + 1)
  BY LinedParts, Zenon
<1>2. d \in Direction /\ RowOn(B, l, r)
  BY DEF Lined
<1>3. k \in Int /\ 5 \in Nat /\ (5 + 1) - k = 6 - k /\ 5 - k = (1 - k) + 4
  OBVIOUS
<1>4. \A y \in Int : Axis(S \cup {p + (y * d)}, p, d) = B \cup {y}
  BY <1>1, <1>2, AxisPut
<1>5. ASSUME NEW T
      PROVE  Window(p, d, 5, k) \subseteq T <=>
               \A i \in 1 - k .. 5 - k : i \in Axis(T, p, d)
  <2>1. p \in Int /\ d \in Direction /\ k \in Int /\ 5 \in Nat
    BY <1>1, <1>2
  <2> HIDE DEF S, F, B
  <2> QED
    BY <2>1, WindowOnAxis
<1>6. WindowEnds(p, d, 5, k) \cap S = {} <=> -k \notin B /\ 6 - k \notin B
  BY <1>1, <1>2, <1>3, WindowOnAxis
<1>7. \A x \in Int : x \in B <=> p + (x * d) \in S
  BY DEF Axis
<1>8. ASSUME NEW q \in F, ~(\E y \in Int : q = p + (y * d))
      PROVE  Axis(S \cup {q}, p, d) = B
  BY <1>8 DEF Axis
<1> HIDE DEF S, F, B
<1>9. ASSUME NEW q \in F, Window(p, d, 5, k) \subseteq S \cup {q},
             WindowEnds(p, d, 5, k) \cap S = {}
      PROVE  \/ k = l + 1 /\ RightFive(b, p, d, r)
             \/ k = 5 - r /\ LeftFive(b, p, d, l)
  <2>1. \A i \in 1 - k .. 5 - k : i \in Axis(S \cup {q}, p, d)
    BY <1>5, <1>9
  <2>2. -k \notin B /\ 6 - k \notin B
    BY <1>6, <1>9
  <2>3. /\ 1 - k \in -4 .. 0 /\ (1 - k) - 1 = -k /\ (1 - k) + 5 = 6 - k
        /\ 5 - k = (1 - k) + 4
    OBVIOUS
  <2>4. PICK y \in Int : q = p + (y * d)
    <3>1. SUFFICES ASSUME ~(\E y \in Int : q = p + (y * d)) PROVE FALSE
      OBVIOUS
    <3>2. \A i \in 1 - k .. (1 - k) + 4 : i \in B
      BY <1>8, <2>1, <2>3, <3>1
    <3>3. 1 - k \in 0 - 4 .. 0
      OBVIOUS
    <3> QED
      BY <1>1, <2>2, <2>3, <3>2, <3>3 DEF FiveOn
  <2>5. y \notin B
    BY <1>1, <1>7, <2>4
  <2>6. \A i \in 1 - k .. (1 - k) + 4 : i \in B \cup {y}
    BY <1>4, <2>1, <2>3, <2>4
  <2>7. (1 - k) - 1 \notin B /\ (1 - k) + 5 \notin B
    BY <2>2, <2>3
  <2>8. /\ FiveOn(B \cup {y}, y)
        /\ (1 - k = -l /\ y = r + 1) \/ (1 - k = r - 4 /\ y = (-l) - 1)
    <3> DEFINE j == 1 - k
    <3>1. j \in -4 .. 0
      BY <2>3
    <3> HIDE DEF j
    <3>2. /\ FiveOn(B \cup {y}, y)
          /\ (j = -l /\ y = r + 1) \/ (j = r - 4 /\ y = (-l) - 1)
      <4>1. /\ \A i \in j .. j + 4 : i \in B \cup {y}
            /\ j - 1 \notin B /\ j + 5 \notin B
        BY <2>6, <2>7 DEF j
      <4> QED
        BY <1>1, <1>2, <2>5, <3>1, <4>1, WindowOfRow
    <3> QED
      BY <3>2 DEF j
  <2>9. CASE 1 - k = -l /\ y = r + 1
    BY <1>1, <2>4, <2>8, <2>9
  <2>10. CASE 1 - k = r - 4 /\ y = (-l) - 1
    BY <1>1, <2>4, <2>8, <2>10
  <2> QED
    BY <2>8, <2>9, <2>10
<1>10. ASSUME k = l + 1, RightFive(b, p, d, r)
       PROVE  FourWindow(S, F, p, d, k)
  <2>1. p + ((r + 1) * d) \in F /\ FiveOn(B \cup {r + 1}, r + 1) /\ r + 1 \in Int
    BY <1>1, <1>10
  <2>2. /\ \A i \in (-l) .. (-l) + 4 : i \in B \cup {r + 1}
        /\ (-l) - 1 \notin B /\ (-l) + 5 \notin B
    BY <1>2, <2>1, FiveOfRow
  <2>3. 1 - k = -l /\ 5 - k = (-l) + 4 /\ -k = (-l) - 1 /\ 6 - k = (-l) + 5
    BY <1>1, <1>10
  <2>4. Window(p, d, 5, k) \subseteq S \cup {p + ((r + 1) * d)}
    BY <1>4, <1>5, <2>1, <2>2, <2>3
  <2>5. WindowEnds(p, d, 5, k) \cap S = {}
    BY <1>6, <2>2, <2>3
  <2> QED
    BY <2>1, <2>4, <2>5 DEF FourWindow
<1>11. ASSUME k = 5 - r, LeftFive(b, p, d, l)
       PROVE  FourWindow(S, F, p, d, k)
  <2>1. /\ p + (((-l) - 1) * d) \in F /\ FiveOn(B \cup {(-l) - 1}, (-l) - 1)
        /\ (-l) - 1 \in Int
    BY <1>1, <1>11
  <2>2. /\ \A i \in r - 4 .. r : i \in B \cup {(-l) - 1}
        /\ r - 5 \notin B /\ r + 1 \notin B
    BY <1>2, <2>1, FiveOfRow
  <2>3. 1 - k = r - 4 /\ 5 - k = r /\ -k = r - 5 /\ 6 - k = r + 1
    BY <1>1, <1>11
  <2>4. Window(p, d, 5, k) \subseteq S \cup {p + (((-l) - 1) * d)}
    BY <1>4, <1>5, <2>1, <2>2, <2>3
  <2>5. WindowEnds(p, d, 5, k) \cap S = {}
    BY <1>6, <2>2, <2>3
  <2> QED
    BY <2>1, <2>4, <2>5 DEF FourWindow
<1>12. FourWindow(S, F, p, d, k) <=>
         \/ k = l + 1 /\ RightFive(b, p, d, r)
         \/ k = 5 - r /\ LeftFive(b, p, d, l)
  BY <1>9, <1>10, <1>11 DEF FourWindow
<1> QED
  BY <1>12 DEF S, F

\* What the rule's fours on the line of p are
FoursAsLine(b, p, d, l, r, fours) ==
  /\ fours # {} <=> LeftFive(b, p, d, l) \/ RightFive(b, p, d, r)
  /\ (\E G, H \in fours : G # H) <=>
       LeftFive(b, p, d, l) /\ RightFive(b, p, d, r) /\ l + r # 3
  /\ \A G \in fours :
       /\ G \subseteq Black(b) \cup {p}
       /\ \A g \in G : \E i \in -4 .. 4 : g = p + (i * d)
       /\ \E i \in -4 .. 4 : i # 0 /\ p + (i * d) \in G

(***************************************************************************)
(* The fours of the rule on one line, by the points that make them fives.  *)
(***************************************************************************)
LEMMA FoursOfLine ==
  ASSUME NEW b, NEW p, NEW d, NEW l, NEW r, Lined(b, p, d, l, r)
  PROVE  FoursAsLine(b, p, d, l, r,
                     FoursThrough(Black(b) \cup {p}, Free(b) \ {p}, p, d))
<1> DEFINE S == Black(b) \cup {p}
           F == Free(b) \ {p}
           B == Axis(S, p, d)
           W(k) == Window(p, d, 5, k)
           K == {k \in 1 .. 5 : FourWindow(S, F, p, d, k)}
           fours == FoursThrough(S, F, p, d)
           L == LeftFive(b, p, d, l)
           R == RightFive(b, p, d, r)
<1>1. /\ p \in Int /\ d \in Int /\ S \cap F = {} /\ 0 \in B
      /\ l \in 0 .. 3 /\ r \in 0 .. 3 - l
      /\ \A i \in (-l) .. r : i \in B
      /\ (-l) - 1 \notin B /\ r + 1 \notin B
      /\ L <=> p + (((-l) - 1) * d) \in F /\ FiveOn(B \cup {(-l) - 1}, (-l) - 1)
      /\ R <=> p + ((r + 1) * d) \in F /\ FiveOn(B \cup {r + 1}, r + 1)
  BY LinedParts, Zenon
<1>2. d \in Direction /\ RowOn(B, l, r)
  BY DEF Lined
<1>3. fours = {W(k) \ F : k \in K}
  BY DEF FoursThrough, FourWindow
<1>4. \A k \in 1 .. 5 : k \in K <=> (k = l + 1 /\ R) \/ (k = 5 - r /\ L)
  BY FourWindowsOfRow
<1>5. \A x \in Int : x \in B <=> p + (x * d) \in S
  BY DEF Axis
<1>6. ASSUME NEW k \in 1 .. 5
      PROVE  /\ \A q : q \in W(k) <=> \E i \in 1 - k .. 5 - k : q = p + (i * d)
             /\ \A i \in Int : p + (i * d) \in W(k) <=> i \in 1 - k .. 5 - k
  <2>1. p \in Int /\ d \in Direction /\ k \in Int /\ 5 \in Nat
    BY <1>1, <1>2
  <2> HIDE DEF S, F, B, K, fours, L, R
  <2> QED
    BY <2>1, WindowPoints
<1>7. /\ R => /\ \A i \in (-l) .. (-l) + 4 : i \in B \cup {r + 1}
              /\ p + ((r + 1) * d) \in F
      /\ L => /\ \A i \in r - 4 .. r : i \in B \cup {(-l) - 1}
              /\ p + (((-l) - 1) * d) \in F
  <2> HIDE DEF S, F, B, L, R
  <2> QED
    BY <1>1, <1>2, FiveOfRow
<1> HIDE DEF S, F, B, W, K, fours, L, R
<1>8. l + 1 \in 1 .. 5 /\ 5 - r \in 1 .. 5
  BY <1>1
<1>9. ASSUME R PROVE W(l + 1) \ F \in fours
  BY <1>3, <1>4, <1>8, <1>9
<1>10. ASSUME L PROVE W(5 - r) \ F \in fours
  BY <1>3, <1>4, <1>8, <1>10
<1>11. ASSUME NEW G \in fours
       PROVE  (R /\ G = W(l + 1) \ F) \/ (L /\ G = W(5 - r) \ F)
  <2>1. PICK k \in K : G = W(k) \ F
    BY <1>3
  <2>2. k \in 1 .. 5
    BY DEF K
  <2> QED
    BY <1>4, <2>1, <2>2
<1>12. fours # {} <=> L \/ R
  BY <1>9, <1>10, <1>11
<1>13. ASSUME R, NEW i \in Int
       PROVE  p + (i * d) \in W(l + 1) \ F <=> i \in (-l) .. (-l) + 4 /\ i # r + 1
  <2>1. p + (i * d) \in W(l + 1) <=> i \in 1 - (l + 1) .. 5 - (l + 1)
    BY <1>6, <1>8
  <2>2. 1 - (l + 1) = -l /\ 5 - (l + 1) = (-l) + 4
    BY <1>1
  <2>3. i \in (-l) .. (-l) + 4 /\ i # r + 1 => p + (i * d) \notin F
    BY <1>1, <1>5, <1>7, <1>13
  <2>4. i = r + 1 => p + (i * d) \in F
    BY <1>7, <1>13
  <2> QED
    BY <2>1, <2>2, <2>3, <2>4
<1>14. ASSUME L, NEW i \in Int
       PROVE  p + (i * d) \in W(5 - r) \ F <=> i \in r - 4 .. r /\ i # (-l) - 1
  <2>1. p + (i * d) \in W(5 - r) <=> i \in 1 - (5 - r) .. 5 - (5 - r)
    BY <1>6, <1>8
  <2>2. 1 - (5 - r) = r - 4 /\ 5 - (5 - r) = r
    BY <1>1
  <2>3. i \in r - 4 .. r /\ i # (-l) - 1 => p + (i * d) \notin F
    BY <1>1, <1>5, <1>7, <1>14
  <2>4. i = (-l) - 1 => p + (i * d) \in F
    BY <1>7, <1>14
  <2> QED
    BY <2>1, <2>2, <2>3, <2>4
<1>15. ASSUME NEW k \in 1 .. 5, NEW g \in W(k) \ F
       PROVE  \E i \in -4 .. 4 : g = p + (i * d)
  <2>1. PICK i \in 1 - k .. 5 - k : g = p + (i * d)
    BY <1>6
  <2> QED
    BY <2>1
<1>16. ASSUME L, R, l + r # 3
       PROVE  W(l + 1) \ F # W(5 - r) \ F
  <2>1. r - 4 \in Int /\ r - 4 \in r - 4 .. r /\ r - 4 # (-l) - 1 /\ r - 4 \notin (-l) .. (-l) + 4
    BY <1>1, <1>16
  <2>2. p + ((r - 4) * d) \in W(5 - r) \ F /\ p + ((r - 4) * d) \notin W(l + 1) \ F
    BY <1>13, <1>14, <1>16, <2>1
  <2> QED
    BY <2>2
<1>17. ASSUME L, R, l + r = 3
       PROVE  W(l + 1) \ F = W(5 - r) \ F
  <2>1. \A i \in Int : (i \in (-l) .. (-l) + 4 /\ i # r + 1) <=> (i \in r - 4 .. r /\ i # (-l) - 1)
    BY <1>1, <1>17
  <2>2. \A i \in Int : p + (i * d) \in W(l + 1) \ F <=> p + (i * d) \in W(5 - r) \ F
    BY <1>13, <1>14, <1>17, <2>1, Zenon
  <2>3. \A g : g \in W(l + 1) \ F => g \in W(5 - r) \ F
    BY <1>8, <1>15, <2>2
  <2>4. \A g : g \in W(5 - r) \ F => g \in W(l + 1) \ F
    BY <1>8, <1>15, <2>2
  <2> QED
    BY <2>3, <2>4
<1>18. (\E G, H \in fours : G # H) <=> L /\ R /\ l + r # 3
  BY <1>9, <1>10, <1>11, <1>16, <1>17, Zenon
<1>19. ASSUME NEW G \in fours
       PROVE  /\ G \subseteq S
              /\ \A g \in G : \E i \in -4 .. 4 : g = p + (i * d)
              /\ \E i \in -4 .. 4 : i # 0 /\ p + (i * d) \in G
  <2>1. PICK k \in K : G = W(k) \ F
    BY <1>3
  <2>2. k \in 1 .. 5 /\ FourWindow(S, F, p, d, k)
    BY DEF K
  <2>3. G \subseteq S
    BY <2>1, <2>2 DEF FourWindow, W
  <2>4. \A g \in G : \E i \in -4 .. 4 : g = p + (i * d)
    BY <1>15, <2>1, <2>2
  <2>5. CASE R /\ G = W(l + 1) \ F
    <3>1. PICK i \in {-1, 1, 2} : i \in (-l) .. (-l) + 4 /\ i # r + 1
      <4>1. CASE l >= 1
        BY <1>1, <4>1
      <4>2. CASE l = 0 /\ r = 0
        BY <4>2
      <4>3. CASE l = 0 /\ r >= 1
        BY <1>1, <4>3
      <4> QED
        BY <1>1, <4>1, <4>2, <4>3
    <3>2. i \in Int /\ i \in -4 .. 4 /\ i # 0
      OBVIOUS
    <3>3. p + (i * d) \in G
      BY <1>13, <2>5, <3>1, <3>2
    <3> QED
      BY <2>3, <2>4, <3>2, <3>3
  <2>6. CASE L /\ G = W(5 - r) \ F
    <3>1. PICK i \in {1, -1, -2} : i \in r - 4 .. r /\ i # (-l) - 1
      <4>1. CASE r >= 1
        BY <1>1, <4>1
      <4>2. CASE l = 0 /\ r = 0
        BY <4>2
      <4>3. CASE r = 0 /\ l >= 1
        BY <1>1, <4>3
      <4> QED
        BY <1>1, <4>1, <4>2, <4>3
    <3>2. i \in Int /\ i \in -4 .. 4 /\ i # 0
      OBVIOUS
    <3>3. p + (i * d) \in G
      BY <1>14, <2>6, <3>1, <3>2
    <3> QED
      BY <2>3, <2>4, <3>2, <3>3
  <2> QED
    BY <1>11, <2>5, <2>6
<1> QED
  BY <1>12, <1>18, <1>19, Zenon DEF FoursAsLine, S, F, fours, L, R

\* Two elements
LEMMA Pair ==
  ASSUME NEW x, NEW y, x # y
  PROVE  Cardinality({x, y}) = 2 /\ IsFiniteSet({x, y})
<1>1. IsFiniteSet({x}) /\ Cardinality({x}) = 1
  BY FS_Singleton
<1>2. y \notin {x} /\ {x} \cup {y} = {x, y}
  OBVIOUS
<1>3. IsFiniteSet({x} \cup {y}) /\ Cardinality({x} \cup {y}) = Cardinality({x}) + 1
  BY <1>1, <1>2, FS_AddElement
<1> QED
  BY <1>1, <1>2, <1>3

\* A set has two elements or more if two of them differ.
LEMMA TwoElements ==
  ASSUME NEW X, IsFiniteSet(X)
  PROVE  Cardinality(X) >= 2 <=> \E x, y \in X : x # y
<1>1. Cardinality(X) \in Nat
  BY FS_CardinalityType
<1>2. ASSUME NEW x \in X, NEW y \in X, x # y PROVE Cardinality(X) >= 2
  <2>1. {x, y} \in SUBSET X
    OBVIOUS
  <2>2. Cardinality({x, y}) <= Cardinality(X)
    BY <2>1, FS_Subset
  <2> QED
    BY <1>1, <1>2, <2>2, Pair
<1>3. ASSUME ~(\E x, y \in X : x # y) PROVE Cardinality(X) < 2
  <2>1. CASE X = {}
    BY <2>1, FS_EmptySet
  <2>2. CASE X # {}
    <3>1. PICK x : X = {x}
      BY <1>3, <2>2
    <3> QED
      BY <3>1, FS_Singleton
  <2> QED
    BY <2>1, <2>2
<1> QED
  BY <1>1, <1>2, <1>3

(***************************************************************************)
(* What isFour, isOpenFour and their count know of a line.                 *)
(***************************************************************************)
LEMMA LineOfStone ==
  ASSUME NEW b \in Boards, NEW p \in Free(b), MayMakeLine(b, p), NEW d \in Direction
  PROVE  \E l, r :
           /\ Lined(b, p, d, l, r)
           /\ Ends(Put(b, p), p, d) = {p + (((-l) - 1) * d), p + ((r + 1) * d)}
           /\ HasFourStones(b, p, d) <=> l + r = 3
<1>1. ~ExactFive(Black(b) \cup {p}, p, d) /\ ~Overline(Black(b) \cup {p}, p, d)
  <2>1. ~IsFive(b, p) /\ ~IsOverline(b, p)
    BY DEF MayMakeLine
  <2>2. IsFiveDir(b, p, d) <=> ExactFive(Black(b) \cup {p}, p, d)
    BY LinesOfTheRule
  <2>3. IsOverline(b, p) <=> \E e \in Direction : Overline(Black(b) \cup {p}, p, e)
    BY LinesOfTheRule
  <2> QED
    BY <2>1, <2>2, <2>3 DEF IsFive
<1>2. PICK l \in 0 .. 3, r \in 0 .. 3 :
        /\ RowOn(Axis(Black(b) \cup {p}, p, d), l, r)
        /\ Ends(Put(b, p), p, d) = {p + (((-l) - 1) * d), p + ((r + 1) * d)}
        /\ HasFourStones(b, p, d) <=> l + r = 3
  BY <1>1, RowOfStone
<1>3. Lined(b, p, d, l, r)
  BY <1>1, <1>2 DEF Lined
<1> QED
  BY <1>2, <1>3

\* The fours that the code counts on one line
LEMMA FoursAre ==
  ASSUME NEW b, NEW p, NEW d, NEW l, NEW r, Lined(b, p, d, l, r), MayMakeLine(b, p),
         Ends(Put(b, p), p, d) = {p + (((-l) - 1) * d), p + ((r + 1) * d)},
         HasFourStones(b, p, d) <=> l + r = 3
  PROVE  /\ IsFour(b, p, d) <=> LeftFive(b, p, d, l) \/ RightFive(b, p, d, r)
         /\ MakesTwoFives(b, p, d) <=> LeftFive(b, p, d, l) /\ RightFive(b, p, d, r)
         /\ Fours(b, p, d) = 2 <=>
              LeftFive(b, p, d, l) /\ RightFive(b, p, d, r) /\ l + r # 3
         /\ Fours(b, p, d) \in {0, 1, 2}
         /\ Fours(b, p, d) # 0 <=> LeftFive(b, p, d, l) \/ RightFive(b, p, d, r)
<1> DEFINE e1 == p + (((-l) - 1) * d)
           e2 == p + ((r + 1) * d)
           c == Put(b, p)
           X == FivePoints(b, p, d)
           L == LeftFive(b, p, d, l)
           R == RightFive(b, p, d, r)
<1>1. e1 # e2
  <2>1. p \in Int /\ l \in 0 .. 3 /\ r \in 0 .. 3 - l
    BY LinedParts
  <2>2. d \in Direction
    BY DEF Lined
  <2> QED
    BY <2>1, <2>2 DEF Direction
<1>2. X = {q \in {e1, e2} : IsFiveDir(c, q, d)}
  BY DEF FivePoints
<1>3. (L <=> IsFiveDir(c, e1, d)) /\ (R <=> IsFiveDir(c, e2, d))
  BY DEF LeftFive, RightFive
<1> HIDE DEF e1, e2, c, X, L, R
<1>4. X # {} <=> L \/ R
  BY <1>2, <1>3
<1>5. Cardinality(X) = 2 <=> L /\ R
  <2>1. CASE L /\ R
    <3>1. X = {e1, e2}
      BY <1>2, <1>3, <2>1
    <3> QED
      BY <1>1, <2>1, <3>1, Pair
  <2>2. CASE L /\ ~R
    <3>1. X = {e1}
      BY <1>2, <1>3, <2>2
    <3>2. Cardinality(X) = 1
      BY <3>1, FS_Singleton
    <3> QED
      BY <2>2, <3>2
  <2>3. CASE ~L /\ R
    <3>1. X = {e2}
      BY <1>2, <1>3, <2>3
    <3>2. Cardinality(X) = 1
      BY <3>1, FS_Singleton
    <3> QED
      BY <2>3, <3>2
  <2>4. CASE ~L /\ ~R
    <3>1. X = {}
      BY <1>4, <2>4
    <3>2. Cardinality(X) = 0
      BY <3>1, FS_EmptySet
    <3> QED
      BY <2>4, <3>2
  <2> QED
    BY <2>1, <2>2, <2>3, <2>4
<1>6. IsFour(b, p, d) <=> L \/ R
  BY <1>4 DEF IsFour, X
<1>7. MakesTwoFives(b, p, d) <=> L /\ R
  BY <1>5 DEF MakesTwoFives, X
<1>8. IsOpenFourLong(b, p, d) <=> L /\ R /\ l + r # 3
  BY <1>7 DEF IsOpenFourLong
<1>9. Fours(b, p, d) = CASE IsOpenFourLong(b, p, d) -> 2
                         [] ~IsOpenFourLong(b, p, d) /\ IsFour(b, p, d) -> 1
                         [] OTHER -> 0
  BY DEF Fours
<1>10. /\ IsOpenFourLong(b, p, d) => Fours(b, p, d) = 2
       /\ ~IsOpenFourLong(b, p, d) /\ IsFour(b, p, d) => Fours(b, p, d) = 1
       /\ ~IsOpenFourLong(b, p, d) /\ ~IsFour(b, p, d) => Fours(b, p, d) = 0
  BY <1>9
<1>11. /\ Fours(b, p, d) = 2 <=> L /\ R /\ l + r # 3
       /\ Fours(b, p, d) \in {0, 1, 2}
       /\ Fours(b, p, d) # 0 <=> L \/ R
  BY <1>6, <1>8, <1>10
<1> QED
  BY <1>6, <1>7, <1>11, Zenon DEF L, R

(***************************************************************************)
(* isDoubleFour counts the fours as the sets of stones that they are.      *)
(***************************************************************************)
LEMMA DoubleFourIs ==
  ASSUME NEW b \in Boards, NEW p \in Free(b), MayMakeLine(b, p)
  PROVE  IsDoubleFour(b, p) <=>
           Cardinality(UNION {FoursThrough(Black(b) \cup {p}, Free(b) \ {p}, p, d) :
                                d \in Direction}) >= 2
<1> DEFINE S == Black(b) \cup {p}
           F == Free(b) \ {p}
           Th(d) == FoursThrough(S, F, p, d)
           All == UNION {Th(d) : d \in Direction}
<1>1. ASSUME NEW d \in Direction
      PROVE  /\ Th(d) # {} <=> Fours(b, p, d) # 0
             /\ (\E G, H \in Th(d) : G # H) <=> Fours(b, p, d) = 2
             /\ Fours(b, p, d) \in {0, 1, 2}
             /\ \A G \in Th(d) :
                  /\ G \subseteq S
                  /\ \A g \in G : \E i \in -4 .. 4 : g = p + (i * d)
                  /\ \E i \in -4 .. 4 : i # 0 /\ p + (i * d) \in G
  <2>1. PICK l, r :
          /\ Lined(b, p, d, l, r)
          /\ Ends(Put(b, p), p, d) = {p + (((-l) - 1) * d), p + ((r + 1) * d)}
          /\ HasFourStones(b, p, d) <=> l + r = 3
    BY LineOfStone
  <2>2. /\ Fours(b, p, d) = 2 <=>
             LeftFive(b, p, d, l) /\ RightFive(b, p, d, r) /\ l + r # 3
        /\ Fours(b, p, d) \in {0, 1, 2}
        /\ Fours(b, p, d) # 0 <=> LeftFive(b, p, d, l) \/ RightFive(b, p, d, r)
    BY <2>1, FoursAre, Zenon
  <2>3. FoursAsLine(b, p, d, l, r, Th(d))
    BY <2>1, FoursOfLine, Zenon
  <2>4. /\ Th(d) # {} <=> Fours(b, p, d) # 0
        /\ (\E G, H \in Th(d) : G # H) <=> Fours(b, p, d) = 2
    <3> HIDE DEF Th
    <3> QED
      BY <2>2, <2>3, Zenon DEF FoursAsLine
  <2>5. \A G \in Th(d) :
          /\ G \subseteq S
          /\ \A g \in G : \E i \in -4 .. 4 : g = p + (i * d)
          /\ \E i \in -4 .. 4 : i # 0 /\ p + (i * d) \in G
    <3> HIDE DEF Th
    <3> QED
      BY <2>3, Zenon DEF FoursAsLine
  <2> QED
    BY <2>2, <2>4, <2>5, Zenon
<1>2. p \in Int /\ S \subseteq Square
  BY AtEmpty DEF Black
<1> HIDE DEF S, F, Th
<1>3. IsFiniteSet(All)
  <2>1. All \in SUBSET (SUBSET Square)
    BY <1>1, <1>2
  <2>2. IsFiniteSet(SUBSET Square)
    BY SquareFinite, FS_SUBSET
  <2> HIDE DEF All
  <2> QED
    BY <2>1, <2>2, FS_Subset
<1>4. ASSUME NEW d \in Direction, NEW e \in Direction, d # e, NEW G \in Th(d), NEW H \in Th(e)
      PROVE  G # H
  <2>1. PICK i \in -4 .. 4 : i # 0 /\ p + (i * d) \in G
    BY <1>1
  <2>2. SUFFICES ASSUME p + (i * d) \in H PROVE FALSE
    BY <2>1
  <2>3. PICK j \in -4 .. 4 : p + (i * d) = p + (j * e)
    BY <1>1, <2>2
  <2> QED
    BY <1>2, <1>4, <2>1, <2>3 DEF Direction
<1>5. At(b, p) = EMPTY /\ ~IsFive(b, p)
  BY DEF MayMakeLine
<1>6. IsDoubleFour(b, p) <=>
        \/ \E d \in Direction : Fours(b, p, d) = 2
        \/ \E d, e \in Direction : d # e /\ Fours(b, p, d) # 0 /\ Fours(b, p, e) # 0
  <2>1. IsDoubleFour(b, p) <=>
          \/ \E d \in Direction : Fours(b, p, d) = 2
          \/ \E d, e \in Direction : d # e /\ Fours(b, p, d) = 1 /\ Fours(b, p, e) = 1
    BY <1>5, Zenon DEF IsDoubleFour
  <2> QED
    BY <1>1, <2>1
<1>7. (\E G, H \in All : G # H) <=>
        \/ \E d \in Direction : Fours(b, p, d) = 2
        \/ \E d, e \in Direction : d # e /\ Fours(b, p, d) # 0 /\ Fours(b, p, e) # 0
  <2>1. \A G : G \in All <=> \E d \in Direction : G \in Th(d)
    BY DEF All
  <2>2. ASSUME NEW d \in Direction, Fours(b, p, d) = 2
        PROVE  \E G, H \in All : G # H
    BY <1>1, <2>1, <2>2
  <2>3. ASSUME NEW d \in Direction, NEW e \in Direction, d # e,
               Fours(b, p, d) # 0, Fours(b, p, e) # 0
        PROVE  \E G, H \in All : G # H
    <3>1. PICK G \in Th(d), H \in Th(e) : TRUE
      BY <1>1, <2>3
    <3> QED
      BY <1>4, <2>1, <2>3, <3>1
  <2>4. ASSUME NEW G \in All, NEW H \in All, G # H
        PROVE  \/ \E d \in Direction : Fours(b, p, d) = 2
               \/ \E d, e \in Direction : d # e /\ Fours(b, p, d) # 0 /\ Fours(b, p, e) # 0
    <3>1. PICK d \in Direction, e \in Direction : G \in Th(d) /\ H \in Th(e)
      BY <2>1
    <3>2. CASE d = e
      BY <1>1, <2>4, <3>1, <3>2
    <3>3. CASE d # e
      BY <1>1, <3>1, <3>3
    <3> QED
      BY <3>2, <3>3
  <2> QED
    BY <2>2, <2>3, <2>4
<1>8. IsDoubleFour(b, p) <=> Cardinality(All) >= 2
  <2> HIDE DEF All
  <2> QED
    BY <1>3, <1>6, <1>7, TwoElements
<1> QED
  BY <1>8 DEF All, Th, S, F

-----------------------------------------------------------------------------
\* Renju: threes, and the points that are forbidden

\* A line of four stones through 0 and x, seen from 0
FourRow(C, x, k) ==
  /\ \A i \in 1 - k .. 4 - k : i \in C
  /\ x \in 1 - k .. 4 - k /\ -k \notin C /\ 5 - k \notin C

\* A straight four through two stones, seen from each of them
LEMMA FourRowFound ==
  ASSUME NEW B, 0 \in B, NEW l, NEW r, RowOn(B, l, r),
         NEW x \in Int, x \notin B, NEW E,
         NEW m \in 0 .. 3, NEW n \in 0 .. 3, RowOn(E, m, n),
         \A i \in Int : i \in E <=> i + x \in B \cup {x}
  PROVE  /\ m + n = 3 /\ (x = r + 1 \/ x = (-l) - 1) =>
              /\ \E k \in 1 .. 4 : FourRow(B \cup {x}, x, k) /\ -k = (x - m) - 1 /\ 5 - k = x + n + 1
              /\ x \in 1 .. 3 \/ -x \in 1 .. 3
         /\ \A k \in 1 .. 4 : FourRow(B \cup {x}, x, k) =>
              /\ m + n = 3 /\ -k = (x - m) - 1 /\ 5 - k = x + n + 1
              /\ x = r + 1 \/ x = (-l) - 1
<1> DEFINE C == B \cup {x}
<1>1. /\ l \in 0 .. 3 /\ r \in 0 .. 3 - l
      /\ \A i \in (-l) .. r : i \in B
      /\ (-l) - 1 \notin B /\ r + 1 \notin B
  BY DEF RowOn
<1>2. /\ \A i \in (-m) .. n : i + x \in C
      /\ ((-m) - 1) + x \notin C /\ (n + 1) + x \notin C
  <2>1. /\ \A i \in (-m) .. n : i \in E
        /\ (-m) - 1 \notin E /\ n + 1 \notin E
    BY DEF RowOn
  <2>2. (-m) - 1 \in Int /\ n + 1 \in Int /\ \A i \in (-m) .. n : i \in Int
    OBVIOUS
  <2> HIDE DEF C
  <2> QED
    BY <2>1, <2>2 DEF C
<1>3. /\ \A j \in x - m .. x + n : j \in C
      /\ (x - m) - 1 \notin C /\ x + n + 1 \notin C
  <2>1. ASSUME NEW j \in x - m .. x + n
        PROVE  j \in C
    <3>1. j - x \in (-m) .. n /\ (j - x) + x = j
      OBVIOUS
    <3> HIDE DEF C
    <3> QED
      BY <1>2, <3>1
  <2>2. ((-m) - 1) + x = (x - m) - 1 /\ (n + 1) + x = x + n + 1
    OBVIOUS
  <2> HIDE DEF C
  <2> QED
    BY <1>2, <2>1, <2>2
<1>4. x # 0 /\ x \in C /\ x \notin (-l) .. r /\ \A i \in (-l) .. r : i \in C
  BY <1>1
<1>5. \A i \in Int : i \in C /\ i # x => i \in B
  OBVIOUS
<1> HIDE DEF C
<1>6. ASSUME m + n = 3, x = r + 1 \/ x = (-l) - 1
      PROVE  /\ \E k \in 1 .. 4 : FourRow(C, x, k) /\ -k = (x - m) - 1 /\ 5 - k = x + n + 1
             /\ x \in 1 .. 3 \/ -x \in 1 .. 3
  <2>1. x > 0 => m >= x
    <3>1. ASSUME x > 0 PROVE x = r + 1
      BY <1>1, <1>6, <3>1
    <3>2. ASSUME x > 0 PROVE (x - m) - 1 \notin 0 .. x
      BY <1>1, <1>3, <1>4, <3>1, <3>2
    <3> QED
      BY <3>2
  <2>2. x < 0 => n >= -x
    <3>1. ASSUME x < 0 PROVE x = (-l) - 1
      BY <1>1, <1>6, <3>1
    <3>2. ASSUME x < 0 PROVE x + n + 1 \notin x .. 0
      BY <1>1, <1>3, <1>4, <3>1, <3>2
    <3> QED
      BY <3>2
  <2> DEFINE k == (1 + m) - x
  <2>3. /\ k \in 1 .. 4 /\ 1 - k = x - m /\ 4 - k = x + n
        /\ -k = (x - m) - 1 /\ 5 - k = x + n + 1 /\ x \in 1 - k .. 4 - k
    BY <1>4, <1>6, <2>1, <2>2
  <2> HIDE DEF k
  <2>4. FourRow(C, x, k)
    BY <1>3, <2>3 DEF FourRow
  <2>5. x \in 1 .. 3 \/ -x \in 1 .. 3
    BY <1>4, <2>1, <2>2
  <2> QED
    BY <2>3, <2>4, <2>5
<1>7. ASSUME NEW k \in 1 .. 4, FourRow(C, x, k)
      PROVE  /\ m + n = 3 /\ -k = (x - m) - 1 /\ 5 - k = x + n + 1
             /\ x = r + 1 \/ x = (-l) - 1
  <2>1. /\ \A i \in 1 - k .. 4 - k : i \in C
        /\ x \in 1 - k .. 4 - k /\ -k \notin C /\ 5 - k \notin C
    BY <1>7 DEF FourRow
  <2>2. x - m = 1 - k
    <3>1. (x - m) - 1 \notin 1 - k .. 4 - k
      BY <1>3, <2>1
    <3>2. -k \notin x - m .. x + n
      BY <1>3, <2>1
    <3> QED
      BY <2>1, <3>1, <3>2
  <2>3. x + n = 4 - k
    <3>1. x + n + 1 \notin 1 - k .. 4 - k
      BY <1>3, <2>1
    <3>2. 5 - k \notin x - m .. x + n
      BY <1>3, <2>1
    <3> QED
      BY <2>1, <3>1, <3>2
  <2>4. CASE x > 0
    <3>1. x >= r + 1
      BY <1>1, <1>4, <2>4
    <3>2. r + 1 \notin 1 .. x - 1
      <4>1. r + 1 \in 1 .. x - 1 => r + 1 \in 1 - k .. 4 - k /\ r + 1 # x
        BY <1>1, <2>1
      <4> QED
        BY <1>1, <1>5, <2>1, <4>1
    <3> QED
      BY <1>1, <2>2, <2>3, <3>1, <3>2
  <2>5. CASE x < 0
    <3>1. x <= (-l) - 1
      BY <1>1, <1>4, <2>5
    <3>2. (-l) - 1 \notin x + 1 .. -1
      <4>1. (-l) - 1 \in x + 1 .. -1 => (-l) - 1 \in 1 - k .. 4 - k /\ (-l) - 1 # x
        BY <1>1, <2>1
      <4> QED
        BY <1>1, <1>5, <2>1, <4>1
    <3> QED
      BY <1>1, <2>2, <2>3, <3>1, <3>2
  <2> QED
    BY <1>4, <2>4, <2>5
<1> QED
  BY <1>6, <1>7 DEF C

\* isFive in one direction is an exact five of the rule.
LEMMA FiveDirIs ==
  ASSUME NEW b, NEW q, NEW d \in Direction
  PROVE  IsFiveDir(b, q, d) <=> q \in Free(b) /\ ExactFive(Black(b) \cup {q}, q, d)
<1>1. CASE q \in Free(b)
  BY <1>1, LinesOfTheRule
<1>2. CASE q \notin Free(b)
  BY <1>2, AtEmpty DEF IsFiveDir
<1> QED
  BY <1>1, <1>2

\* A window of four points through p
LEMMA RowOfWindow ==
  ASSUME NEW S, NEW p \in Int, NEW d \in Direction, NEW k \in 1 .. 4
  PROVE  Window(p, d, 4, k) \subseteq S <=> \A i \in 1 - k .. 4 - k : i \in Axis(S, p, d)
<1> DEFINE n == 4
<1>1. n \in Nat /\ k \in Int
  OBVIOUS
<1> HIDE DEF n
<1>2. Window(p, d, n, k) \subseteq S <=> \A i \in 1 - k .. n - k : i \in Axis(S, p, d)
  BY <1>1, WindowOnAxis
<1> QED
  BY <1>2 DEF n

(***************************************************************************)
(* Where isOpenThree tries a stone q in line with p, it finds the straight *)
(* fours of p and q.                                                       *)
(***************************************************************************)
LEMMA ThreeOnAxis ==
  ASSUME NEW b \in Boards, NEW p \in Free(b), MayMakeLine(b, p), NEW d \in Direction,
         NEW x \in Int, p + (x * d) \in Free(Put(b, p)),
         MayMakeLine(Put(b, p), p + (x * d))
  PROVE  LET c == Put(b, p)  q == p + (x * d)
         IN  q \in Ends(c, p, d) /\ IsOpenFourTrue(c, q, d) <=>
               /\ \E n \in 1 .. 3 : q \in {p - n * d, p + n * d}
               /\ StraightFour(Black(c) \cup {q}, Free(c) \ {q}, p, q, d)
<1> DEFINE c == Put(b, p)
           q == p + (x * d)
           e == Put(c, q)
           S == Black(c) \cup {q}
           F == Free(c) \ {q}
           B == Axis(Black(c), p, d)
           E == Axis(S, q, d)
           C == B \cup {x}
<1>1. /\ p \in Square /\ p \in Int /\ b[p] = EMPTY /\ d \in Int
      /\ c \in Boards /\ Black(c) = Black(b) \cup {p}
  BY AtEmpty, PutStone, DirectionType
<1>2. q \in Square /\ q \in Int /\ c[q] = EMPTY /\ q \notin Black(c)
  BY AtEmpty
<1>3. Black(e) = S /\ Free(e) = F
  BY <1>1, <1>2, PutStone
<1>4. S \cap F = {}
  BY AtEmpty
<1>5. PICK l, r :
        /\ Lined(b, p, d, l, r)
        /\ Ends(c, p, d) = {p + (((-l) - 1) * d), p + ((r + 1) * d)}
  BY LineOfStone
<1>6. PICK m, n :
        /\ Lined(c, q, d, m, n)
        /\ Ends(e, q, d) = {q + (((-m) - 1) * d), q + ((n + 1) * d)}
        /\ HasFourStones(c, q, d) <=> m + n = 3
  BY <1>1, LineOfStone
<1>7. MakesTwoFives(c, q, d) <=> LeftFive(c, q, d, m) /\ RightFive(c, q, d, n)
  BY <1>6, FoursAre
<1>8. IsOpenFourTrue(c, q, d) <=>
        m + n = 3 /\ LeftFive(c, q, d, m) /\ RightFive(c, q, d, n)
  BY <1>6, <1>7, Zenon DEF IsOpenFourTrue
<1>9. /\ RowOn(B, l, r) /\ 0 \in B /\ l \in 0 .. 3 /\ r \in 0 .. 3
      /\ RowOn(E, m, n) /\ m \in 0 .. 3 /\ n \in 0 .. 3
  <2>1. 0 \in Axis(Black(b) \cup {p}, p, d)
    BY <1>5, LinedParts
  <2> QED
    BY <1>1, <1>5, <1>6, <2>1 DEF Lined
<1>10. /\ \A i \in Int : i \in E <=> i + x \in C
       /\ x \notin B
  <2>1. Axis(S, p, d) = C
    BY <1>1, AxisPut
  <2>2. \A i \in Int : i \in E <=> i + x \in Axis(S, p, d)
    <3> HIDE DEF S
    <3> QED
      BY <1>1, AxisShift
  <2>3. x \in B <=> q \in Black(c)
    BY DEF Axis
  <2> HIDE DEF S, E, C, B
  <2> QED
    BY <1>2, <2>1, <2>2, <2>3
<1>11. /\ m + n = 3 /\ (x = r + 1 \/ x = (-l) - 1) =>
            /\ \E k \in 1 .. 4 : FourRow(C, x, k) /\ -k = (x - m) - 1 /\ 5 - k = x + n + 1
            /\ x \in 1 .. 3 \/ -x \in 1 .. 3
       /\ \A k \in 1 .. 4 : FourRow(C, x, k) =>
            /\ m + n = 3 /\ -k = (x - m) - 1 /\ 5 - k = x + n + 1
            /\ x = r + 1 \/ x = (-l) - 1
  <2> HIDE DEF B, E, S
  <2> QED
    BY <1>9, <1>10, FourRowFound
<1>12. \A y \in Int : IsFiveDir(e, p + (y * d), d) <=>
          p + (y * d) \in F /\ ExactFive(S \cup {p + (y * d)}, p + (y * d), d)
  BY <1>3, FiveDirIs
<1>13. /\ LeftFive(c, q, d, m) <=> IsFiveDir(e, p + (((x - m) - 1) * d), d)
       /\ RightFive(c, q, d, n) <=> IsFiveDir(e, p + ((x + n + 1) * d), d)
  <2>1. /\ q + (((-m) - 1) * d) = p + (((x - m) - 1) * d)
        /\ q + ((n + 1) * d) = p + ((x + n + 1) * d)
    BY <1>1, <1>9
  <2> QED
    BY <2>1 DEF LeftFive, RightFive
<1>14. q \in Ends(c, p, d) <=> x = r + 1 \/ x = (-l) - 1
  <2>1. \A y \in Int : p + (x * d) = p + (y * d) <=> x = y
    BY <1>1 DEF Direction
  <2>2. (-l) - 1 \in Int /\ r + 1 \in Int
    BY <1>9
  <2>3. q \in Ends(c, p, d) <=> p + (x * d) = p + (((-l) - 1) * d) \/ p + (x * d) = p + ((r + 1) * d)
    BY <1>5
  <2> QED
    BY <2>1, <2>2, <2>3, Zenon
<1>15. (\E h \in 1 .. 3 : q \in {p - h * d, p + h * d}) <=> x \in 1 .. 3 \/ -x \in 1 .. 3
  <2>1. \A y \in Int : p + (x * d) = p + (y * d) <=> x = y
    BY <1>1 DEF Direction
  <2>2. \A h \in 1 .. 3 : p - h * d = p + ((-h) * d) /\ -h \in Int /\ h \in Int
    BY <1>1
  <2>3. \A h \in 1 .. 3 : q \in {p - h * d, p + h * d} <=> x = -h \/ x = h
    <3>1. \A h \in 1 .. 3 : q \in {p - h * d, p + h * d} <=>
                              p + (x * d) = p + ((-h) * d) \/ p + (x * d) = p + (h * d)
      BY <2>2
    <3> QED
      BY <2>1, <2>2, <3>1, Zenon
  <2> HIDE DEF q
  <2> QED
    BY <2>3
<1>16. ASSUME NEW k \in 1 .. 4
       PROVE  /\ Window(p, d, 4, k) \subseteq S /\ q \in Window(p, d, 4, k)
                 /\ WindowEnds(p, d, 4, k) \subseteq F
                 <=> /\ FourRow(C, x, k)
                     /\ p + ((-k) * d) \in F /\ p + ((5 - k) * d) \in F
              /\ WindowEnds(p, d, 4, k) = {p + ((-k) * d), p + ((5 - k) * d)}
  <2>1. p \in Int /\ d \in Direction /\ 4 \in Nat /\ k \in Int /\ -k \in Int /\ 5 - k \in Int
        /\ (4 + 1) - k = 5 - k
    BY <1>1
  <2>2. Axis(S, p, d) = C
    BY <1>1, AxisPut
  <2>3. WindowEnds(p, d, 4, k) = {p + ((-k) * d), p + ((5 - k) * d)}
    <3>1. p - k * d = p + ((-k) * d)
      BY <1>1
    <3> QED
      BY <2>1, <3>1 DEF WindowEnds
  <2>4. q \in Window(p, d, 4, k) <=> x \in 1 - k .. 4 - k
    BY <2>1, WindowPoints
  <2>5. \A y \in Int : y \in C <=> p + (y * d) \in S
    <3>1. \A y \in Int : y \in Axis(S, p, d) <=> p + (y * d) \in S
      BY DEF Axis
    <3> QED
      BY <2>2, <3>1
  <2> HIDE DEF S, F, C, q
  <2>8. p \in Int /\ d \in Direction /\ 4 \in Nat /\ k \in Int
    BY <2>1
  <2>9. Window(p, d, 4, k) \subseteq S <=> \A i \in 1 - k .. 4 - k : i \in Axis(S, p, d)
    BY <2>8, RowOfWindow
  <2>6. Window(p, d, 4, k) \subseteq S <=> \A i \in 1 - k .. 4 - k : i \in C
    BY <2>2, <2>9
  <2>7. /\ p + ((-k) * d) \in F => -k \notin C
        /\ p + ((5 - k) * d) \in F => 5 - k \notin C
    BY <1>4, <2>1, <2>5
  <2> QED
    BY <2>3, <2>4, <2>6, <2>7 DEF FourRow
<1>17. StraightFour(S, F, p, q, d) <=>
         \E k \in 1 .. 4 :
           /\ FourRow(C, x, k)
           /\ IsFiveDir(e, p + ((-k) * d), d) /\ IsFiveDir(e, p + ((5 - k) * d), d)
  <2>1. \A k \in 1 .. 4 : -k \in Int /\ 5 - k \in Int
    OBVIOUS
  <2>2. \A k \in 1 .. 4 :
          /\ Window(p, d, 4, k) \subseteq S /\ q \in Window(p, d, 4, k)
          /\ WindowEnds(p, d, 4, k) \subseteq F
          /\ \A z \in WindowEnds(p, d, 4, k) : ExactFive(S \cup {z}, z, d)
          <=> /\ FourRow(C, x, k)
              /\ IsFiveDir(e, p + ((-k) * d), d) /\ IsFiveDir(e, p + ((5 - k) * d), d)
    <3> HIDE DEF S, F, C, q, e
    <3> TAKE k \in 1 .. 4
    <3>1. (\A z \in WindowEnds(p, d, 4, k) : ExactFive(S \cup {z}, z, d)) <=>
            /\ ExactFive(S \cup {p + ((-k) * d)}, p + ((-k) * d), d)
            /\ ExactFive(S \cup {p + ((5 - k) * d)}, p + ((5 - k) * d), d)
      BY <1>16
    <3> QED
      BY <1>12, <1>16, <2>1, <3>1
  <2> HIDE DEF S, F, C, q, e
  <2> QED
    BY <2>2, Zenon DEF StraightFour
<1> HIDE DEF c, q, e, S, F, B, C, E
<1>18. ASSUME q \in Ends(c, p, d), IsOpenFourTrue(c, q, d)
       PROVE  /\ \E h \in 1 .. 3 : q \in {p - h * d, p + h * d}
              /\ StraightFour(S, F, p, q, d)
  <2>1. x = r + 1 \/ x = (-l) - 1
    BY <1>14, <1>18
  <2>2. m + n = 3 /\ LeftFive(c, q, d, m) /\ RightFive(c, q, d, n)
    BY <1>8, <1>18
  <2>3. PICK k \in 1 .. 4 : FourRow(C, x, k) /\ -k = (x - m) - 1 /\ 5 - k = x + n + 1
    BY <1>11, <2>1, <2>2
  <2>4. IsFiveDir(e, p + ((-k) * d), d) /\ IsFiveDir(e, p + ((5 - k) * d), d)
    BY <1>13, <2>2, <2>3
  <2>5. x \in 1 .. 3 \/ -x \in 1 .. 3
    BY <1>11, <2>1, <2>2
  <2> QED
    BY <1>15, <1>17, <2>3, <2>4, <2>5, Zenon
<1>19. ASSUME StraightFour(S, F, p, q, d)
       PROVE  q \in Ends(c, p, d) /\ IsOpenFourTrue(c, q, d)
  <2>1. PICK k \in 1 .. 4 :
          /\ FourRow(C, x, k)
          /\ IsFiveDir(e, p + ((-k) * d), d) /\ IsFiveDir(e, p + ((5 - k) * d), d)
    BY <1>17, <1>19
  <2>2. /\ m + n = 3 /\ -k = (x - m) - 1 /\ 5 - k = x + n + 1
        /\ x = r + 1 \/ x = (-l) - 1
    BY <1>11, <2>1
  <2>3. LeftFive(c, q, d, m) /\ RightFive(c, q, d, n)
    BY <1>13, <2>1, <2>2
  <2> QED
    BY <1>8, <1>14, <2>2, <2>3
<1>20. q \in Ends(c, p, d) /\ IsOpenFourTrue(c, q, d) <=>
         /\ \E h \in 1 .. 3 : q \in {p - h * d, p + h * d}
         /\ StraightFour(S, F, p, q, d)
  BY <1>18, <1>19
<1> QED
  BY <1>20, Zenon DEF c, q, S, F

\* The same for any free point q: the code and the rule look for it on the line only.
LEMMA ThreeStep ==
  ASSUME NEW b \in Boards, NEW p \in Free(b), MayMakeLine(b, p), NEW d \in Direction,
         NEW q \in Free(Put(b, p)), MayMakeLine(Put(b, p), q)
  PROVE  LET c == Put(b, p)
         IN  q \in Ends(c, p, d) /\ IsOpenFourTrue(c, q, d) <=>
               /\ \E n \in 1 .. 3 : q \in {p - n * d, p + n * d}
               /\ StraightFour(Black(c) \cup {q}, Free(c) \ {q}, p, q, d)
<1> DEFINE c == Put(b, p)
           four == StraightFour(Black(c) \cup {q}, Free(c) \ {q}, p, q, d)
           near == \E n \in 1 .. 3 : q \in {p - n * d, p + n * d}
           code == q \in Ends(c, p, d) /\ IsOpenFourTrue(c, q, d)
<1>1. p \in Int /\ d \in Int
  BY AtEmpty, DirectionType
<1>2. ASSUME NEW x \in Int, q = p + (x * d)
      PROVE  code <=> near /\ four
  BY <1>2, ThreeOnAxis
<1>3. ASSUME q \in Ends(c, p, d)
      PROVE  \E x \in Int : q = p + (x * d)
  <2>1. PICK l, r : /\ Lined(b, p, d, l, r)
                    /\ Ends(c, p, d) = {p + (((-l) - 1) * d), p + ((r + 1) * d)}
    BY LineOfStone
  <2>2. (-l) - 1 \in Int /\ r + 1 \in Int
    BY <2>1 DEF Lined
  <2> HIDE DEF c
  <2> QED
    BY <1>3, <2>1, <2>2
<1>4. ASSUME near
      PROVE  \E x \in Int : q = p + (x * d)
  <2>1. PICK n \in 1 .. 3 : q = p - n * d \/ q = p + n * d
    BY <1>4
  <2>2. p - n * d = p + ((-n) * d) /\ -n \in Int /\ n \in Int
    BY <1>1
  <2> QED
    BY <2>1, <2>2
<1> HIDE DEF four, near, c
<1>5. code <=> near /\ four
  BY <1>2, <1>3, <1>4
<1> QED
  BY <1>5, Zenon DEF four, near, c

(***************************************************************************)
(* Every free point of the board with the stone put is judged by the rule. *)
(***************************************************************************)
JudgedByTheRule(b) ==
  \A q \in Free(b) : IsForbidden(b, q) = foul[<<Black(b), Free(b), q>>]

\* A three of the code is a three of the rule, if the points it asks about are judged alike.
LEMMA OpenThreeIs ==
  ASSUME NEW b \in Boards, NEW p \in Free(b), MayMakeLine(b, p), NEW d \in Direction,
         JudgedByTheRule(Put(b, p))
  PROVE  IsOpenThree(b, p, d, doubleThree) <=>
           IsThree(Black(Put(b, p)), Free(Put(b, p)), p, d, foul)
<1> DEFINE c == Put(b, p)
           Step(q) == q \in Ends(c, p, d) /\ IsOpenFourTrue(c, q, d)
           Near(q) == \E n \in 1 .. 3 : q \in {p - n * d, p + n * d}
           Four(q) == StraightFour(Black(c) \cup {q}, Free(c) \ {q}, p, q, d)
           Five(q) == \E e \in Direction : ExactFive(Black(c) \cup {q}, q, e)
<1>1. \A q \in Free(c) : /\ IsFive(c, q) <=> Five(q)
                         /\ At(c, q) = EMPTY
  <2>1. \A q \in Free(c) : \A e \in Direction :
          IsFiveDir(c, q, e) <=> ExactFive(Black(c) \cup {q}, q, e)
    BY LinesOfTheRule
  <2>2. \A q \in Free(c) : At(c, q) = EMPTY
    BY AtEmpty
  <2> QED
    BY <2>1, <2>2, Zenon DEF IsFive
<1>2. \A q \in Free(c) :
        foul[<<Black(c), Free(c), q>>] = "none" <=>
          ~doubleThree[<<c, q>>] /\ ~IsDoubleFour(c, q) /\ ~IsOverline(c, q)
  BY DEF JudgedByTheRule, IsForbidden, IsDoubleThree
<1>3. \A q : IsOpenFourTrue(c, q, d) => MayMakeLine(c, q) /\ q \in Free(c)
  BY AtEmpty DEF IsOpenFourTrue, MakesTwoFives, MayMakeLine
<1>4. \A q \in Free(c) : MayMakeLine(c, q) => (Step(q) <=> Near(q) /\ Four(q))
  BY ThreeStep
<1>5. IsOpenThree(b, p, d, doubleThree) <=>
        \E q : Step(q) /\ ~IsDoubleFour(c, q) /\ ~doubleThree[<<c, q>>]
  BY Zenon DEF IsOpenThree
<1>6. IsThree(Black(c), Free(c), p, d, foul) <=>
        \E q \in Free(c) : /\ Near(q) /\ Four(q)
                           /\ foul[<<Black(c), Free(c), q>>] = "none" /\ ~Five(q)
  BY Zenon DEF IsThree
<1>7. ASSUME NEW q
      PROVE  Step(q) /\ ~IsDoubleFour(c, q) /\ ~doubleThree[<<c, q>>] <=>
               /\ q \in Free(c) /\ Near(q) /\ Four(q)
               /\ foul[<<Black(c), Free(c), q>>] = "none" /\ ~Five(q)
  <2>1. q \in Free(c) =>
          (MayMakeLine(c, q) <=> ~Five(q) /\ ~IsOverline(c, q))
    BY <1>1, Zenon DEF MayMakeLine
  <2>2. Step(q) => MayMakeLine(c, q) /\ q \in Free(c)
    BY <1>3, Zenon
  <2> HIDE DEF c, Step, Near, Four, Five
  <2> QED
    BY <1>2, <1>4, <2>1, <2>2, Zenon
<1> HIDE DEF c, Step, Near, Four, Five
<1>8. IsOpenThree(b, p, d, doubleThree) <=> IsThree(Black(c), Free(c), p, d, foul)
  BY <1>5, <1>6, <1>7, Zenon
<1> QED
  BY <1>8 DEF c

\* There are finitely many directions.
LEMMA DirectionFinite == IsFiniteSet(Direction)
<1>1. Direction \subseteq 0 .. 40 /\ 0 \in Int /\ 40 \in Int
  BY DEF Direction
<1>2. IsFiniteSet(0 .. 40)
  BY <1>1, FS_Interval, Zenon
<1> QED
  BY <1>1, <1>2, FS_Subset, Zenon

\* Two open threes, in order of their directions, are two threes in any order.
LEMMA ThreesAre ==
  ASSUME NEW b \in Boards, NEW p \in Free(b), MayMakeLine(b, p),
         JudgedByTheRule(Put(b, p))
  PROVE  IsDoubleThree(b, p) <=>
           Cardinality({d \in Direction :
                          IsThree(Black(Put(b, p)), Free(Put(b, p)), p, d, foul)}) >= 2
<1> DEFINE Three(d) == IsThree(Black(Put(b, p)), Free(Put(b, p)), p, d, foul)
           threes == {d \in Direction : Three(d)}
<1>1. \A d \in Direction : IsOpenThree(b, p, d, doubleThree) <=> Three(d)
  BY OpenThreeIs
<1>2. p \in Int
  BY AtEmpty
<1>3. IsDoubleThree(b, p) <=>
        \E d, e \in Direction : /\ d < e /\ IsOpenThree(b, p, d, doubleThree)
                                /\ IsOpenThree(b, p, e, doubleThree)
  BY <1>2, DoubleThreeIs, Zenon DEF IsDoubleThree, MayMakeLine
<1> HIDE DEF Three
<1>4. IsDoubleThree(b, p) <=> \E d, e \in Direction : d < e /\ Three(d) /\ Three(e)
  BY <1>1, <1>3, Zenon
<1>5. (\E d, e \in Direction : d < e /\ Three(d) /\ Three(e)) <=>
        \E d, e \in threes : d # e
  <2>1. \A d, e \in Direction : d # e <=> d < e \/ e < d
    BY DEF Direction
  <2> QED
    BY <2>1
<1>6. IsFiniteSet(threes)
  <2>1. threes \subseteq Direction
    OBVIOUS
  <2> QED
    BY <2>1, DirectionFinite, FS_Subset, Zenon
<1>7. Cardinality(threes) >= 2 <=> \E d, e \in threes : d # e
  BY <1>6, TwoElements
<1>8. IsDoubleThree(b, p) <=> Cardinality(threes) >= 2
  BY <1>4, <1>5, <1>7, Zenon
<1> QED
  BY <1>8, Zenon DEF threes, Three

(***************************************************************************)
(* One question of the code is answered as the rule answers it, if every   *)
(* question about the board with the stone put is.                         *)
(***************************************************************************)
LEMMA VerdictIs ==
  ASSUME NEW b \in Boards, NEW p \in Free(b), JudgedByTheRule(Put(b, p))
  PROVE  IsForbidden(b, p) = foul[<<Black(b), Free(b), p>>]
<1> DEFINE c == Put(b, p)
           S == Black(c)
           F == Free(c)
           over == \E d \in Direction : Overline(S, p, d)
           wins == Wins(S, p, FALSE)
           threes == Cardinality({d \in Direction : IsThree(S, F, p, d, foul)}) >= 2
           fours == Cardinality(UNION {FoursThrough(S, F, p, d) : d \in Direction}) >= 2
<1>1. p \in Square /\ b[p] = EMPTY /\ At(b, p) = EMPTY /\ p \in Int
  BY AtEmpty
<1>2. S = Black(b) \cup {p} /\ F = Free(b) \ {p}
  BY <1>1, PutStone, Zenon
<1>3. foul[<<Black(b), Free(b), p>>] = Verdict(S, F, p, foul)
  <2>1. Black(b) \in SUBSET Square /\ Free(b) \in SUBSET Square
    BY DEF Black, Free
  <2>2. foul[<<Black(b), Free(b), p>>] = Verdict(Black(b) \cup {p}, Free(b) \ {p}, p, foul)
    BY <1>1, <2>1, FoulIs
  <2> QED
    BY <1>2, <2>2, Zenon
<1>4. Verdict(S, F, p, foul) =
        IF over THEN "overline" ELSE IF wins THEN "none"
        ELSE IF threes THEN "double_three" ELSE IF fours THEN "double_four" ELSE "none"
  BY DEF Verdict
<1>5. (IsOverline(b, p) <=> over) /\ (IsFive(b, p) <=> wins)
  <2>1. /\ IsFive(b, p) <=> Wins(Black(b) \cup {p}, p, FALSE)
        /\ IsOverline(b, p) <=> \E d \in Direction : Overline(Black(b) \cup {p}, p, d)
    BY LinesOfTheRule, Zenon
  <2> QED
    BY <1>2, <2>1, Zenon
<1>6. MayMakeLine(b, p) <=> ~over /\ ~wins
  BY <1>1, <1>5, Zenon DEF MayMakeLine
<1>7. MayMakeLine(b, p) => (IsDoubleThree(b, p) <=> threes)
  BY ThreesAre, Zenon
<1>8. MayMakeLine(b, p) => (IsDoubleFour(b, p) <=> fours)
  <2>1. MayMakeLine(b, p) =>
          (IsDoubleFour(b, p) <=>
             Cardinality(UNION {FoursThrough(Black(b) \cup {p}, Free(b) \ {p}, p, d) :
                                  d \in Direction}) >= 2)
    BY DoubleFourIs, Zenon
  <2> QED
    BY <1>2, <2>1, Zenon
<1>9. ~MayMakeLine(b, p) => ~IsDoubleThree(b, p) /\ ~IsDoubleFour(b, p)
  <2>1. ~MayMakeLine(b, p) => ~IsDoubleThree(b, p)
    BY <1>1, DoubleThreeIs, Zenon DEF IsDoubleThree, IsOpenThree, Direction
  <2>2. ASSUME ~MayMakeLine(b, p)
        PROVE  \A d : Fours(b, p, d) = 0
    BY <2>2 DEF Fours, IsOpenFourLong, IsFour, MakesTwoFives
  <2>3. ~MayMakeLine(b, p) => ~IsDoubleFour(b, p)
    BY <2>2 DEF IsDoubleFour
  <2> QED
    BY <2>1, <2>3
<1> HIDE DEF c, S, F, over, wins, threes, fours
<1>10. CASE over
  BY <1>3, <1>4, <1>5, <1>6, <1>9, <1>10 DEF IsForbidden
<1>11. CASE ~over /\ wins
  BY <1>3, <1>4, <1>5, <1>6, <1>9, <1>11 DEF IsForbidden
<1>12. CASE ~over /\ ~wins
  BY <1>3, <1>4, <1>5, <1>6, <1>7, <1>8, <1>12 DEF IsForbidden
<1> QED
  BY <1>10, <1>11, <1>12

\* By induction on the number of empty points, every free point of every board is judged by the rule.
LEMMA AllJudgedByTheRule ==
  ASSUME NEW b \in Boards
  PROVE  JudgedByTheRule(b)
<1> DEFINE M == Cardinality(Square)
           T == {i \in 0 .. M : \A c \in Boards : Empties(c) <= i => JudgedByTheRule(c)}
<1>1. M \in Nat
  BY SquareFinite, FS_CardinalityType
<1>2. \A c \in Boards : Empties(c) \in 0 .. M
  BY EmptiesPut
<1>3. ASSUME NEW c \in Boards, NEW q \in Free(c)
      PROVE  Put(c, q) \in Boards /\ Empties(Put(c, q)) < Empties(c)
  <2>1. q \in Square /\ c[q] = EMPTY
    BY AtEmpty
  <2> QED
    BY <2>1, EmptiesPut, PutStone
<1> HIDE DEF M
<1>4. 0 \in T
  <2>1. ASSUME NEW c \in Boards, Empties(c) <= 0, NEW q \in Free(c)
        PROVE  FALSE
    <3>1. Put(c, q) \in Boards /\ Empties(Put(c, q)) < Empties(c)
      BY <1>3
    <3>2. Empties(Put(c, q)) \in 0 .. M /\ Empties(c) \in 0 .. M
      BY <1>2, <3>1
    <3> QED
      BY <2>1, <3>1, <3>2
  <2> QED
    BY <1>1, <2>1 DEF JudgedByTheRule
<1>5. ASSUME NEW i \in 1 .. M, i - 1 \in T
      PROVE  i \in T
  <2>1. \A c \in Boards : Empties(c) <= i - 1 => JudgedByTheRule(c)
    BY <1>5
  <2>2. ASSUME NEW c \in Boards, Empties(c) <= i, NEW q \in Free(c)
        PROVE  IsForbidden(c, q) = foul[<<Black(c), Free(c), q>>]
    <3>1. Put(c, q) \in Boards /\ Empties(Put(c, q)) < Empties(c)
      BY <1>3
    <3>2. Empties(Put(c, q)) \in 0 .. M /\ Empties(c) \in 0 .. M
      BY <1>2, <3>1
    <3>3. Empties(Put(c, q)) <= i - 1
      BY <1>1, <2>2, <3>1, <3>2
    <3>4. JudgedByTheRule(Put(c, q))
      BY <2>1, <3>1, <3>3
    <3> QED
      BY <3>4, VerdictIs
  <2> QED
    BY <2>2 DEF JudgedByTheRule
<1> HIDE DEF T
<1>6. \A i \in 0 .. M : i \in T
  BY <1>1, <1>4, <1>5, Induction
<1>7. M \in T /\ Empties(b) <= M
  BY <1>1, <1>2, <1>6
<1> QED
  BY <1>7 DEF T

\* The board of a position of a game
LEMMA BoardOfPosition ==
  ASSUME NEW p, Recorded(p)
  PROVE  p.board \in Boards
BY DEF Recorded, Positions, Boards, Side

\* The points that are asked about are free points of the board.
LEMMA ProbedFree ==
  ASSUME NEW p \in ProbePoints
  PROVE  p \in Free(pos.board)
<1>1. pos.board[p] = EMPTY
  BY DEF ProbePoints
<1>2. PICK xy \in Coord \X Coord : p = POS(xy[1], xy[2])
  BY BoardPlayAssumption DEF ProbePoints
<1>3. p \in Square
  BY <1>2 DEF Square
<1> QED
  BY <1>1, <1>3 DEF Free

(***************************************************************************)
(* ForbiddenByTheRule on a board of any size, whatever the game that led to*)
(* the position: what check_forbidden_move finds with its counts to both   *)
(* sides of a point is what the rule says in terms of fives, fours and     *)
(* threes, to any depth of threes that ask about further points.           *)
(***************************************************************************)
THEOREM ForbiddenPointsOfTheRule ==
  ASSUME AnswersInMargin, OpeningsOnce
  PROVE  Spec => []ForbiddenByTheRule
<1>1. Init => IInv
  BY LoadedRecorded
<1>2. IInv /\ [Next]_vars => IInv'
  BY StepRecorded
<1>3. IInv => ForbiddenByTheRule
  <2>1. ASSUME IInv, NEW p \in ProbePoints
        PROVE  IsForbidden(pos.board, p) = Foul(Black(pos.board), Free(pos.board), p)
    <3>1. pos.board \in Boards
      BY <2>1, BoardOfPosition DEF IInv
    <3>2. p \in Free(pos.board)
      BY ProbedFree
    <3>3. JudgedByTheRule(pos.board)
      BY <3>1, AllJudgedByTheRule
    <3> QED
      BY <3>2, <3>3 DEF JudgedByTheRule, Foul
  <2> QED
    BY <2>1 DEF ForbiddenByTheRule
<1> QED
  BY <1>1, <1>2, <1>3, PTL DEF Spec

-----------------------------------------------------------------------------
\* Renju: mirrored and turned boards

\* A step of a along x and b along y, as a number, and where a transform points it
Vector(a, b) == 32 * a + b

TurnedStep(type, a, b) ==
  CASE type = 0 -> Vector(a, b)
    [] type = 1 -> Vector(b, -a)
    [] type = 2 -> Vector(-a, -b)
    [] type = 3 -> Vector(-b, a)
    [] type = 4 -> Vector(a, -b)
    [] type = 5 -> Vector(-a, b)
    [] type = 6 -> Vector(b, a)
    [] type = 7 -> Vector(-b, -a)

TurnedDirection(type, d) ==
  CASE d = 1 -> TurnedStep(type, 0, 1)
    [] d = 31 -> TurnedStep(type, 1, -1)
    [] d = 32 -> TurnedStep(type, 1, 0)
    [] d = 33 -> TurnedStep(type, 1, 1)

(***************************************************************************)
(* Five steps from a point of the board no line has come back to the board *)
(* on its other side.                                                      *)
(***************************************************************************)
LEMMA PointAfterStep ==
  ASSUME NEW x \in Coord, NEW y \in Coord, NEW a \in -5 .. 5, NEW b \in -5 .. 5
  PROVE  /\ POS(x, y) + Vector(a, b) = POS(x + a, y + b)
         /\ POS(x, y) + Vector(a, b) \in Square <=> x + a \in Coord /\ y + b \in Coord
<1>1. /\ x \in Margin /\ y \in Margin
      /\ x + a \in Margin /\ y + b \in Margin
  BY SizeAssumption DEF Coord, Margin
<1>2. /\ POS(x, y) = ((32 * x) + y) + 165
      /\ POS(x + a, y + b) = ((32 * (x + a)) + (y + b)) + 165
      /\ POS(x + a, y + b) \in Square <=> x + a \in Coord /\ y + b \in Coord
  BY <1>1, PosValue
<1>3. x \in Int /\ y \in Int
  BY SizeAssumption DEF Coord
<1>4. POS(x, y) + Vector(a, b) = POS(x + a, y + b)
  BY <1>2, <1>3 DEF Vector
<1> QED
  BY <1>2, <1>4

\* A step on the board and the same step of the transformed points
LEMMA StepMoved ==
  ASSUME NEW p \in Square, NEW type \in Transforms,
         NEW a \in -5 .. 5, NEW b \in -5 .. 5
  PROVE  /\ p + Vector(a, b) \in Square <=>
              TransformPos(p, type) + TurnedStep(type, a, b) \in Square
         /\ p + Vector(a, b) \in Square =>
              TransformPos(p + Vector(a, b), type)
                = TransformPos(p, type) + TurnedStep(type, a, b)
<1> DEFINE s == Size - 1
           u == CoordX(p)
           v == CoordY(p)
           q == p + Vector(a, b)
<1>1. type \in {0, 1, 2, 3, 4, 5, 6, 7}
  BY DEF Transforms, NB_TRANS
<1>2. u \in Coord /\ v \in Coord /\ p = POS(u, v)
  BY SquarePoint
<1>3. -a \in -5 .. 5 /\ -b \in -5 .. 5
  OBVIOUS
<1>4. q \in Square <=> u + a \in Coord /\ v + b \in Coord
  BY <1>2, PointAfterStep
<1>5. ASSUME q \in Square
      PROVE  CoordX(q) = u + a /\ CoordY(q) = v + b
  <2> HIDE DEF u, v
  <2>1. POS(u, v) + Vector(a, b) = POS(u + a, v + b)
    BY <1>2, PointAfterStep
  <2>2. u + a \in Coord /\ v + b \in Coord
    BY <1>4, <1>5
  <2>3. q = POS(u + a, v + b)
    BY <1>2, <2>1
  <2> QED
    BY <2>2, <2>3, BoardPoint, Zenon
<1>6. PICK x \in Coord, y \in Coord :
        /\ TransformPos(p, type) = POS(x, y)
        /\ type = 0 => x = u /\ y = v
        /\ type = 1 => x = v /\ y = s - u
        /\ type = 2 => x = s - u /\ y = s - v
        /\ type = 3 => x = s - v /\ y = u
        /\ type = 4 => x = u /\ y = s - v
        /\ type = 5 => x = s - u /\ y = v
        /\ type = 6 => x = v /\ y = u
        /\ type = 7 => x = s - v /\ y = s - u
  BY TransformCoords
<1>7. PICK c \in -5 .. 5, e \in -5 .. 5 :
        /\ TurnedStep(type, a, b) = Vector(c, e)
        /\ type = 0 => c = a /\ e = b
        /\ type = 1 => c = b /\ e = -a
        /\ type = 2 => c = -a /\ e = -b
        /\ type = 3 => c = -b /\ e = a
        /\ type = 4 => c = a /\ e = -b
        /\ type = 5 => c = -a /\ e = b
        /\ type = 6 => c = b /\ e = a
        /\ type = 7 => c = -b /\ e = -a
  <2>1. CASE type = 0
    BY <2>1 DEF TurnedStep
  <2>2. CASE type = 1
    BY <1>3, <2>2 DEF TurnedStep
  <2>3. CASE type = 2
    BY <1>3, <2>3 DEF TurnedStep
  <2>4. CASE type = 3
    BY <1>3, <2>4 DEF TurnedStep
  <2>5. CASE type = 4
    BY <1>3, <2>5 DEF TurnedStep
  <2>6. CASE type = 5
    BY <1>3, <2>6 DEF TurnedStep
  <2>7. CASE type = 6
    BY <1>3, <2>7 DEF TurnedStep
  <2>8. CASE type = 7
    BY <1>3, <2>8 DEF TurnedStep
  <2> QED
    BY <1>1, <2>1, <2>2, <2>3, <2>4, <2>5, <2>6, <2>7, <2>8
<1>8. /\ POS(x, y) + Vector(c, e) = POS(x + c, y + e)
      /\ POS(x, y) + Vector(c, e) \in Square <=> x + c \in Coord /\ y + e \in Coord
  BY PointAfterStep
<1> HIDE DEF u, v
<1>9. u + a \in Coord /\ v + b \in Coord <=> x + c \in Coord /\ y + e \in Coord
  BY <1>1, <1>2, <1>6, <1>7, SizeAssumption DEF Coord
<1>10. q \in Square <=> TransformPos(p, type) + TurnedStep(type, a, b) \in Square
  BY <1>4, <1>6, <1>7, <1>8, <1>9, Zenon
<1>11. ASSUME q \in Square
       PROVE  TransformPos(q, type) = TransformPos(p, type) + TurnedStep(type, a, b)
  <2>1. PICK X \in Coord, Y \in Coord :
          /\ TransformPos(q, type) = POS(X, Y)
          /\ type = 0 => X = CoordX(q) /\ Y = CoordY(q)
          /\ type = 1 => X = CoordY(q) /\ Y = s - CoordX(q)
          /\ type = 2 => X = s - CoordX(q) /\ Y = s - CoordY(q)
          /\ type = 3 => X = s - CoordY(q) /\ Y = CoordX(q)
          /\ type = 4 => X = CoordX(q) /\ Y = s - CoordY(q)
          /\ type = 5 => X = s - CoordX(q) /\ Y = CoordY(q)
          /\ type = 6 => X = CoordY(q) /\ Y = CoordX(q)
          /\ type = 7 => X = s - CoordY(q) /\ Y = s - CoordX(q)
    BY <1>11, TransformCoords
  <2>2. CoordX(q) = u + a /\ CoordY(q) = v + b
    BY <1>5, <1>11 DEF u, v
  <2> HIDE DEF q
  <2>3. X = x + c /\ Y = y + e
    BY <1>1, <1>2, <1>6, <1>7, <2>1, <2>2, SizeAssumption DEF Coord
  <2> QED
    BY <1>6, <1>7, <1>8, <2>1, <2>3, Zenon
<1> QED
  BY <1>10, <1>11, Zenon DEF q

(***************************************************************************)
(* A map of the board that keeps lines: T maps points, V[d] is the step    *)
(* that a step of d becomes.                                               *)
(***************************************************************************)
Symmetry(T, V) ==
  /\ T \in [Square -> Square] /\ V \in [Direction -> Int]
  /\ \A p, q \in Square : T[p] = T[q] => p = q
  /\ \A d \in Direction : V[d] \in Direction \/ -V[d] \in Direction
  /\ \A e \in Direction : \E d \in Direction : V[d] = e \/ V[d] = -e
  /\ \A d, e \in Direction : V[d] = V[e] \/ V[d] = -V[e] => d = e
  /\ \A p \in Square, d \in Direction, i \in -5 .. 5 :
       /\ p + (i * d) \in Square <=> T[p] + (i * V[d]) \in Square
       /\ p + (i * d) \in Square => T[p + (i * d)] = T[p] + (i * V[d])

\* The eight transforms are symmetries.
LEMMA TransformIsSymmetry ==
  ASSUME NEW type \in Transforms
  PROVE  Symmetry([p \in Square |-> TransformPos(p, type)],
                  [d \in Direction |-> TurnedDirection(type, d)])
<1> DEFINE T == [p \in Square |-> TransformPos(p, type)]
           V == [d \in Direction |-> TurnedDirection(type, d)]
<1>1. /\ T \in [Square -> Square]
      /\ \A p, q \in Square : T[p] = T[q] => p = q
  BY TransformInjective
<1>2. type \in {0, 1, 2, 3, 4, 5, 6, 7}
  BY DEF Transforms, NB_TRANS
<1>3. /\ V[1] = TurnedStep(type, 0, 1) /\ V[31] = TurnedStep(type, 1, -1)
      /\ V[32] = TurnedStep(type, 1, 0) /\ V[33] = TurnedStep(type, 1, 1)
  BY DEF TurnedDirection, Direction
<1>4. /\ type \in {0, 5} => V[1] = 1
      /\ type \in {2, 4} => V[1] = -1
      /\ type \in {1, 6} => V[1] = 32
      /\ type \in {3, 7} => V[1] = -32
      /\ type \in {0, 4} => V[32] = 32
      /\ type \in {2, 5} => V[32] = -32
      /\ type \in {3, 6} => V[32] = 1
      /\ type \in {1, 7} => V[32] = -1
      /\ type = 0 => V[31] = 31 /\ V[33] = 33
      /\ type = 1 => V[31] = -33 /\ V[33] = 31
      /\ type = 2 => V[31] = -31 /\ V[33] = -33
      /\ type = 3 => V[31] = 33 /\ V[33] = -31
      /\ type = 4 => V[31] = 33 /\ V[33] = 31
      /\ type = 5 => V[31] = -33 /\ V[33] = -31
      /\ type = 6 => V[31] = -31 /\ V[33] = 33
      /\ type = 7 => V[31] = 31 /\ V[33] = -33
  BY <1>2, <1>3 DEF TurnedStep, Vector
<1>5. V \in [Direction -> Int]
  <2>1. \A d \in Direction : V[d] \in Int
    BY <1>2, <1>4 DEF Direction
  <2> QED
    BY <2>1
<1> HIDE DEF V
<1>6. \A d \in Direction : V[d] \in Direction \/ -V[d] \in Direction
  BY <1>2, <1>4 DEF Direction
<1>7. \A e \in Direction : \E d \in Direction : V[d] = e \/ V[d] = -e
  BY <1>2, <1>4 DEF Direction
<1>8. \A d, e \in Direction : V[d] = V[e] \/ V[d] = -V[e] => d = e
  BY <1>2, <1>4 DEF Direction
<1>9. ASSUME NEW p \in Square, NEW d \in Direction, NEW i \in -5 .. 5
      PROVE  /\ p + (i * d) \in Square <=> T[p] + (i * V[d]) \in Square
             /\ p + (i * d) \in Square => T[p + (i * d)] = T[p] + (i * V[d])
  <2>1. PICK a \in -5 .. 5, b \in -5 .. 5 :
          i * d = Vector(a, b) /\ i * V[d] = TurnedStep(type, a, b)
    <3>1. -i \in -5 .. 5 /\ 0 \in -5 .. 5
      OBVIOUS
    <3>2. d \in {1, 31, 32, 33}
      BY DEF Direction
    <3>3. CASE d = 1
      <4>1. i * d = Vector(0, i) /\ i * V[d] = TurnedStep(type, 0, i)
        BY <1>2, <1>4, <3>3 DEF TurnedStep, Vector
      <4> QED
        BY <3>1, <4>1
    <3>4. CASE d = 31
      <4>1. i * d = Vector(i, -i) /\ i * V[d] = TurnedStep(type, i, -i)
        BY <1>2, <1>4, <3>4 DEF TurnedStep, Vector
      <4> QED
        BY <3>1, <4>1
    <3>5. CASE d = 32
      <4>1. i * d = Vector(i, 0) /\ i * V[d] = TurnedStep(type, i, 0)
        BY <1>2, <1>4, <3>5 DEF TurnedStep, Vector
      <4> QED
        BY <3>1, <4>1
    <3>6. CASE d = 33
      <4>1. i * d = Vector(i, i) /\ i * V[d] = TurnedStep(type, i, i)
        BY <1>2, <1>4, <3>6 DEF TurnedStep, Vector
      <4> QED
        BY <3>1, <4>1
    <3> QED
      BY <3>2, <3>3, <3>4, <3>5, <3>6
  <2> DEFINE m == Vector(a, b)
             n == TurnedStep(type, a, b)
  <2>2. /\ p + m \in Square <=> TransformPos(p, type) + n \in Square
        /\ p + m \in Square => TransformPos(p + m, type) = TransformPos(p, type) + n
    BY StepMoved
  <2> HIDE DEF m, n
  <2>3. i * d = m /\ i * V[d] = n
    BY <2>1 DEF m, n
  <2>4. \A q \in Square : T[q] = TransformPos(q, type)
    OBVIOUS
  <2> HIDE DEF T
  <2> QED
    BY <2>2, <2>3, <2>4, Zenon
<1> HIDE DEF T
<1>10. Symmetry(T, V)
  BY <1>1, <1>5, <1>6, <1>7, <1>8, <1>9 DEF Symmetry
<1> QED
  BY <1>10 DEF T, V

\* The points that T takes those of S to
Moved(T, S) == {T[q] : q \in S}

\* Lines in direction d become lines in direction e, one way or the other.
Turns(V, d, e) == V[d] = e \/ V[d] = -e

\* A symmetry takes sets of points to sets of as many points.
LEMMA MovedSet ==
  ASSUME NEW T, NEW V, Symmetry(T, V), NEW S \in SUBSET Square
  PROVE  /\ Moved(T, S) \in SUBSET Square
         /\ \A q \in Square : T[q] \in Square /\ (T[q] \in Moved(T, S) <=> q \in S)
         /\ \A q \in Square : /\ Moved(T, S \cup {q}) = Moved(T, S) \cup {T[q]}
                              /\ Moved(T, S \ {q}) = Moved(T, S) \ {T[q]}
<1>1. /\ T \in [Square -> Square]
      /\ \A p, q \in Square : T[p] = T[q] => p = q
  BY DEF Symmetry
<1>2. Moved(T, S) \in SUBSET Square
  BY <1>1 DEF Moved
<1>3. \A q \in Square : T[q] \in Square /\ (T[q] \in Moved(T, S) <=> q \in S)
  BY <1>1 DEF Moved
<1>4. ASSUME NEW q \in Square
      PROVE  /\ Moved(T, S \cup {q}) = Moved(T, S) \cup {T[q]}
             /\ Moved(T, S \ {q}) = Moved(T, S) \ {T[q]}
  BY <1>1 DEF Moved
<1> QED
  BY <1>2, <1>3, <1>4

\* The stones on the axis of a point are those on the axis of its image.
LEMMA AxisMoved ==
  ASSUME NEW T, NEW V, Symmetry(T, V), NEW S \in SUBSET Square,
         NEW p \in Square, NEW d \in Direction, NEW i \in -5 .. 5
  PROVE  i \in Axis(S, p, d) <=> i \in Axis(Moved(T, S), T[p], V[d])
<1>1. /\ T \in [Square -> Square]
      /\ p + (i * d) \in Square <=> T[p] + (i * V[d]) \in Square
      /\ p + (i * d) \in Square => T[p + (i * d)] = T[p] + (i * V[d])
  BY DEF Symmetry
<1>2. Moved(T, S) \in SUBSET Square
  BY MovedSet
<1>3. p + (i * d) \in Square => (T[p + (i * d)] \in Moved(T, S) <=> p + (i * d) \in S)
  BY MovedSet
<1> DEFINE x == p + (i * d)
           y == T[p] + (i * V[d])
<1>4. i \in Int
  OBVIOUS
<1>5. /\ i \in Axis(S, p, d) <=> x \in S
      /\ i \in Axis(Moved(T, S), T[p], V[d]) <=> y \in Moved(T, S)
  BY <1>4 DEF Axis
<1> HIDE DEF x, y
<1>6. /\ x \in Square <=> y \in Square
      /\ x \in Square => T[x] = y
      /\ x \in Square => (T[x] \in Moved(T, S) <=> x \in S)
  BY <1>1, <1>3 DEF x, y
<1> QED
  BY <1>2, <1>5, <1>6

(***************************************************************************)
(* A window is the same points counted from its other end.                 *)
(***************************************************************************)
LEMMA WindowBackwards ==
  ASSUME NEW p \in Int, NEW d \in Int, NEW n \in Nat, NEW k \in Int
  PROVE  /\ Window(p, -d, n, k) = Window(p, d, n, (n + 1) - k)
         /\ WindowEnds(p, -d, n, k) = WindowEnds(p, d, n, (n + 1) - k)
<1>1. ASSUME NEW i \in 1 .. n
      PROVE  /\ (n + 1) - i \in 1 .. n /\ (n + 1) - ((n + 1) - i) = i
             /\ p + (i - k) * (-d) = p + (((n + 1) - i) - ((n + 1) - k)) * d
  <2>1. (i - k) * (-d) = (k - i) * d
    OBVIOUS
  <2>2. ((n + 1) - i) - ((n + 1) - k) = k - i
    OBVIOUS
  <2>3. (n + 1) - i \in 1 .. n /\ (n + 1) - ((n + 1) - i) = i
    OBVIOUS
  <2> QED
    BY <2>1, <2>2, <2>3
<1>2. Window(p, -d, n, k) \subseteq Window(p, d, n, (n + 1) - k)
  <2>1. ASSUME NEW x \in Window(p, -d, n, k)
        PROVE  x \in Window(p, d, n, (n + 1) - k)
    <3>1. PICK i \in 1 .. n : x = p + (i - k) * (-d)
      BY DEF Window
    <3>2. x = p + (((n + 1) - i) - ((n + 1) - k)) * d /\ (n + 1) - i \in 1 .. n
      BY <1>1, <3>1
    <3> QED
      BY <3>2 DEF Window
  <2> QED
    BY <2>1
<1>3. Window(p, d, n, (n + 1) - k) \subseteq Window(p, -d, n, k)
  <2>1. ASSUME NEW x \in Window(p, d, n, (n + 1) - k)
        PROVE  x \in Window(p, -d, n, k)
    <3>1. PICK j \in 1 .. n : x = p + (j - ((n + 1) - k)) * d
      BY DEF Window
    <3> DEFINE i == (n + 1) - j
    <3>2. i \in 1 .. n /\ (n + 1) - i = j
      BY <1>1
    <3>3. p + (i - k) * (-d) = p + (((n + 1) - i) - ((n + 1) - k)) * d
      BY <1>1, <3>2
    <3> HIDE DEF i
    <3>4. x = p + (i - k) * (-d)
      BY <3>1, <3>2, <3>3
    <3> QED
      BY <3>2, <3>4 DEF Window
  <2> QED
    BY <2>1
<1>4. /\ p - k * (-d) = p + ((n + 1) - ((n + 1) - k)) * d
      /\ p + ((n + 1) - k) * (-d) = p - ((n + 1) - k) * d
  <2> DEFINE m == (n + 1) - k
  <2>1. m \in Int /\ (n + 1) - m = k
    OBVIOUS
  <2> HIDE DEF m
  <2>2. p + m * (-d) = p - m * d
    BY <2>1
  <2>3. p - k * (-d) = p + k * d
    OBVIOUS
  <2> QED
    BY <2>1, <2>2, <2>3 DEF m
<1>5. WindowEnds(p, -d, n, k) = WindowEnds(p, d, n, (n + 1) - k)
  BY <1>4 DEF WindowEnds
<1> QED
  BY <1>2, <1>3, <1>5

\* Fives and overlines, counted from the other end
LEMMA LinesBackwards ==
  ASSUME NEW S, NEW p \in Int, NEW d \in Int
  PROVE  /\ ExactFive(S, p, -d) <=> ExactFive(S, p, d)
         /\ FiveOrMore(S, p, -d) <=> FiveOrMore(S, p, d)
         /\ Overline(S, p, -d) <=> Overline(S, p, d)
<1>1. \A k \in 1 .. 5 : /\ Window(p, -d, 5, k) = Window(p, d, 5, 6 - k)
                        /\ WindowEnds(p, -d, 5, k) = WindowEnds(p, d, 5, 6 - k)
  BY WindowBackwards
<1>2. \A k \in 1 .. 6 : Window(p, -d, 6, k) = Window(p, d, 6, 7 - k)
  BY WindowBackwards
<1>3. /\ \A k \in 1 .. 5 : 6 - k \in 1 .. 5 /\ 6 - (6 - k) = k
      /\ \A k \in 1 .. 6 : 7 - k \in 1 .. 6 /\ 7 - (7 - k) = k
  OBVIOUS
<1>4. ExactFive(S, p, -d) <=> ExactFive(S, p, d)
  BY <1>1, <1>3, Zenon DEF ExactFive
<1>5. FiveOrMore(S, p, -d) <=> FiveOrMore(S, p, d)
  BY <1>1, <1>3, Zenon DEF FiveOrMore
<1>6. Overline(S, p, -d) <=> Overline(S, p, d)
  BY <1>2, <1>3, Zenon DEF Overline
<1> QED
  BY <1>4, <1>5, <1>6

\* Five or more on an axis
LongOn(A, x) == \E j \in x - 4 .. x : \A i \in j .. j + 4 : i \in A

\* Fives and overlines as sets of numbers on the axis of their point
LEMMA LinesOnAxis ==
  ASSUME NEW S, NEW p \in Int, NEW d \in Int
  PROVE  /\ ExactFive(S, p, d) <=> FiveOn(Axis(S, p, d), 0)
         /\ FiveOrMore(S, p, d) <=> LongOn(Axis(S, p, d), 0)
         /\ Overline(S, p, d) <=> SixOn(Axis(S, p, d), 0)
<1>1. p + (0 * d) = p /\ 0 \in Int /\ 5 \in Nat
  OBVIOUS
<1>2. /\ ExactFive(S, p + (0 * d), d) <=> FiveOn(Axis(S, p, d), 0)
      /\ Overline(S, p + (0 * d), d) <=> SixOn(Axis(S, p, d), 0)
  BY <1>1, AxisFive
<1>3. ASSUME NEW k \in 1 .. 5
      PROVE  Window(p, d, 5, k) \subseteq S <=> \A i \in 1 - k .. 5 - k : i \in Axis(S, p, d)
  <2> DEFINE n == 5
  <2>1. n \in Nat /\ 0 \in Int /\ k \in Int
    OBVIOUS
  <2> HIDE DEF n
  <2>2. Window(p + (0 * d), d, n, k) \subseteq S <=>
          \A i \in (0 + 1) - k .. (0 + n) - k : i \in Axis(S, p, d)
    BY <2>1, AxisWindow
  <2>3. (0 + 1) - k = 1 - k /\ (0 + n) - k = n - k
    BY <2>1
  <2> QED
    BY <1>1, <2>2, <2>3 DEF n
<1>4. FiveOrMore(S, p, d) <=> LongOn(Axis(S, p, d), 0)
  <2> DEFINE A == Axis(S, p, d)
  <2> HIDE DEF A
  <2>1. FiveOrMore(S, p, d) <=> \E k \in 1 .. 5 : \A i \in 1 - k .. 5 - k : i \in A
    BY <1>3, Zenon DEF FiveOrMore, A
  <2>2. (\E k \in 1 .. 5 : \A i \in 1 - k .. 5 - k : i \in A) <=> LongOn(A, 0)
    <3>1. \A k \in 1 .. 5 : 1 - k \in 0 - 4 .. 0 /\ (1 - k) + 4 = 5 - k
      OBVIOUS
    <3>2. \A j \in 0 - 4 .. 0 : 1 - j \in 1 .. 5 /\ 1 - (1 - j) = j /\ 5 - (1 - j) = j + 4
      OBVIOUS
    <3> QED
      BY <3>1, <3>2, Zenon DEF LongOn
  <2> QED
    BY <2>1, <2>2 DEF A
<1> QED
  BY <1>1, <1>2, <1>4

\* Fives and overlines depend on the axis up to five points away.
LEMMA NearbyLines ==
  ASSUME NEW A, NEW B, \A i \in -5 .. 5 : i \in A <=> i \in B
  PROVE  /\ FiveOn(A, 0) <=> FiveOn(B, 0)
         /\ LongOn(A, 0) <=> LongOn(B, 0)
         /\ SixOn(A, 0) <=> SixOn(B, 0)
<1>1. \A j \in 0 - 4 .. 0 : /\ \A i \in j .. j + 4 : i \in -5 .. 5
                            /\ j - 1 \in -5 .. 5 /\ j + 5 \in -5 .. 5
  OBVIOUS
<1>2. \A j \in 0 - 5 .. 0 : \A i \in j .. j + 5 : i \in -5 .. 5
  OBVIOUS
<1>3. FiveOn(A, 0) <=> FiveOn(B, 0)
  BY <1>1, Zenon DEF FiveOn
<1>4. LongOn(A, 0) <=> LongOn(B, 0)
  BY <1>1, Zenon DEF LongOn
<1>5. SixOn(A, 0) <=> SixOn(B, 0)
  BY <1>2, Zenon DEF SixOn
<1> QED
  BY <1>3, <1>4, <1>5

\* Fives and overlines after a symmetry, in the direction it turns theirs to
LEMMA LinesTurned ==
  ASSUME NEW T, NEW V, Symmetry(T, V), NEW S \in SUBSET Square,
         NEW p \in Square, NEW d \in Direction
  PROVE  /\ p \in Int /\ T[p] \in Square /\ T[p] \in Int /\ d \in Int /\ V[d] \in Int
         /\ ExactFive(S, p, d) <=> ExactFive(Moved(T, S), T[p], V[d])
         /\ FiveOrMore(S, p, d) <=> FiveOrMore(Moved(T, S), T[p], V[d])
         /\ Overline(S, p, d) <=> Overline(Moved(T, S), T[p], V[d])
<1> DEFINE M == Moved(T, S)
           q == T[p]
           v == V[d]
<1>1. p \in Int /\ q \in Square /\ q \in Int /\ d \in Int /\ v \in Int
  <2>1. q \in Square /\ v \in Int
    BY DEF Symmetry
  <2>2. \A x \in Square : x \in Int
    BY SquarePoint DEF PosBits
  <2> HIDE DEF q, v
  <2> QED
    BY <2>1, <2>2, DirectionType
<1>2. \A i \in -5 .. 5 : i \in Axis(S, p, d) <=> i \in Axis(M, q, v)
  BY AxisMoved
<1> HIDE DEF M, q, v
<1>4. /\ FiveOn(Axis(S, p, d), 0) <=> FiveOn(Axis(M, q, v), 0)
      /\ LongOn(Axis(S, p, d), 0) <=> LongOn(Axis(M, q, v), 0)
      /\ SixOn(Axis(S, p, d), 0) <=> SixOn(Axis(M, q, v), 0)
  BY <1>2, NearbyLines
<1>5. /\ ExactFive(S, p, d) <=> FiveOn(Axis(S, p, d), 0)
      /\ FiveOrMore(S, p, d) <=> LongOn(Axis(S, p, d), 0)
      /\ Overline(S, p, d) <=> SixOn(Axis(S, p, d), 0)
  BY <1>1, LinesOnAxis
<1>6. /\ ExactFive(M, q, v) <=> FiveOn(Axis(M, q, v), 0)
      /\ FiveOrMore(M, q, v) <=> LongOn(Axis(M, q, v), 0)
      /\ Overline(M, q, v) <=> SixOn(Axis(M, q, v), 0)
  BY <1>1, LinesOnAxis
<1> QED
  BY <1>1, <1>4, <1>5, <1>6, Zenon DEF M, q, v

(***************************************************************************)
(* Fives and overlines are where a symmetry puts them.                     *)
(***************************************************************************)
LEMMA LinesMoved ==
  ASSUME NEW T, NEW V, Symmetry(T, V), NEW S \in SUBSET Square,
         NEW p \in Square, NEW d \in Direction, NEW e \in Direction, Turns(V, d, e)
  PROVE  /\ ExactFive(S, p, d) <=> ExactFive(Moved(T, S), T[p], e)
         /\ FiveOrMore(S, p, d) <=> FiveOrMore(Moved(T, S), T[p], e)
         /\ Overline(S, p, d) <=> Overline(Moved(T, S), T[p], e)
<1> DEFINE M == Moved(T, S)
           q == T[p]
           v == V[d]
<1>1. /\ q \in Int /\ e \in Int
      /\ ExactFive(S, p, d) <=> ExactFive(M, q, v)
      /\ FiveOrMore(S, p, d) <=> FiveOrMore(M, q, v)
      /\ Overline(S, p, d) <=> Overline(M, q, v)
  BY LinesTurned, DirectionType
<1>2. v = e \/ v = -e
  BY DEF Turns
<1> HIDE DEF M, q, v
<1>3. /\ ExactFive(M, q, -e) <=> ExactFive(M, q, e)
      /\ FiveOrMore(M, q, -e) <=> FiveOrMore(M, q, e)
      /\ Overline(M, q, -e) <=> Overline(M, q, e)
  BY <1>1, LinesBackwards
<1>4. /\ ExactFive(M, q, v) <=> ExactFive(M, q, e)
      /\ FiveOrMore(M, q, v) <=> FiveOrMore(M, q, e)
      /\ Overline(M, q, v) <=> Overline(M, q, e)
  BY <1>2, <1>3, Zenon
<1> QED
  BY <1>1, <1>4, Zenon DEF M, q

\* A window and its ends among a set of points, on any axis
LEMMA WindowSteps ==
  ASSUME NEW S, NEW p \in Int, NEW d \in Int, NEW n \in Nat, NEW k \in Int
  PROVE  /\ Window(p, d, n, k) \subseteq S <=>
              \A i \in 1 - k .. n - k : i \in Axis(S, p, d)
         /\ WindowEnds(p, d, n, k) \cap S = {} <=>
              -k \notin Axis(S, p, d) /\ (n + 1) - k \notin Axis(S, p, d)
         /\ WindowEnds(p, d, n, k) \subseteq S <=>
              -k \in Axis(S, p, d) /\ (n + 1) - k \in Axis(S, p, d)
<1>1. 0 \in Int /\ p + (0 * d) = p
  OBVIOUS
<1>2. Window(p + (0 * d), d, n, k) \subseteq S <=>
        \A i \in (0 + 1) - k .. (0 + n) - k : i \in Axis(S, p, d)
  BY <1>1, AxisWindow
<1>3. /\ WindowEnds(p + (0 * d), d, n, k) \cap S = {} <=>
           0 - k \notin Axis(S, p, d) /\ (0 + n + 1) - k \notin Axis(S, p, d)
      /\ WindowEnds(p + (0 * d), d, n, k) \subseteq S <=>
           0 - k \in Axis(S, p, d) /\ (0 + n + 1) - k \in Axis(S, p, d)
  BY <1>1, AxisEnds
<1>4. /\ (0 + 1) - k = 1 - k /\ (0 + n) - k = n - k /\ 0 - k = -k
      /\ (0 + n + 1) - k = (n + 1) - k
  OBVIOUS
<1> QED
  BY <1>1, <1>2, <1>3, <1>4

(***************************************************************************)
(* Windows are where a symmetry puts them.                                 *)
(***************************************************************************)
LEMMA WindowMoved ==
  ASSUME NEW T, NEW V, Symmetry(T, V), NEW S \in SUBSET Square,
         NEW p \in Square, NEW d \in Direction, NEW n \in 4 .. 5, NEW k \in 1 .. n
  PROVE  /\ Window(p, d, n, k) \subseteq S <=>
              Window(T[p], V[d], n, k) \subseteq Moved(T, S)
         /\ WindowEnds(p, d, n, k) \cap S = {} <=>
              WindowEnds(T[p], V[d], n, k) \cap Moved(T, S) = {}
         /\ WindowEnds(p, d, n, k) \subseteq S <=>
              WindowEnds(T[p], V[d], n, k) \subseteq Moved(T, S)
<1> DEFINE q == T[p]
           v == V[d]
           M == Moved(T, S)
<1>1. p \in Int /\ q \in Int /\ d \in Int /\ v \in Int
  BY LinesTurned
<1>2. \A i \in -5 .. 5 : i \in Axis(S, p, d) <=> i \in Axis(M, q, v)
  BY AxisMoved
<1>4. /\ n \in Nat /\ k \in Int
      /\ \A i \in 1 - k .. n - k : i \in -5 .. 5
      /\ -k \in -5 .. 5 /\ (n + 1) - k \in -5 .. 5
  OBVIOUS
<1> HIDE DEF q, v, M
<1>5. /\ Window(p, d, n, k) \subseteq S <=>
           \A i \in 1 - k .. n - k : i \in Axis(S, p, d)
      /\ WindowEnds(p, d, n, k) \cap S = {} <=>
           -k \notin Axis(S, p, d) /\ (n + 1) - k \notin Axis(S, p, d)
      /\ WindowEnds(p, d, n, k) \subseteq S <=>
           -k \in Axis(S, p, d) /\ (n + 1) - k \in Axis(S, p, d)
  BY <1>1, <1>4, WindowSteps
<1>6. /\ Window(q, v, n, k) \subseteq M <=>
           \A i \in 1 - k .. n - k : i \in Axis(M, q, v)
      /\ WindowEnds(q, v, n, k) \cap M = {} <=>
           -k \notin Axis(M, q, v) /\ (n + 1) - k \notin Axis(M, q, v)
      /\ WindowEnds(q, v, n, k) \subseteq M <=>
           -k \in Axis(M, q, v) /\ (n + 1) - k \in Axis(M, q, v)
  BY <1>1, <1>4, WindowSteps
<1>7. Window(p, d, n, k) \subseteq S <=> Window(q, v, n, k) \subseteq M
  BY <1>2, <1>4, <1>5, <1>6, Zenon
<1>8. WindowEnds(p, d, n, k) \cap S = {} <=> WindowEnds(q, v, n, k) \cap M = {}
  BY <1>2, <1>4, <1>5, <1>6, Zenon
<1>9. WindowEnds(p, d, n, k) \subseteq S <=> WindowEnds(q, v, n, k) \subseteq M
  BY <1>2, <1>4, <1>5, <1>6, Zenon
<1> QED
  BY <1>7, <1>8, <1>9, Zenon DEF q, v, M

\* A window of points of the board goes to the window of the image.
LEMMA WindowMapped ==
  ASSUME NEW T, NEW V, Symmetry(T, V),
         NEW p \in Square, NEW d \in Direction, NEW n \in 4 .. 5, NEW k \in 1 .. n,
         Window(p, d, n, k) \subseteq Square
  PROVE  Window(T[p], V[d], n, k) = Moved(T, Window(p, d, n, k))
<1> DEFINE q == T[p]
           v == V[d]
<1>1. p \in Int /\ q \in Int /\ d \in Int /\ v \in Int
  <2>1. Square \in SUBSET Square
    OBVIOUS
  <2> QED
    BY <2>1, LinesTurned
<1>3. \A i \in -5 .. 5 : p + (i * d) \in Square => T[p + (i * d)] = q + (i * v)
  BY DEF Symmetry
<1>4. /\ n \in Nat /\ k \in Int
      /\ -k \in -5 .. 5 /\ (n + 1) - k \in -5 .. 5
      /\ \A i \in 1 .. n : i - k \in -5 .. 5
  OBVIOUS
<1>10. Window(p, d, n, k) \subseteq Square
  OBVIOUS
<1> HIDE DEF q, v
<1>11. Window(q, v, n, k) = Moved(T, Window(p, d, n, k))
  <2>1. \A i \in 1 .. n : T[p + (i - k) * d] = q + (i - k) * v
    <3>1. \A i \in 1 .. n : p + (i - k) * d \in Square
      BY <1>10, Zenon DEF Window
    <3> QED
      BY <1>3, <1>4, <3>1, Zenon
  <2>2. Moved(T, Window(p, d, n, k)) = {T[p + (i - k) * d] : i \in 1 .. n}
    BY DEF Moved, Window
  <2>3. {T[p + (i - k) * d] : i \in 1 .. n} = {q + (i - k) * v : i \in 1 .. n}
    BY <2>1, Zenon
  <2> QED
    BY <2>2, <2>3, Zenon DEF Window
<1> QED
  BY <1>11 DEF q, v

\* So do the two points next to it.
LEMMA EndsMapped ==
  ASSUME NEW T, NEW V, Symmetry(T, V),
         NEW p \in Square, NEW d \in Direction, NEW n \in 4 .. 5, NEW k \in 1 .. n,
         WindowEnds(p, d, n, k) \subseteq Square
  PROVE  WindowEnds(T[p], V[d], n, k) = Moved(T, WindowEnds(p, d, n, k))
<1> DEFINE q == T[p]
           v == V[d]
<1>1. p \in Int /\ q \in Int /\ d \in Int /\ v \in Int
  <2>1. Square \in SUBSET Square
    OBVIOUS
  <2> QED
    BY <2>1, LinesTurned
<1>3. \A i \in -5 .. 5 : p + (i * d) \in Square => T[p + (i * d)] = q + (i * v)
  BY DEF Symmetry
<1>4. /\ n \in Nat /\ k \in Int
      /\ -k \in -5 .. 5 /\ (n + 1) - k \in -5 .. 5
      /\ \A i \in 1 .. n : i - k \in -5 .. 5
  OBVIOUS
<1>10. WindowEnds(p, d, n, k) \subseteq Square
  OBVIOUS
<1> HIDE DEF q, v
<1>11. WindowEnds(q, v, n, k) = Moved(T, WindowEnds(p, d, n, k))
  <2>1. /\ p - k * d = p + ((-k) * d) /\ q - k * v = q + ((-k) * v)
    BY <1>1, <1>4
  <2>2. /\ WindowEnds(p, d, n, k) = {p + ((-k) * d), p + ((n + 1) - k) * d}
        /\ WindowEnds(q, v, n, k) = {q + ((-k) * v), q + ((n + 1) - k) * v}
    BY <2>1 DEF WindowEnds
  <2>3. p + ((-k) * d) \in Square /\ p + ((n + 1) - k) * d \in Square
    BY <1>10, <2>2, Zenon
  <2>4. T[p + ((-k) * d)] = q + ((-k) * v) /\ T[p + ((n + 1) - k) * d] = q + ((n + 1) - k) * v
    BY <1>3, <1>4, <2>3, Zenon
  <2>5. Moved(T, {p + ((-k) * d), p + ((n + 1) - k) * d})
          = {T[p + ((-k) * d)], T[p + ((n + 1) - k) * d]}
    BY Zenon DEF Moved
  <2> QED
    BY <2>2, <2>4, <2>5, Zenon
<1> QED
  BY <1>11 DEF q, v

(***************************************************************************)
(* The fours of a point, on one line                                       *)
(***************************************************************************)
LEMMA FoursBackwards ==
  ASSUME NEW S, NEW F, NEW p \in Int, NEW d \in Int
  PROVE  FoursThrough(S, F, p, -d) = FoursThrough(S, F, p, d)
<1> DEFINE K(e) == {k \in 1 .. 5 : FourWindow(S, F, p, e, k)}
<1>1. \A k \in 1 .. 5 : /\ Window(p, -d, 5, k) = Window(p, d, 5, 6 - k)
                        /\ WindowEnds(p, -d, 5, k) = WindowEnds(p, d, 5, 6 - k)
  BY WindowBackwards
<1>2. \A k \in 1 .. 5 : 6 - k \in 1 .. 5 /\ 6 - (6 - k) = k
  OBVIOUS
<1>3. \A e : FoursThrough(S, F, p, e) = {Window(p, e, 5, k) \ F : k \in K(e)}
  BY DEF FoursThrough, FourWindow
<1>4. \A k \in 1 .. 5 : k \in K(-d) <=> 6 - k \in K(d)
  BY <1>1, <1>2, Zenon DEF FourWindow
<1>5. {Window(p, -d, 5, k) \ F : k \in K(-d)} \subseteq {Window(p, d, 5, k) \ F : k \in K(d)}
  <2>1. \A k \in K(-d) : k \in 1 .. 5 /\ 6 - k \in K(d) /\ Window(p, -d, 5, k) = Window(p, d, 5, 6 - k)
    BY <1>1, <1>4, Zenon
  <2> HIDE DEF K
  <2> QED
    BY <2>1, Zenon
<1>6. {Window(p, d, 5, k) \ F : k \in K(d)} \subseteq {Window(p, -d, 5, k) \ F : k \in K(-d)}
  <2>1. ASSUME NEW k \in K(d)
        PROVE  6 - k \in K(-d) /\ Window(p, -d, 5, 6 - k) = Window(p, d, 5, k)
    <3>1. k \in 1 .. 5
      OBVIOUS
    <3>2. 6 - k \in 1 .. 5 /\ 6 - (6 - k) = k
      BY <1>2, <3>1
    <3>3. 6 - k \in K(-d) <=> k \in K(d)
      BY <1>4, <3>2, Zenon
    <3> HIDE DEF K
    <3> QED
      BY <1>1, <2>1, <3>2, <3>3, Zenon
  <2> HIDE DEF K
  <2> QED
    BY <2>1, Zenon
<1> HIDE DEF K
<1> QED
  BY <1>3, <1>5, <1>6

\* A window is a four before and after a symmetry.
LEMMA FourWindowMoved ==
  ASSUME NEW T, NEW V, Symmetry(T, V), NEW S \in SUBSET Square, NEW F \in SUBSET Square,
         NEW p \in Square, NEW d \in Direction, NEW k \in 1 .. 5
  PROVE  FourWindow(S, F, p, d, k) <=>
           FourWindow(Moved(T, S), Moved(T, F), T[p], V[d], k)
<1> DEFINE W == Window(p, d, 5, k)
           X == Window(T[p], V[d], 5, k)
           n == 5
<1>1. n \in 4 .. 5 /\ k \in 1 .. n
  OBVIOUS
<1> HIDE DEF n
<1>2. \A A \in SUBSET Square :
        /\ Window(p, d, n, k) \subseteq A <=> Window(T[p], V[d], n, k) \subseteq Moved(T, A)
        /\ WindowEnds(p, d, n, k) \cap A = {} <=>
             WindowEnds(T[p], V[d], n, k) \cap Moved(T, A) = {}
  BY <1>1, WindowMoved
<1> DEFINE O == WindowEnds(p, d, n, k) \cap S = {}
           P == WindowEnds(T[p], V[d], n, k) \cap Moved(T, S) = {}
<1>4. O <=> P
  BY <1>2
<1>5. ASSUME NEW q \in F
      PROVE  W \subseteq S \cup {q} <=> X \subseteq Moved(T, S) \cup {T[q]}
  <2>1. S \cup {q} \in SUBSET Square /\ q \in Square
    OBVIOUS
  <2>2. Moved(T, S \cup {q}) = Moved(T, S) \cup {T[q]}
    BY <2>1, MovedSet
  <2>3. Window(p, d, n, k) \subseteq S \cup {q} <=>
          Window(T[p], V[d], n, k) \subseteq Moved(T, S \cup {q})
    BY <1>2, <2>1, Zenon
  <2> QED
    BY <2>2, <2>3, Zenon DEF n
<1>6. FourWindow(S, F, p, d, k) <=> \E q \in F : W \subseteq S \cup {q} /\ O
  BY Zenon DEF FourWindow, n
<1>7. FourWindow(Moved(T, S), Moved(T, F), T[p], V[d], k) <=>
        \E q \in F : X \subseteq Moved(T, S) \cup {T[q]} /\ P
  <2>1. FourWindow(Moved(T, S), Moved(T, F), T[p], V[d], k) <=>
          \E q \in Moved(T, F) : X \subseteq Moved(T, S) \cup {q} /\ P
    BY Zenon DEF FourWindow, n
  <2> HIDE DEF X, P
  <2> QED
    BY <2>1, Zenon DEF Moved
<1> HIDE DEF W, X, O, P
<1> QED
  BY <1>4, <1>5, <1>6, <1>7, Zenon

\* The windows that are fours lie on the board.
LEMMA FourWindowOnBoard ==
  ASSUME NEW S \in SUBSET Square, NEW F \in SUBSET Square,
         NEW p, NEW d, NEW k, FourWindow(S, F, p, d, k)
  PROVE  Window(p, d, 5, k) \subseteq Square
<1>1. PICK q \in F : Window(p, d, 5, k) \subseteq S \cup {q}
  BY DEF FourWindow
<1> QED
  BY <1>1

\* The fours on the image are the images of the fours.
LEMMA FoursMoved ==
  ASSUME NEW T, NEW V, Symmetry(T, V), NEW S \in SUBSET Square, NEW F \in SUBSET Square,
         NEW p \in Square, NEW d \in Direction, NEW e \in Direction, Turns(V, d, e)
  PROVE  /\ FoursThrough(Moved(T, S), Moved(T, F), T[p], e)
              = {Moved(T, G) : G \in FoursThrough(S, F, p, d)}
         /\ FoursThrough(S, F, p, d) \subseteq SUBSET Square
<1> DEFINE q == T[p]
           v == V[d]
           M == Moved(T, S)
           N == Moved(T, F)
           K == {k \in 1 .. 5 : FourWindow(S, F, p, d, k)}
           L == {k \in 1 .. 5 : FourWindow(M, N, q, v, k)}
           n == 5
           W(k) == Window(p, d, n, k)
           X(k) == Window(q, v, n, k)
<1>1. K = L
  <2>1. \A k \in 1 .. 5 : FourWindow(S, F, p, d, k) <=> FourWindow(M, N, q, v, k)
    BY FourWindowMoved
  <2> HIDE DEF M, N, q, v
  <2> QED
    BY <2>1
<1>2. \A k \in K : W(k) \subseteq Square /\ X(k) = Moved(T, W(k))
  <2>1. ASSUME NEW k \in 1 .. 5, FourWindow(S, F, p, d, k)
        PROVE  W(k) \subseteq Square /\ X(k) = Moved(T, W(k))
    <3>1. Window(p, d, 5, k) \subseteq Square
      BY <2>1, FourWindowOnBoard
    <3>2. n \in 4 .. 5 /\ k \in 1 .. n
      OBVIOUS
    <3>3. Window(p, d, n, k) \subseteq Square
      BY <3>1
    <3> HIDE DEF n
    <3>4. Window(T[p], V[d], n, k) = Moved(T, Window(p, d, n, k))
      BY <3>2, <3>3, WindowMapped
    <3> QED
      BY <3>3, <3>4
  <2> HIDE DEF W, X
  <2> QED
    BY <2>1
<1>3. ASSUME NEW A, A \subseteq Square
      PROVE  Moved(T, A) \ N = Moved(T, A \ F)
  <2>1. \A a \in Square : T[a] \in N <=> a \in F
    BY MovedSet
  <2> HIDE DEF N
  <2> QED
    BY <1>3, <2>1 DEF Moved
<1>4. FoursThrough(S, F, p, d) = {W(k) \ F : k \in K}
  BY DEF FoursThrough, FourWindow
<1>5. FoursThrough(M, N, q, v) = {X(k) \ N : k \in L}
  BY DEF FoursThrough, FourWindow
<1>6. FoursThrough(M, N, q, e) = FoursThrough(M, N, q, v)
  <2>1. q \in Int /\ e \in Int
    BY LinesTurned, DirectionType
  <2>2. FoursThrough(M, N, q, -e) = FoursThrough(M, N, q, e)
    <3> HIDE DEF M, N, q, v
    <3> QED
      BY <2>1, FoursBackwards
  <2>3. v = e \/ v = -e
    BY DEF Turns
  <2> HIDE DEF M, N, q, v
  <2> QED
    BY <2>2, <2>3, Zenon
<1> HIDE DEF M, N, q, v, K, L, W, X
<1>7. \A k \in K : X(k) \ N = Moved(T, W(k) \ F)
  BY <1>2, <1>3, Zenon
<1>8. {X(k) \ N : k \in K} = {Moved(T, G) : G \in {W(k) \ F : k \in K}}
  BY <1>7
<1>9. {W(k) \ F : k \in K} \subseteq SUBSET Square
  BY <1>2
<1> QED
  BY <1>1, <1>4, <1>5, <1>6, <1>8, <1>9, Zenon DEF M, N, q

\* A straight four, counted from its other end
LEMMA StraightFourBackwards ==
  ASSUME NEW S, NEW F \in SUBSET Square, NEW p \in Int, NEW q, NEW d \in Int
  PROVE  StraightFour(S, F, p, q, -d) <=> StraightFour(S, F, p, q, d)
<1> DEFINE Four(k, e) ==
             /\ Window(p, e, 4, k) \subseteq S /\ q \in Window(p, e, 4, k)
             /\ WindowEnds(p, e, 4, k) \subseteq F
             /\ \A z \in WindowEnds(p, e, 4, k) : ExactFive(S \cup {z}, z, e)
<1>1. \A k \in 1 .. 4 : /\ Window(p, -d, 4, k) = Window(p, d, 4, 5 - k)
                        /\ WindowEnds(p, -d, 4, k) = WindowEnds(p, d, 4, 5 - k)
  BY WindowBackwards
<1>2. \A k \in 1 .. 4 : 5 - k \in 1 .. 4 /\ 5 - (5 - k) = k
  OBVIOUS
<1>3. \A z \in F : ExactFive(S \cup {z}, z, -d) <=> ExactFive(S \cup {z}, z, d)
  <2>1. \A z \in F : z \in Int
    BY SquarePoint DEF PosBits
  <2> QED
    BY <2>1, LinesBackwards
<1>4. \A k \in 1 .. 4 : Four(k, -d) <=> Four(5 - k, d)
  BY <1>1, <1>3, Zenon
<1>5. \A e : StraightFour(S, F, p, q, e) <=> \E k \in 1 .. 4 : Four(k, e)
  BY Zenon DEF StraightFour
<1> HIDE DEF Four
<1> QED
  BY <1>2, <1>4, <1>5, Zenon

\* A straight four after a symmetry, in the direction it turns the line to
LEMMA StraightFourTurned ==
  ASSUME NEW T, NEW V, Symmetry(T, V), NEW S \in SUBSET Square, NEW F \in SUBSET Square,
         NEW p \in Square, NEW q \in Square, NEW d \in Direction
  PROVE  StraightFour(S, F, p, q, d) <=>
           StraightFour(Moved(T, S), Moved(T, F), T[p], T[q], V[d])
<1> DEFINE M == Moved(T, S)
           N == Moved(T, F)
           n == 4
           W(k) == Window(p, d, n, k)
           X(k) == Window(T[p], V[d], n, k)
           E(k) == WindowEnds(p, d, n, k)
           G(k) == WindowEnds(T[p], V[d], n, k)
           Ok(z) == ExactFive(S \cup {z}, z, d)
           Okay(z) == ExactFive(M \cup {z}, z, V[d])
<1>1. n \in 4 .. 5 /\ \A k \in 1 .. 4 : k \in 1 .. n
  OBVIOUS
<1>2. /\ StraightFour(S, F, p, q, d) <=>
           \E k \in 1 .. 4 : /\ W(k) \subseteq S /\ q \in W(k) /\ E(k) \subseteq F
                             /\ \A z \in E(k) : Ok(z)
      /\ StraightFour(M, N, T[p], T[q], V[d]) <=>
           \E k \in 1 .. 4 : /\ X(k) \subseteq M /\ T[q] \in X(k) /\ G(k) \subseteq N
                             /\ \A z \in G(k) : Okay(z)
  BY Zenon DEF StraightFour
<1> HIDE DEF n
<1>3. ASSUME NEW k \in 1 .. 4
      PROVE  /\ W(k) \subseteq S <=> X(k) \subseteq M
             /\ E(k) \subseteq F <=> G(k) \subseteq N
             /\ W(k) \subseteq S => X(k) = Moved(T, W(k))
             /\ E(k) \subseteq F => G(k) = Moved(T, E(k))
  <2>1. k \in 1 .. n
    BY <1>1
  <2>2. W(k) \subseteq S <=> X(k) \subseteq M
    BY <1>1, <2>1, WindowMoved
  <2>3. E(k) \subseteq F <=> G(k) \subseteq N
    BY <1>1, <2>1, WindowMoved
  <2>4. ASSUME W(k) \subseteq S
        PROVE  X(k) = Moved(T, W(k))
    <3>1. Window(p, d, n, k) \subseteq Square
      BY <2>4
    <3> QED
      BY <1>1, <2>1, <3>1, WindowMapped
  <2>5. ASSUME E(k) \subseteq F
        PROVE  G(k) = Moved(T, E(k))
    <3>1. WindowEnds(p, d, n, k) \subseteq Square
      BY <2>5
    <3> QED
      BY <1>1, <2>1, <3>1, EndsMapped
  <2> QED
    BY <2>2, <2>3, <2>4, <2>5, Zenon
<1>4. ASSUME NEW A, A \subseteq S
      PROVE  T[q] \in Moved(T, A) <=> q \in A
  <2>1. A \in SUBSET Square
    BY <1>4
  <2> QED
    BY <2>1, MovedSet
<1>5. \A z \in F : Ok(z) <=> Okay(T[z])
  <2>1. ASSUME NEW z \in F
        PROVE  Ok(z) <=> Okay(T[z])
    <3>1. z \in Square /\ S \cup {z} \in SUBSET Square
      OBVIOUS
    <3>2. Moved(T, S \cup {z}) = M \cup {T[z]}
      BY <3>1, MovedSet
    <3>3. ExactFive(S \cup {z}, z, d) <=> ExactFive(Moved(T, S \cup {z}), T[z], V[d])
      <4> DEFINE R == S \cup {z}
      <4> HIDE DEF R
      <4>1. R \in SUBSET Square
        BY <3>1 DEF R
      <4>2. ExactFive(R, z, d) <=> ExactFive(Moved(T, R), T[z], V[d])
        BY <3>1, <4>1, LinesTurned
      <4> QED
        BY <4>2 DEF R
    <3> QED
      BY <3>2, <3>3, Zenon
  <2> QED
    BY <2>1
<1> HIDE DEF M, N, W, X, E, G, Ok, Okay
<1>6. ASSUME NEW A, A \subseteq F
      PROVE  (\A z \in Moved(T, A) : Okay(z)) <=> \A z \in A : Ok(z)
  BY <1>5, <1>6, Zenon DEF Moved
<1>7. \A k \in 1 .. 4 :
        /\ W(k) \subseteq S /\ q \in W(k) /\ E(k) \subseteq F
        /\ \A z \in E(k) : Ok(z)
        <=>
        /\ X(k) \subseteq M /\ T[q] \in X(k) /\ G(k) \subseteq N
        /\ \A z \in G(k) : Okay(z)
  <2> TAKE k \in 1 .. 4
  <2>1. W(k) \subseteq S => (T[q] \in X(k) <=> q \in W(k))
    BY <1>3, <1>4, Zenon
  <2>2. ASSUME E(k) \subseteq F
        PROVE  (\A z \in G(k) : Okay(z)) <=> \A z \in E(k) : Ok(z)
    <3>1. G(k) = Moved(T, E(k))
      BY <1>3, <2>2
    <3>2. (\A z \in Moved(T, E(k)) : Okay(z)) <=> \A z \in E(k) : Ok(z)
      BY <1>6, <2>2
    <3> QED
      BY <3>1, <3>2
  <2> QED
    BY <1>3, <2>1, <2>2, Zenon
<1>8. StraightFour(S, F, p, q, d) <=> StraightFour(M, N, T[p], T[q], V[d])
  BY <1>2, <1>7, Zenon
<1> QED
  BY <1>8, Zenon DEF M, N

\* The same, in whichever sense that direction is counted
LEMMA StraightFourMoved ==
  ASSUME NEW T, NEW V, Symmetry(T, V), NEW S \in SUBSET Square, NEW F \in SUBSET Square,
         NEW p \in Square, NEW q \in Square,
         NEW d \in Direction, NEW e \in Direction, Turns(V, d, e)
  PROVE  StraightFour(S, F, p, q, d) <=>
           StraightFour(Moved(T, S), Moved(T, F), T[p], T[q], e)
<1> DEFINE M == Moved(T, S)
           N == Moved(T, F)
           v == V[d]
<1>1. StraightFour(S, F, p, q, d) <=> StraightFour(M, N, T[p], T[q], v)
  BY StraightFourTurned
<1>2. N \in SUBSET Square /\ T[p] \in Int /\ e \in Int
  BY MovedSet, LinesTurned, DirectionType
<1>3. v = e \/ v = -e
  BY DEF Turns
<1> HIDE DEF M, N, v
<1>4. StraightFour(M, N, T[p], T[q], -e) <=> StraightFour(M, N, T[p], T[q], e)
  BY <1>2, StraightFourBackwards
<1>5. StraightFour(M, N, T[p], T[q], v) <=> StraightFour(M, N, T[p], T[q], e)
  BY <1>3, <1>4, Zenon
<1> QED
  BY <1>1, <1>5 DEF M, N

\* Up to three points away in direction d
Near(p, q, d) == \E n \in 1 .. 3 : q \in {p - n * d, p + n * d}

\* A symmetry keeps points of a line as near as they were.
LEMMA NearMoved ==
  ASSUME NEW T, NEW V, Symmetry(T, V), NEW p \in Square, NEW q \in Square,
         NEW d \in Direction, NEW e \in Direction, Turns(V, d, e)
  PROVE  Near(p, q, d) <=> Near(T[p], T[q], e)
<1> DEFINE v == V[d]
           a == T[p]
           b == T[q]
<1>1. p \in Int /\ q \in Int /\ a \in Int /\ b \in Square /\ d \in Int /\ e \in Int /\ v \in Int
  <2>1. Square \in SUBSET Square
    OBVIOUS
  <2> QED
    BY <2>1, LinesTurned, DirectionType
<1>2. v = e \/ v = -e
  BY DEF Turns
<1>3. \A i \in -5 .. 5 :
        /\ p + (i * d) \in Square <=> a + (i * v) \in Square
        /\ p + (i * d) \in Square => T[p + (i * d)] = a + (i * v)
  BY DEF Symmetry
<1>4. \A x \in Square : T[x] = b => x = q
  BY DEF Symmetry
<1> HIDE DEF v, a
<1>5. \A i \in -5 .. 5 : q = p + (i * d) <=> b = a + (i * v)
  <2>1. ASSUME NEW i \in -5 .. 5, b = a + (i * v)
        PROVE  q = p + (i * d)
    BY <1>1, <1>3, <1>4, <2>1, Zenon
  <2>2. ASSUME NEW i \in -5 .. 5, q = p + (i * d)
        PROVE  b = a + (i * v)
    <3>1. p + (i * d) \in Square
      BY <2>2
    <3> QED
      BY <1>3, <2>2, <3>1, Zenon
  <2> QED
    BY <2>1, <2>2
<1> HIDE DEF b
<1>6. \A n \in 1 .. 3 : /\ n \in -5 .. 5 /\ -n \in -5 .. 5
                        /\ p - n * d = p + ((-n) * d)
                        /\ a - n * v = a + ((-n) * v)
                        /\ {a - n * e, a + n * e} = {a - n * v, a + n * v}
  <2> TAKE n \in 1 .. 3
  <2>1. p - n * d = p + ((-n) * d) /\ a - n * v = a + ((-n) * v)
    BY <1>1
  <2>2. v = -e => a - n * v = a + n * e /\ a + n * v = a - n * e
    BY <1>1
  <2>3. {a - n * e, a + n * e} = {a - n * v, a + n * v}
    BY <1>2, <2>2
  <2> QED
    BY <2>1, <2>3
<1>7. \A n \in 1 .. 3 : q \in {p - n * d, p + n * d} <=> b \in {a - n * e, a + n * e}
  <2> TAKE n \in 1 .. 3
  <2>1. q \in {p - n * d, p + n * d} <=> q = p + ((-n) * d) \/ q = p + (n * d)
    BY <1>6
  <2>2. b \in {a - n * e, a + n * e} <=> b = a + ((-n) * v) \/ b = a + (n * v)
    BY <1>6
  <2> QED
    BY <1>5, <1>6, <2>1, <2>2, Zenon
<1> QED
  BY <1>7, Zenon DEF Near, a, b

\* Every direction goes to one, and comes from one.
LEMMA TurnsBothWays ==
  ASSUME NEW T, NEW V, Symmetry(T, V)
  PROVE  /\ \A d \in Direction : \E e \in Direction : Turns(V, d, e)
         /\ \A e \in Direction : \E d \in Direction : Turns(V, d, e)
<1>1. /\ V \in [Direction -> Int]
      /\ \A d \in Direction : V[d] \in Direction \/ -V[d] \in Direction
      /\ \A e \in Direction : \E d \in Direction : V[d] = e \/ V[d] = -e
  BY DEF Symmetry
<1>2. \A d \in Direction : \E e \in Direction : Turns(V, d, e)
  <2>1. \A d \in Direction : V[d] \in Int
    BY <1>1
  <2>2. \A d \in Direction : V[d] = -(-V[d])
    BY <2>1
  <2> QED
    BY <1>1, <2>2, Zenon DEF Turns
<1>3. \A e \in Direction : \E d \in Direction : Turns(V, d, e)
  BY <1>1, Zenon DEF Turns
<1> QED
  BY <1>2, <1>3

\* Two directions are the same if they go to the same.
LEMMA SameTurn ==
  ASSUME NEW T, NEW V, Symmetry(T, V),
         NEW d1 \in Direction, NEW d2 \in Direction,
         NEW e1 \in Direction, NEW e2 \in Direction,
         Turns(V, d1, e1), Turns(V, d2, e2)
  PROVE  d1 = d2 <=> e1 = e2
<1>1. V \in [Direction -> Int] /\ \A d, e \in Direction : V[d] = V[e] \/ V[d] = -V[e] => d = e
  BY DEF Symmetry
<1>2. /\ V[d1] = e1 \/ V[d1] = -e1
      /\ V[d2] = e2 \/ V[d2] = -e2
  BY DEF Turns
<1>3. e1 \in Int /\ e1 > 0 /\ e2 \in Int /\ e2 > 0
  BY DirectionType
<1>4. e1 = e2 => V[d1] = V[d2] \/ V[d1] = -V[d2]
  BY <1>2, <1>3
<1>5. e1 = e2 => d1 = d2
  BY <1>1, <1>4
<1>6. d1 = d2 => e1 = e2
  BY <1>2, <1>3
<1> QED
  BY <1>5, <1>6

\* Two different directions in a set go to two different ones.
LEMMA TwoTurned ==
  ASSUME NEW T, NEW V, Symmetry(T, V),
         NEW A \in SUBSET Direction, NEW B \in SUBSET Direction,
         \A d, e \in Direction : Turns(V, d, e) => (d \in A <=> e \in B)
  PROVE  (\E d, e \in A : d # e) <=> \E d, e \in B : d # e
<1>1. /\ \A d \in Direction : \E e \in Direction : Turns(V, d, e)
      /\ \A e \in Direction : \E d \in Direction : Turns(V, d, e)
  BY TurnsBothWays
<1>2. ASSUME NEW d1 \in A, NEW d2 \in A, d1 # d2
      PROVE  \E d, e \in B : d # e
  <2>1. PICK e1 \in Direction : Turns(V, d1, e1)
    BY <1>1
  <2>2. PICK e2 \in Direction : Turns(V, d2, e2)
    BY <1>1
  <2>3. e1 \in B /\ e2 \in B
    BY <2>1, <2>2
  <2>4. d1 = d2 <=> e1 = e2
    BY <2>1, <2>2, SameTurn
  <2> QED
    BY <1>2, <2>3, <2>4
<1>3. ASSUME NEW e1 \in B, NEW e2 \in B, e1 # e2
      PROVE  \E d, e \in A : d # e
  <2>1. PICK d1 \in Direction : Turns(V, d1, e1)
    BY <1>1
  <2>2. PICK d2 \in Direction : Turns(V, d2, e2)
    BY <1>1
  <2>3. d1 \in A /\ d2 \in A
    BY <2>1, <2>2
  <2>4. d1 = d2 <=> e1 = e2
    BY <2>1, <2>2, SameTurn
  <2> QED
    BY <1>3, <2>3, <2>4
<1> QED
  BY <1>2, <1>3

\* The free points are judged alike on the two boards.
JudgedAlike(T, S, F) ==
  \A q \in F : foul[<<S, F, q>>] = foul[<<Moved(T, S), Moved(T, F), T[q]>>]

\* A three stays a three, if the points that it asks about are judged alike.
LEMMA ThreeMoved ==
  ASSUME NEW T, NEW V, Symmetry(T, V), NEW S \in SUBSET Square, NEW F \in SUBSET Square,
         NEW p \in Square, NEW d \in Direction, NEW e \in Direction, Turns(V, d, e),
         JudgedAlike(T, S, F)
  PROVE  IsThree(S, F, p, d, foul) <=>
           IsThree(Moved(T, S), Moved(T, F), T[p], e, foul)
<1> DEFINE M == Moved(T, S)
           N == Moved(T, F)
           Five(q) == \E x \in Direction : ExactFive(S \cup {q}, q, x)
           Fives(q) == \E x \in Direction : ExactFive(M \cup {q}, q, x)
           Four(q) == StraightFour(S \cup {q}, F \ {q}, p, q, d)
           Fours1(q) == StraightFour(M \cup {q}, N \ {q}, T[p], q, e)
<1>1. IsThree(S, F, p, d, foul) <=>
        \E q \in F : Near(p, q, d) /\ Four(q) /\ foul[<<S, F, q>>] = "none" /\ ~Five(q)
  BY Zenon DEF IsThree, Near
<1>2. IsThree(M, N, T[p], e, foul) <=>
        \E q \in N : Near(T[p], q, e) /\ Fours1(q) /\ foul[<<M, N, q>>] = "none" /\ ~Fives(q)
  BY Zenon DEF IsThree, Near
<1>3. ASSUME NEW q \in F
      PROVE  /\ Near(p, q, d) <=> Near(T[p], T[q], e)
             /\ Four(q) <=> Fours1(T[q])
             /\ Five(q) <=> Fives(T[q])
             /\ foul[<<S, F, q>>] = foul[<<M, N, T[q]>>]
  <2> DEFINE R == S \cup {q}
             U == F \ {q}
  <2>1. q \in Square /\ R \in SUBSET Square /\ U \in SUBSET Square
    OBVIOUS
  <2>2. Moved(T, R) = M \cup {T[q]} /\ Moved(T, U) = N \ {T[q]}
    BY <2>1, MovedSet
  <2>3. Near(p, q, d) <=> Near(T[p], T[q], e)
    BY <2>1, NearMoved
  <2> HIDE DEF R, U
  <2>4. StraightFour(R, U, p, q, d) <=> StraightFour(Moved(T, R), Moved(T, U), T[p], T[q], e)
    BY <2>1, StraightFourMoved
  <2>5. Four(q) <=> Fours1(T[q])
    BY <2>2, <2>4, Zenon DEF R, U
  <2>6. \A x, y \in Direction :
          Turns(V, x, y) => (ExactFive(R, q, x) <=> ExactFive(Moved(T, R), T[q], y))
    BY <2>1, LinesMoved
  <2>7. (\E x \in Direction : ExactFive(R, q, x)) <=>
          \E y \in Direction : ExactFive(Moved(T, R), T[q], y)
    BY <2>6, TurnsBothWays
  <2>8. Five(q) <=> Fives(T[q])
    BY <2>2, <2>7, Zenon DEF R
  <2>9. foul[<<S, F, q>>] = foul[<<M, N, T[q]>>]
    BY DEF JudgedAlike
  <2> QED
    BY <2>3, <2>5, <2>8, <2>9, Zenon
<1> HIDE DEF M, Five, Fives, Four, Fours1
<1>4. (\E q \in N : Near(T[p], q, e) /\ Fours1(q) /\ foul[<<M, N, q>>] = "none" /\ ~Fives(q)) <=>
        \E q \in F : Near(T[p], T[q], e) /\ Fours1(T[q]) /\ foul[<<M, N, T[q]>>] = "none" /\ ~Fives(T[q])
  BY Zenon DEF Moved
<1> HIDE DEF N
<1>5. IsThree(S, F, p, d, foul) <=> IsThree(M, N, T[p], e, foul)
  BY <1>1, <1>2, <1>3, <1>4, Zenon
<1> QED
  BY <1>5, Zenon DEF M, N

\* The fours of p in all directions
AllFours(S, F, p) == UNION {FoursThrough(S, F, p, d) : d \in Direction}

\* Two fours stay two fours.
LEMMA AllFoursMoved ==
  ASSUME NEW T, NEW V, Symmetry(T, V), NEW S \in SUBSET Square, NEW F \in SUBSET Square,
         NEW p \in Square
  PROVE  Cardinality(AllFours(S, F, p)) >= 2 <=>
           Cardinality(AllFours(Moved(T, S), Moved(T, F), T[p])) >= 2
<1> DEFINE Th(d) == FoursThrough(S, F, p, d)
           Ts(e) == FoursThrough(Moved(T, S), Moved(T, F), T[p], e)
           All == UNION {Th(d) : d \in Direction}
           Alls == UNION {Ts(e) : e \in Direction}
<1>1. \A d, e \in Direction :
        Turns(V, d, e) => Ts(e) = {Moved(T, G) : G \in Th(d)} /\ Th(d) \subseteq SUBSET Square
  BY FoursMoved
<1>2. /\ \A d \in Direction : \E e \in Direction : Turns(V, d, e)
      /\ \A e \in Direction : \E d \in Direction : Turns(V, d, e)
  BY TurnsBothWays
<1> HIDE DEF Th, Ts
<1>3. All \subseteq SUBSET Square
  BY <1>1, <1>2
<1>4. Alls = {Moved(T, G) : G \in All}
  <2>1. ASSUME NEW H \in Alls
        PROVE  \E G \in All : H = Moved(T, G)
    <3>1. PICK e \in Direction : H \in Ts(e)
      OBVIOUS
    <3>2. PICK d \in Direction : Turns(V, d, e)
      BY <1>2
    <3> QED
      BY <1>1, <3>1, <3>2
  <2>2. ASSUME NEW G \in All
        PROVE  Moved(T, G) \in Alls
    <3>1. PICK d \in Direction : G \in Th(d)
      OBVIOUS
    <3>2. PICK e \in Direction : Turns(V, d, e)
      BY <1>2
    <3> QED
      BY <1>1, <3>1, <3>2
  <2> HIDE DEF All, Alls
  <2> QED
    BY <2>1, <2>2
<1>5. \A G \in SUBSET Square : Moved(T, G) \in SUBSET Square
  BY MovedSet
<1>6. \A G, H \in SUBSET Square : Moved(T, G) = Moved(T, H) => G = H
  <2>1. \A G \in SUBSET Square : \A q \in Square : T[q] \in Moved(T, G) <=> q \in G
    BY MovedSet
  <2> QED
    BY <2>1
<1> HIDE DEF All, Alls
<1>7. IsFiniteSet(All) /\ IsFiniteSet(Alls)
  <2>1. IsFiniteSet(SUBSET Square)
    BY SquareFinite, FS_SUBSET
  <2>2. Alls \subseteq SUBSET Square
    BY <1>3, <1>4, <1>5
  <2> QED
    BY <1>3, <2>1, <2>2, FS_Subset, Zenon
<1>8. (\E G, H \in All : G # H) <=> \E G, H \in Alls : G # H
  BY <1>3, <1>4, <1>6
<1>9. Cardinality(All) >= 2 <=> Cardinality(Alls) >= 2
  <2>1. Cardinality(All) >= 2 <=> \E G, H \in All : G # H
    BY <1>7, TwoElements
  <2>2. Cardinality(Alls) >= 2 <=> \E G, H \in Alls : G # H
    BY <1>7, TwoElements
  <2> QED
    BY <1>8, <2>1, <2>2, Zenon
<1> QED
  BY <1>9, Zenon DEF AllFours, All, Alls, Th, Ts

\* The verdict on a stone, if those on the free points that are left are alike
LEMMA VerdictMoved ==
  ASSUME NEW T, NEW V, Symmetry(T, V), NEW S \in SUBSET Square, NEW F \in SUBSET Square,
         NEW p \in Square, JudgedAlike(T, S, F)
  PROVE  Verdict(S, F, p, foul) = Verdict(Moved(T, S), Moved(T, F), T[p], foul)
<1> DEFINE M == Moved(T, S)
           N == Moved(T, F)
           over(A, q) == \E d \in Direction : Overline(A, q, d)
           wins(A, q) == Wins(A, q, FALSE)
           three(A, B, q) == {d \in Direction : IsThree(A, B, q, d, foul)}
           threes(A, B, q) == Cardinality(three(A, B, q)) >= 2
           fours(A, B, q) == Cardinality(UNION {FoursThrough(A, B, q, d) : d \in Direction}) >= 2
<1>1. \A A, B, q : Verdict(A, B, q, foul) =
        IF over(A, q) THEN "overline" ELSE IF wins(A, q) THEN "none"
        ELSE IF threes(A, B, q) THEN "double_three"
        ELSE IF fours(A, B, q) THEN "double_four" ELSE "none"
  BY DEF Verdict
<1>2. \A d, e \in Direction : Turns(V, d, e) =>
        /\ ExactFive(S, p, d) <=> ExactFive(M, T[p], e)
        /\ Overline(S, p, d) <=> Overline(M, T[p], e)
  BY LinesMoved
<1>3. \A d, e \in Direction : Turns(V, d, e) =>
        (IsThree(S, F, p, d, foul) <=> IsThree(M, N, T[p], e, foul))
  BY ThreeMoved
<1>4. fours(S, F, p) <=> fours(M, N, T[p])
  <2>1. \A A, B, q : fours(A, B, q) <=> Cardinality(AllFours(A, B, q)) >= 2
    BY Zenon DEF AllFours
  <2>2. Cardinality(AllFours(S, F, p)) >= 2 <=> Cardinality(AllFours(M, N, T[p])) >= 2
    BY AllFoursMoved
  <2> HIDE DEF fours, M, N
  <2> QED
    BY <2>1, <2>2, Zenon
<1>5. /\ \A d \in Direction : \E e \in Direction : Turns(V, d, e)
      /\ \A e \in Direction : \E d \in Direction : Turns(V, d, e)
  BY TurnsBothWays
<1> HIDE DEF M, N, fours
<1>6. over(S, p) <=> over(M, T[p])
  BY <1>2, <1>5
<1>7. wins(S, p) <=> wins(M, T[p])
  <2>1. \A A, q : wins(A, q) <=> \E d \in Direction : ExactFive(A, q, d)
    BY Zenon DEF Wins
  <2> HIDE DEF wins
  <2> QED
    BY <1>2, <1>5, <2>1
<1>8. threes(S, F, p) <=> threes(M, N, T[p])
  <2>1. \A A, B, q : IsFiniteSet(three(A, B, q))
    <3>1. \A A, B, q : three(A, B, q) \subseteq Direction
      OBVIOUS
    <3> HIDE DEF three
    <3> QED
      BY <3>1, DirectionFinite, FS_Subset
  <2>2. \A A, B, q : threes(A, B, q) <=> \E d, e \in three(A, B, q) : d # e
    <3> HIDE DEF three
    <3> QED
      BY <2>1, TwoElements
  <2>3. \A d, e \in Direction : Turns(V, d, e) =>
          (d \in three(S, F, p) <=> e \in three(M, N, T[p]))
    BY <1>3
  <2>4. three(S, F, p) \subseteq Direction /\ three(M, N, T[p]) \subseteq Direction
    OBVIOUS
  <2> DEFINE A == three(S, F, p)
             B == three(M, N, T[p])
  <2>5. (\E d, e \in A : d # e) <=> \E d, e \in B : d # e
    <3> HIDE DEF three, A, B
    <3>1. \A d, e \in Direction : Turns(V, d, e) => (d \in A <=> e \in B)
      BY <2>3, Zenon DEF A, B
    <3>2. A \subseteq Direction /\ B \subseteq Direction
      BY <2>4, Zenon DEF A, B
    <3> QED
      BY <3>1, <3>2, TwoTurned
  <2> HIDE DEF threes, three
  <2> QED
    BY <2>2, <2>5, Zenon DEF A, B
<1> HIDE DEF over, wins, threes
<1>9. Verdict(S, F, p, foul) = Verdict(M, N, T[p], foul)
  BY <1>1, <1>4, <1>6, <1>7, <1>8, Zenon
<1> QED
  BY <1>9 DEF M, N

\* The verdicts about the free points of a smaller set move along.
LEMMA FoulStep ==
  ASSUME NEW T, NEW V, Symmetry(T, V), NEW S \in SUBSET Square, NEW F \in SUBSET Square,
         NEW p \in F, JudgedAlike(T, S \cup {p}, F \ {p})
  PROVE  foul[<<S, F, p>>] = foul[<<Moved(T, S), Moved(T, F), T[p]>>]
<1> DEFINE R == S \cup {p}
           U == F \ {p}
           M == Moved(T, S)
           N == Moved(T, F)
<1>1. p \in Square /\ R \in SUBSET Square /\ U \in SUBSET Square
  OBVIOUS
<1>2. /\ M \in SUBSET Square /\ N \in SUBSET Square /\ T[p] \in Square
      /\ Moved(T, R) = M \cup {T[p]} /\ Moved(T, U) = N \ {T[p]}
  <2>1. M \in SUBSET Square /\ N \in SUBSET Square /\ T[p] \in Square
    BY <1>1, MovedSet
  <2>2. Moved(T, R) = M \cup {T[p]}
    BY <1>1, MovedSet
  <2>3. Moved(T, U) = N \ {T[p]}
    BY <1>1, MovedSet
  <2> QED
    BY <2>1, <2>2, <2>3
<1>3. foul[<<S, F, p>>] = Verdict(R, U, p, foul)
  BY <1>1, FoulIs
<1> HIDE DEF M, N
<1>4. foul[<<M, N, T[p]>>] = Verdict(M \cup {T[p]}, N \ {T[p]}, T[p], foul)
  BY <1>2, FoulIs
<1>5. Verdict(R, U, p, foul) = Verdict(Moved(T, R), Moved(T, U), T[p], foul)
  <2> HIDE DEF R, U
  <2>1. JudgedAlike(T, R, U)
    BY DEF R, U
  <2> QED
    BY <1>1, <2>1, VerdictMoved
<1>6. foul[<<S, F, p>>] = foul[<<M, N, T[p]>>]
  BY <1>2, <1>3, <1>4, <1>5, Zenon
<1> QED
  BY <1>6, Zenon DEF M, N

(***************************************************************************)
(* What black does wrong is the same on a board turned or mirrored, to any *)
(* depth of threes.                                                        *)
(***************************************************************************)
LEMMA FoulMoved ==
  ASSUME NEW T, NEW V, Symmetry(T, V), NEW S \in SUBSET Square, NEW F \in SUBSET Square
  PROVE  JudgedAlike(T, S, F)
<1> DEFINE N == Cardinality(Square)
           I == {i \in 0 .. N : \A A, B \in SUBSET Square :
                                  Cardinality(B) <= i => JudgedAlike(T, A, B)}
<1>1. /\ N \in Nat
      /\ \A B \in SUBSET Square : /\ IsFiniteSet(B) /\ Cardinality(B) \in Nat
                                  /\ Cardinality(B) <= N
  BY SquareFinite, FS_CardinalityType, FS_Subset
<1>2. ASSUME NEW B \in SUBSET Square, NEW p \in B
      PROVE  /\ B \ {p} \in SUBSET Square
             /\ Cardinality(B \ {p}) = Cardinality(B) - 1
  BY <1>1, FS_RemoveElement
<1> HIDE DEF N
<1>3. 0 \in I
  <2>1. ASSUME NEW A \in SUBSET Square, NEW B \in SUBSET Square, Cardinality(B) <= 0, NEW p \in B
        PROVE  FALSE
    <3>1. Cardinality(B \ {p}) = Cardinality(B) - 1 /\ B \ {p} \in SUBSET Square
      BY <1>2
    <3>2. Cardinality(B \ {p}) \in Nat /\ Cardinality(B) \in Nat
      BY <1>1, <3>1
    <3> QED
      BY <2>1, <3>1, <3>2
  <2> QED
    BY <1>1, <2>1 DEF JudgedAlike
<1>4. ASSUME NEW i \in 1 .. N, i - 1 \in I
      PROVE  i \in I
  <2>1. \A A, B \in SUBSET Square : Cardinality(B) <= i - 1 => JudgedAlike(T, A, B)
    BY <1>4
  <2>2. ASSUME NEW A \in SUBSET Square, NEW B \in SUBSET Square, Cardinality(B) <= i, NEW p \in B
        PROVE  foul[<<A, B, p>>] = foul[<<Moved(T, A), Moved(T, B), T[p]>>]
    <3> DEFINE C == B \ {p}
               D == A \cup {p}
    <3>1. C \in SUBSET Square /\ Cardinality(C) = Cardinality(B) - 1
      BY <1>2
    <3>2. Cardinality(B) \in Nat
      BY <1>1
    <3>3. D \in SUBSET Square
      OBVIOUS
    <3> HIDE DEF C, D
    <3>4. Cardinality(C) <= i - 1
      BY <2>2, <3>1, <3>2
    <3>5. JudgedAlike(T, D, C)
      BY <2>1, <3>1, <3>3, <3>4
    <3> QED
      BY <3>5, FoulStep DEF C, D
  <2> QED
    BY <1>1, <2>2 DEF JudgedAlike
<1> HIDE DEF I
<1>5. \A i \in 0 .. N : i \in I
  BY <1>1, <1>3, <1>4, Induction
<1>6. N \in I /\ Cardinality(F) <= N
  BY <1>1, <1>5
<1> QED
  BY <1>6 DEF I

(***************************************************************************)
(* A transform leaves no point of the board out.                           *)
(***************************************************************************)
LEMMA SymmetryOnto ==
  ASSUME NEW T, NEW V, Symmetry(T, V), NEW q \in Square
  PROVE  \E p \in Square : T[p] = q
<1>1. T \in Injection(Square, Square)
  BY DEF Symmetry, Injection, IsInjective
<1>2. T \in Surjection(Square, Square)
  BY <1>1, SquareFinite, FS_Injection, Zenon
<1> QED
  BY <1>2 DEF Surjection

\* The stones and the free points of a transformed board
LEMMA BoardMoved ==
  ASSUME NEW p, p.board \in Boards, NEW type \in Transforms
  PROVE  LET T == [x \in Square |-> TransformPos(x, type)]
             next == Transform(p, type)
         IN  /\ next.board \in Boards
             /\ \A side : Stones(next.board, side) = Moved(T, Stones(p.board, side))
<1> DEFINE T == [x \in Square |-> TransformPos(x, type)]
           V == [d \in Direction |-> TurnedDirection(type, d)]
           c == Transform(p, type).board
<1>1. Boards = [Square -> Side \cup {EMPTY}]
  BY DEF Boards, Side
<1>2. /\ c \in [Square -> Side \cup {EMPTY}]
      /\ \A x \in Square : c[TransformPos(x, type)] = p.board[x]
  BY <1>1, TransformedBoard
<1>3. Symmetry(T, V)
  BY TransformIsSymmetry
<1>4. \A x \in Square : c[T[x]] = p.board[x]
  BY <1>2
<1> HIDE DEF T, V, c
<1>5. \A q \in Square : \E x \in Square : T[x] = q
  BY <1>3, SymmetryOnto
<1>6. \A x \in Square : T[x] \in Square
  BY <1>3 DEF Symmetry
<1>7. ASSUME NEW side
      PROVE  Stones(c, side) = Moved(T, Stones(p.board, side))
  BY <1>4, <1>5, <1>6 DEF Stones, Moved
<1> QED
  BY <1>1, <1>2, <1>7 DEF T, c

\* A five in line stays one.
LEMMA FiveMoved ==
  ASSUME NEW T, NEW V, Symmetry(T, V), NEW S \in SUBSET Square, NEW long \in BOOLEAN
  PROVE  (\E p \in S : Wins(S, p, long)) <=>
           \E q \in Moved(T, S) : Wins(Moved(T, S), q, long)
<1> DEFINE M == Moved(T, S)
<1>1. /\ \A d \in Direction : \E e \in Direction : Turns(V, d, e)
      /\ \A e \in Direction : \E d \in Direction : Turns(V, d, e)
  BY TurnsBothWays
<1>2. ASSUME NEW p \in S
      PROVE  Wins(S, p, long) <=> Wins(M, T[p], long)
  <2>1. \A d, e \in Direction : Turns(V, d, e) =>
          /\ ExactFive(S, p, d) <=> ExactFive(M, T[p], e)
          /\ FiveOrMore(S, p, d) <=> FiveOrMore(M, T[p], e)
    BY LinesMoved
  <2> HIDE DEF M
  <2>2. CASE long
    <3>1. \A A, q : Wins(A, q, long) <=> \E d \in Direction : FiveOrMore(A, q, d)
      BY <2>2 DEF Wins
    <3> QED
      BY <1>1, <2>1, <3>1
  <2>3. CASE ~long
    <3>1. \A A, q : Wins(A, q, long) <=> \E d \in Direction : ExactFive(A, q, d)
      BY <2>3 DEF Wins
    <3> QED
      BY <1>1, <2>1, <3>1
  <2> QED
    BY <2>2, <2>3
<1> HIDE DEF M
<1>3. (\E p \in S : Wins(S, p, long)) <=> \E q \in M : Wins(M, q, long)
  BY <1>2, Zenon DEF M, Moved
<1> QED
  BY <1>3, Zenon DEF M

\* check_forbidden_move on a transformed board
LEMMA ForbiddenAlike ==
  ASSUME NEW p, p.board \in Boards, NEW type \in Transforms, NEW q \in Free(p.board)
  PROVE  IsForbidden(Transform(p, type).board, TransformPos(q, type)) = IsForbidden(p.board, q)
<1> DEFINE T == [x \in Square |-> TransformPos(x, type)]
           V == [d \in Direction |-> TurnedDirection(type, d)]
           c == Transform(p, type).board
           S == Black(p.board)
           F == Free(p.board)
<1>1. Symmetry(T, V)
  BY TransformIsSymmetry
<1>2. /\ c \in Boards
      /\ \A side : Stones(c, side) = Moved(T, Stones(p.board, side))
  BY BoardMoved
<1>3. S \in SUBSET Square /\ F \in SUBSET Square /\ q \in F
  BY DEF Black, Free
<1>4. T[q] = TransformPos(q, type)
  BY <1>3
<1> HIDE DEF T, V, c
<1>5. Black(c) = Moved(T, S) /\ Free(c) = Moved(T, F)
  BY <1>2, Zenon DEF Black, Free, Stones
<1> HIDE DEF S, F
<1>6. T[q] \in Free(c)
  BY <1>3, <1>5 DEF Moved
<1>7. IsForbidden(p.board, q) = foul[<<S, F, q>>]
  BY <1>3, AllJudgedByTheRule DEF JudgedByTheRule, S, F
<1>8. IsForbidden(c, T[q]) = foul[<<Black(c), Free(c), T[q]>>]
  <2>1. JudgedByTheRule(c)
    BY <1>2, AllJudgedByTheRule
  <2> QED
    BY <1>6, <2>1 DEF JudgedByTheRule
<1>9. JudgedAlike(T, S, F)
  BY <1>1, <1>3, FoulMoved
<1>10. foul[<<S, F, q>>] = foul[<<Moved(T, S), Moved(T, F), T[q]>>]
  BY <1>3, <1>9, Zenon DEF JudgedAlike
<1>11. IsForbidden(c, T[q]) = IsForbidden(p.board, q)
  BY <1>5, <1>7, <1>8, <1>10, Zenon
<1> QED
  BY <1>4, <1>11, Zenon DEF c

\* check_five_in_line_lastmove on a transformed board
LEMMA FiveAlike ==
  ASSUME NEW p, Recorded(p), NEW type \in Transforms, NEW long \in BOOLEAN
  PROVE  FiveInLineLastMove(Transform(p, type), long) = FiveInLineLastMove(p, long)
<1> DEFINE next == Transform(p, type)
           T == [x \in Square |-> TransformPos(x, type)]
           V == [d \in Direction |-> TurnedDirection(type, d)]
           color == Opponent(p.turn)
<1>1. /\ p.hist \in Seq(PointMove) /\ p.board \in Boards
  BY BoardOfPosition DEF Recorded, Positions
<1>2. /\ next.hist = [i \in DOMAIN p.hist |-> TransformMove(p.hist[i], type)]
      /\ next.turn = p.turn
  BY DEF Transform
<1>3. Len(next.hist) = Len(p.hist)
  BY <1>1, <1>2
<1>4. Recorded(next)
  BY TransformRecorded
<1>5. /\ FiveInLineLastMove(p, long) \in BOOLEAN
      /\ FiveInLineLastMove(next, long) \in BOOLEAN
  BY DEF FiveInLineLastMove, FiveInLineSide
<1>6. Symmetry(T, V)
  BY TransformIsSymmetry
<1>7. Stones(next.board, color) = Moved(T, Stones(p.board, color))
  BY <1>1, BoardMoved
<1> HIDE DEF next, T, V
<1>8. CASE p.hist = <<>>
  <2>1. Len(p.hist) = 0
    BY <1>8
  <2>2. ~FiveInLineLastMove(p, long) /\ ~FiveInLineLastMove(next, long)
    BY <1>3, <2>1 DEF FiveInLineLastMove
  <2> QED
    BY <1>5, <2>2 DEF next
<1>9. CASE p.hist # <<>>
  <2>1. next.hist # <<>>
    BY <1>1, <1>3, <1>9
  <2>2. FiveInLineLastMove(p, long) <=> HasFive(p.board, color, long)
    BY <1>9, LastMoveScan
  <2>3. FiveInLineLastMove(next, long) <=> HasFive(next.board, color, long)
    BY <1>2, <1>4, <2>1, LastMoveScan
  <2>4. HasFive(p.board, color, long) <=> HasFive(next.board, color, long)
    <3> DEFINE S == Stones(p.board, color)
    <3>1. S \in SUBSET Square
      BY DEF Stones
    <3> HIDE DEF S
    <3>2. (\E x \in S : Wins(S, x, long)) <=> \E x \in Moved(T, S) : Wins(Moved(T, S), x, long)
      BY <1>6, <3>1, FiveMoved
    <3> QED
      BY <1>7, <3>2, Zenon DEF HasFive, S
  <2>5. FiveInLineLastMove(p, long) <=> FiveInLineLastMove(next, long)
    BY <2>2, <2>3, <2>4, Zenon
  <2> QED
    BY <1>5, <2>5 DEF next
<1> QED
  BY <1>8, <1>9

(***************************************************************************)
(* JudgedAlikeInAllTransforms on a board of any size, at every point of the*)
(* game: the rounds that an opening is turned and mirrored for are the same*)
(* game to the rules, five in line and forbidden points alike.             *)
(***************************************************************************)
THEOREM RulesOfTransforms ==
  ASSUME AnswersInMargin, OpeningsOnce
  PROVE  Spec => []JudgedAlikeInAllTransforms
<1>1. Init => IInv
  BY LoadedRecorded
<1>2. IInv /\ [Next]_vars => IInv'
  BY StepRecorded
<1>3. IInv => JudgedAlikeInAllTransforms
  <2>1. ASSUME IInv, NEW t \in Transforms, NEW long \in BOOLEAN
        PROVE  FiveInLineLastMove(Transform(pos, t), long) = FiveInLineLastMove(pos, long)
    BY <2>1, FiveAlike DEF IInv
  <2>2. ASSUME IInv, NEW t \in Transforms, NEW p \in ProbePoints
        PROVE  IsForbidden(Transform(pos, t).board, TransformPos(p, t)) = IsForbidden(pos.board, p)
    <3>1. pos.board \in Boards
      BY <2>2, BoardOfPosition DEF IInv
    <3>2. p \in Free(pos.board)
      BY ProbedFree
    <3> QED
      BY <3>1, <3>2, ForbiddenAlike
  <2> QED
    BY <2>1, <2>2 DEF JudgedAlikeInAllTransforms
<1> QED
  BY <1>1, <1>2, <1>3, PTL DEF Spec
=============================================================================
