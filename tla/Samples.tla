------------------------------ MODULE Samples ------------------------------
(***************************************************************************)
(* What Game::export_samples writes for the samples of one game, in the    *)
(* three formats, up to compression.  A sample is a record                 *)
(*   [pos, move, result, eval]                                             *)
(* whose pos is the sequence of the points played before move.  Board size *)
(* and rule, the same in all entries of a program, are left out.           *)
(***************************************************************************)
EXTENDS PackedMove, SequencesExt

\* Mutation: the margin of the board stays in the number.
RawWithMargin(p) == p

\* The 10-bit number of a point in the binary formats: no margin
Raw(p) == POS_RAW(CoordX(p), CoordY(p))

RawMoves(moves) == [i \in DOMAIN moves |-> Raw(moves[i])]

\* A point in "pos" notation: its letter, counted from 0, and its row
PosNotation(p) == <<CoordX(p), CoordY(p) + 1>>

\* export_samples_csv: a line
CsvLine(s) ==
  [pos |-> [i \in DOMAIN s.pos |-> PosNotation(s.pos[i])],
   move |-> PosNotation(s.move), result |-> s.result]

\* export_samples_bin: an entry, with the widths of its fields
BinEntry(s) ==
  [result |-> s.result % 4, ply |-> Len(s.pos) % 512,
   move |-> Raw(s.move) % 8192, position |-> RawMoves(s.pos)]

-----------------------------------------------------------------------------
\* export_samples_binpack: an entry is a head, an opening and the moves
\* after it; totalPly, initPly and moveCount are lengths of these.

Replay(e) == e.opening \o [i \in DOMAIN e.seq |-> e.seq[i].move]

\* getFollowingMoveIndex
FollowingMoveIndex(e, s) ==
  IF IsPrefix(Replay(e), RawMoves(s.pos)) THEN Len(Replay(e)) ELSE -1

\* initEntry
InitEntry(s) == [result |-> s.result, opening |-> RawMoves(s.pos), seq |-> <<>>]

\* The moves from index to the position of s.  The last of them gets the
\* evaluation of the first sample.
GapMoves(s, index, first) ==
  [i \in 1 .. Len(s.pos) - index |->
     [move |-> Raw(s.pos[index + i]),
      eval |-> IF index + i = Len(s.pos) THEN first.eval ELSE 0]]

\* Mutation: the moves between two samples are not written.
PackWithoutGap(packed, s, first) ==
  LET follows == FollowingMoveIndex(packed.entry, s) # -1
      entry == IF follows THEN packed.entry ELSE InitEntry(s)
  IN  [out |-> IF follows THEN packed.out ELSE Append(packed.out, packed.entry),
       entry |-> [entry EXCEPT !.seq = Append(@, [move |-> Raw(s.move), eval |-> s.eval])]]

\* One round of the loop over the samples after the first
Pack(packed, s, first) ==
  LET following == FollowingMoveIndex(packed.entry, s)
      entry == IF following = -1 THEN InitEntry(s) ELSE packed.entry
      index == IF following = -1 THEN Len(s.pos) ELSE following
  IN  [out |-> IF following = -1 THEN Append(packed.out, packed.entry) ELSE packed.out,
       entry |-> [entry EXCEPT !.seq = @ \o GapMoves(s, index, first)
                                         \o <<[move |-> Raw(s.move), eval |-> s.eval]>>]]

\* What is packed after the first sample and the n that follow it
Packed(samples, n) ==
  LET packed[k \in 0 .. n] ==
        IF k = 0 THEN [out |-> <<>>, entry |-> InitEntry(samples[1])]
                 ELSE Pack(packed[k - 1], samples[k + 1], samples[1])
  IN  packed[n]

\* The entries written; an entry without moves after its opening is not.
Binpack(samples) ==
  IF samples = <<>> THEN <<>>
  ELSE LET packed == Packed(samples, Len(samples) - 1)
       IN  IF packed.entry.seq = <<>> THEN packed.out
                                      ELSE Append(packed.out, packed.entry)

-----------------------------------------------------------------------------
\* README.md:155-157: how a reader takes a number apart (external)
ReadPoint(n) == <<(n \div 32) % 32, n % 32>>
ReadMoves(numbers) == [i \in DOMAIN numbers |-> ReadPoint(numbers[i])]
=============================================================================
