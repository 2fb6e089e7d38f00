------------------------------- MODULE MCGame -------------------------------
(***************************************************************************)
(* Model checking of Game.  Four points are enough for two moves of each   *)
(* engine; the openings leave the first turn to either colour.  In the     *)
(* games about the rules a turn has one moment; in those about the clocks  *)
(* there are no evaluations and few moves.                                 *)
(***************************************************************************)
EXTENDS Game

Points == {POS(0, 0), POS(1, 0), POS(0, 1), POS(2, 1)}
Openings == {<<>>, <<POS(1, 0)>>, <<POS(0, 1), POS(2, 1)>>}
Scores == {-1, 0, 1}

Rules ==
  [renju |-> TRUE, useTURN |-> TRUE,
   drawAfter |-> 0, drawCount |-> 1, drawScore |-> 0,
   resignCount |-> 2, resignScore |-> 1,
   matchTime |-> [e \in Player |-> 0], turnTime |-> [e \in Player |-> 1],
   increment |-> [e \in Player |-> 0], tolerance |-> 0]

\* The first engine gets an increment, the second one has a limit per turn.
Clocks ==
  [renju |-> FALSE, useTURN |-> FALSE,
   drawAfter |-> 2, drawCount |-> 0, drawScore |-> 0,
   resignCount |-> 0, resignScore |-> 0,
   matchTime |-> [e \in Player |-> 4],
   turnTime |-> [e \in Player |-> IF e = 1 THEN 2 ELSE 0],
   increment |-> [e \in Player |-> IF e = 0 THEN 1 ELSE 0], tolerance |-> 2]

\* Clocks that are used for more than one turn of an engine
LongClocks == [Clocks EXCEPT !.drawAfter = 0, !.matchTime = [e \in Player |-> 3],
                             !.increment = [e \in Player |-> 1],
                             !.tolerance = 1]

Passing == {Rules, [Rules EXCEPT !.useTURN = FALSE, !.resignCount = 1], Clocks,
            LongClocks}
OfRules == {Rules}
=============================================================================
