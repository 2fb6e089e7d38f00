---------------------------- MODULE MCTournament ----------------------------
(***************************************************************************)
(* Model checking of Tournament.  The workers run the same code, so the    *)
(* safety runs use their symmetry; the runs with liveness properties do    *)
(* not.                                                                    *)
(***************************************************************************)
EXTENDS Tournament

WorkerSymmetry == Permutations(Worker)

AllFiles == {"pgn", "sgf", "msg"}
NoFile == {}
=============================================================================
