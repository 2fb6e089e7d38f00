-------------------------- MODULE MCScheduleLoops --------------------------
(***************************************************************************)
(* Model checking of ScheduleLoops: the configurations bound the number of *)
(* engines, rounds, games per encounter and lines of the opening file; all *)
(* tournaments within the bounds are initial states.                       *)
(***************************************************************************)
EXTENDS ScheduleLoops
=============================================================================
