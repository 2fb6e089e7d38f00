---------------------------- MODULE MCSeqWriter ----------------------------
(***************************************************************************)
(* Model checking of SeqWriter: all orders of finishing seven games, one of  *)
(* which leaves a gap, all moments for an early destructor or SIGINT.      *)
(***************************************************************************)
EXTENDS SeqWriter

Fourth == {3}
=============================================================================
