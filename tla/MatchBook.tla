----------------------------- MODULE MatchBook -----------------------------
(***************************************************************************)
(* What a tournament promises about its games, whatever the number of      *)
(* workers and however they are scheduled: games are dealt in the order of *)
(* the schedule, each to one worker, each dealt game is scored at most     *)
(* once, and a verdict of SPRT cancels the games not yet dealt, for good.  *)
(***************************************************************************)
EXTENDS Integers

CONSTANTS Game,      \* the numbers of the scheduled games
          Outcome,   \* what a game can end with
          NotScored

VARIABLES status,   \* "waiting", "playing", "scored" or "cancelled"
          score     \* the outcome of each game, or NotScored

vars == <<status, score>>

Waiting == {g \in Game : status[g] = "waiting"}

Init ==
  /\ status = [g \in Game |-> "waiting"]
  /\ score = [g \in Game |-> NotScored]

Deal(g) ==
  /\ g \in Waiting /\ \A h \in Waiting : g <= h
  /\ status' = [status EXCEPT ![g] = "playing"]
  /\ UNCHANGED score

Score(g, o) ==
  /\ status[g] = "playing"
  /\ status' = [status EXCEPT ![g] = "scored"]
  /\ score' = [score EXCEPT ![g] = o]

Cancel ==
  /\ status' = [g \in Game |-> IF g \in Waiting THEN "cancelled" ELSE status[g]]
  /\ UNCHANGED score

Next ==
  \/ \E g \in Game : Deal(g) \/ \E o \in Outcome : Score(g, o)
  \/ Cancel

Spec == Init /\ [][Next]_vars
=============================================================================
