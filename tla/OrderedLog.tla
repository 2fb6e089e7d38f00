----------------------------- MODULE OrderedLog -----------------------------
(***************************************************************************)
(* What SeqWriter promises: games finish in any order, but the file is the *)
(* records of games 0, 1, 2, ... with none missing, and once it is closed  *)
(* all of the records given, in the order of the games.  The content of a  *)
(* file then depends on which games were given, never on when.             *)
(***************************************************************************)
EXTENDS Integers, SequencesExt

CONSTANT Record   \* the numbers of the games, a finite set of naturals

VARIABLES given,  \* the records handed over so far
          log,    \* the file
          state   \* "open", "closing", "closed", or "lost" with the process

vars == <<given, log, state>>

\* s has the records of S, in the order of the games.
InOrder(s, S) == IsSorted(s, <) /\ ToSet(s) = S

\* s begins the file of all of S: what is missing is later.
Begins(s, S) ==
  /\ IsSorted(s, <) /\ ToSet(s) \subseteq S
  /\ \A i \in DOMAIN s, k \in S \ ToSet(s) : s[i] < k

\* s skips no game.
Contiguous(s) == InOrder(s, 0 .. Len(s) - 1)

Grows == IsPrefix(log, log')

Init == given = {} /\ log = <<>> /\ state = "open"

Give(idx) ==
  /\ state = "open" /\ idx \notin given
  /\ given' = given \cup {idx}
  /\ UNCHANGED <<log, state>>

Extend ==
  /\ state = "open"
  /\ Contiguous(log') /\ ToSet(log') \subseteq given /\ Grows
  /\ UNCHANGED <<given, state>>

StartClose ==
  /\ state = "open"
  /\ state' = "closing"
  /\ UNCHANGED <<given, log>>

ExtendLast ==
  /\ state = "closing"
  /\ Begins(log', given) /\ Grows
  /\ UNCHANGED <<given, state>>

Close ==
  /\ state = "closing"
  /\ InOrder(log', given) /\ Grows
  /\ state' = "closed"
  /\ UNCHANGED given

\* The process ends without closing the file: what was written stays.
Lose ==
  /\ state \in {"open", "closing"}
  /\ state' = "lost"
  /\ UNCHANGED <<given, log>>

Next ==
  \/ \E idx \in Record : Give(idx)
  \/ Extend \/ StartClose \/ ExtendLast \/ Close \/ Lose

Spec == Init /\ [][Next]_vars
=============================================================================
