----------------------------- MODULE MCEngineIO -----------------------------
(***************************************************************************)
(* Model checking of EngineIO.  A setting says in which dialogs engines    *)
(* may hang, and what the program does then.                               *)
(***************************************************************************)
EXTENDS EngineIO

Setting(hangs, fatalError, mainPolls, sigpipeKills) ==
  [hangs |-> hangs, fatalError |-> fatalError, mainPolls |-> mainPolls,
   sigpipeKills |-> sigpipeKills]

AtStart == {"start"}
AtMoves == {"move", "stop"}

\* Hung engines that main can terminate; and -fatalerror without hung engines,
\* main leaving its loop and SIGPIPE not ignored.
Passing ==
  {Setting(AtStart \cup AtMoves, FALSE, TRUE, FALSE),
   Setting({}, TRUE, FALSE, TRUE)}

HangingAtMoves == {Setting(AtMoves, FALSE, TRUE, FALSE)}
HangingInLastGames == {Setting(AtMoves, FALSE, FALSE, FALSE)}
=============================================================================
