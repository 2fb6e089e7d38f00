------------------------------ MODULE EngineIO ------------------------------
(***************************************************************************)
(* One worker and the two engines it plays against each other, with the    *)
(* main thread that enforces the worker's deadline (engine.cpp,            *)
(* workers.cpp, the loop of main in main.cpp).  The worker writes commands *)
(* to an engine and reads lines from it; when the deadline of a dialog is  *)
(* overdue the main thread terminates the engine through the callback of   *)
(* the deadline, which closes the streams the worker is using.             *)
(*                                                                         *)
(* The order of the accesses is that of the code.  Steps of one thread are *)
(* joined where nothing of it can be seen by the other.  Time is one bit:  *)
(* has the deadline that is set passed?  POSIX branches are modelled.      *)
(***************************************************************************)
EXTENDS Integers

CONSTANT Settings   \* the settings of a run; one of them is chosen in Init

Dialogs == {"about", "start", "move", "stop", "exit"}

ASSUME EngineIOAssumption ==
  Settings \subseteq [hangs : SUBSET Dialogs, fatalError : BOOLEAN,
                      mainPolls : BOOLEAN, sigpipeKills : BOOLEAN]

Engine == 1 .. 2
Other(e) == 3 - e

VARIABLES
  setting,  \* the setting of this run, which no step changes
  pid, inp, outp,  \* Engine::pid (is it set), Engine::in, Engine::out
  child,    \* the process: "none", "alive", "dead" (not waited for)
  asked,    \* the dialog whose command the process has to answer
  line,     \* what waits in the pipe from the process
  dl,       \* Worker::deadline: set, called, engine, has it a callback
  passed,   \* is the time limit of the deadline over
  mtx,      \* deadline.mtx: "free" or held by "main" (a worker's hold is one step)
  main,     \* the main thread
  pc, cur, talk, got,  \* the worker: place, engine, dialog, how the dialog ended
  quit,     \* the queue was empty
  verdict,  \* how the game just ended: "none", "crashed", "timeout", "error"
  proc,     \* the program: "running", "died", "sigpipe", "undefined"
  late, fate   \* history, per engine: it missed a deadline; what ended it, "up"
               \* if nothing yet, itself ("died") or the main thread ("killed")

engineVars == <<pid, inp, outp>>
childVars == <<child, asked, line>>
deadlineVars == <<dl, passed, mtx>>
workerVars == <<pc, cur, talk, got, quit, verdict>>
historyVars == <<late, fate>>
vars == <<setting, engineVars, childVars, deadlineVars, main, workerVars, proc,
          historyVars>>

Hangs == setting.hangs               \* dialogs an engine may leave unanswered
FatalError == setting.fatalError     \* -fatalerror
MainPolls == setting.mainPolls       \* the main thread stays in its loop
SigpipeKills == setting.sigpipeKills \* the default action of SIGPIPE is taken

NoDeadline == [set |-> FALSE, called |-> FALSE, engine |-> 1, callback |-> FALSE]

Init ==
  /\ setting \in Settings
  /\ pid = [e \in Engine |-> FALSE]
  /\ inp = [e \in Engine |-> "null"] /\ outp = [e \in Engine |-> "null"]
  /\ child = [e \in Engine |-> "none"]
  /\ asked = [e \in Engine |-> "none"]
  /\ line = [e \in Engine |-> "none"]
  /\ dl = NoDeadline /\ passed = FALSE /\ mtx = "free"
  /\ main = "poll"
  /\ pc = "check" /\ cur = 1 /\ talk = "about" /\ got = "none"
  /\ quit = FALSE /\ verdict = "none"
  /\ proc = "running"
  /\ late = [e \in Engine |-> FALSE]
  /\ fate = [e \in Engine |-> "up"]

Running == proc = "running"

Undefined == proc' = "undefined"

-----------------------------------------------------------------------------
\* The processes of the engines (external).

EngineMessage(e) ==
  /\ Running /\ child[e] = "alive" /\ line[e] = "none"
  /\ asked[e] \in {"start", "move", "stop"}
  /\ line' = [line EXCEPT ![e] = "message"]
  /\ UNCHANGED <<setting, engineVars, child, asked, deadlineVars, main,
                 workerVars, proc, historyVars>>

EngineAnswer(e) ==
  /\ Running /\ child[e] = "alive" /\ line[e] = "none"
  /\ asked[e] \in {"about", "start", "move", "stop"}
  /\ \/ line' = [line EXCEPT ![e] = "answer"]
     \/ asked[e] = "start" /\ line' = [line EXCEPT ![e] = "error"]
  /\ asked' = [asked EXCEPT ![e] = "none"]
  /\ UNCHANGED <<setting, engineVars, child, deadlineVars, main, workerVars,
                 proc, historyVars>>

EngineExits(e) ==
  /\ Running /\ child[e] = "alive" /\ asked[e] = "exit"
  /\ child' = [child EXCEPT ![e] = "dead"]
  /\ asked' = [asked EXCEPT ![e] = "none"]
  /\ UNCHANGED <<setting, engineVars, line, deadlineVars, main, workerVars,
                 proc, historyVars>>

EngineCrashes(e) ==
  /\ Running /\ child[e] = "alive"
  /\ child' = [child EXCEPT ![e] = "dead"]
  /\ asked' = [asked EXCEPT ![e] = "none"]
  /\ fate' = [fate EXCEPT ![e] = "died"]
  /\ UNCHANGED <<setting, engineVars, line, deadlineVars, main, workerVars,
                 proc, late>>

TimePasses ==
  /\ Running /\ dl.set /\ ~passed
  /\ passed' = TRUE
  /\ late' = [late EXCEPT ![dl.engine] = TRUE]
  /\ UNCHANGED <<setting, engineVars, childVars, dl, mtx, main, workerVars,
                 proc, fate>>

-----------------------------------------------------------------------------
\* The worker.

At(place) == Running /\ pc = place

\* Where thread_start goes when engine e is ready: the other one, or the game.
Ready(e) ==
  IF e = 1 THEN pc' = "check" /\ cur' = 2 /\ UNCHANGED talk
           ELSE pc' = "ask" /\ cur' = 1 /\ talk' = "start"

\* The queue has a job, or the worker has taken it already.
HasJob == ~quit /\ (cur = 1 => main # "join")

\* thread_start before a game: an engine is kept if it is ok and not crashed.
KeepEngine ==
  /\ At("check") /\ HasJob
  /\ pid[cur] /\ inp[cur] # "null" /\ outp[cur] # "null"
  /\ Ready(cur)
  /\ verdict' = "none"
  /\ UNCHANGED <<engineVars, childVars, deadlineVars, main, got, quit, proc,
                 historyVars>>

\* Mutation: waitpid comes before END is written.
TerminateWaitsFirst ==
  /\ At("check") /\ (HasJob \/ quit)
  /\ pc' = (IF pid[cur] THEN "waitpid" ELSE "gone")
  /\ talk' = (IF pid[cur] THEN "exit" ELSE talk)
  /\ verdict' = "none"
  /\ UNCHANGED <<engineVars, childVars, deadlineVars, main, cur, got, quit, proc,
                 historyVars>>

\* thread_start before a game: the other engines, and all of them when the job
\* is another pair's; thread_start at its end.  terminate() and start().
TerminateEngine ==
  /\ At("check") /\ (HasJob \/ quit)
  /\ IF pid[cur] THEN pc' = "set" /\ talk' = "exit"
                 ELSE pc' = "gone" /\ UNCHANGED talk
  /\ verdict' = "none"
  /\ UNCHANGED <<engineVars, childVars, deadlineVars, main, cur, got, quit, proc,
                 historyVars>>

\* jq->pop found the queue empty.
QueueEmpty ==
  /\ At("check") /\ cur = 1 /\ ~quit
  /\ quit' = TRUE
  /\ UNCHANGED <<engineVars, childVars, deadlineVars, main, pc, cur, talk, got,
                 verdict, proc, historyVars>>

\* After terminate: spawn and parse_about, or the next engine to terminate.
SpawnOrQuit ==
  /\ At("gone")
  /\ IF quit
     THEN /\ IF cur = 1 THEN pc' = "check" /\ cur' = 2 ELSE pc' = "ended" /\ UNCHANGED cur
          /\ UNCHANGED <<engineVars, childVars, talk, historyVars>>
     ELSE /\ pid' = [pid EXCEPT ![cur] = TRUE]
          /\ inp' = [inp EXCEPT ![cur] = "open"]
          /\ outp' = [outp EXCEPT ![cur] = "open"]
          /\ child' = [child EXCEPT ![cur] = "alive"]
          /\ asked' = [asked EXCEPT ![cur] = "none"]
          /\ line' = [line EXCEPT ![cur] = "none"]
          /\ late' = [late EXCEPT ![cur] = FALSE]
          /\ fate' = [fate EXCEPT ![cur] = "up"]
          /\ pc' = "set" /\ talk' = "about"
          /\ UNCHANGED cur
  /\ UNCHANGED <<deadlineVars, main, got, quit, verdict, proc>>

\* parse_about and terminate set the deadline first and then write; START and
\* the commands of a turn are written before wait_for_ok and bestmove set it.
AfterSet(d) ==
  IF d \in {"about", "exit"} THEN "ask" ELSE "read"
AfterAsk(d) ==
  CASE d \in {"about", "stop"} -> "read"
    [] d \in {"start", "move"} -> "set"
    [] d = "exit" -> "waitpid"

\* Mutation: called is not reset.
DeadlineSetKeepsCalled ==
  /\ At("set") /\ mtx = "free"
  /\ dl' = [dl EXCEPT !.set = TRUE, !.engine = cur,
              !.callback = talk = "move" \/ (talk = "start" /\ ~FatalError)]
  /\ passed' = FALSE
  /\ got' = "none"
  /\ pc' = AfterSet(talk)
  /\ UNCHANGED <<engineVars, childVars, mtx, main, cur, talk, quit, verdict, proc,
                 historyVars>>

\* deadline_set; the callback terminates the engine by force
DeadlineSet ==
  /\ At("set") /\ mtx = "free"
  /\ dl' = [set |-> TRUE, called |-> FALSE, engine |-> cur,
            callback |-> talk = "move" \/ (talk = "start" /\ ~FatalError)]
  /\ passed' = FALSE
  /\ got' = "none"
  /\ pc' = AfterSet(talk)
  /\ UNCHANGED <<engineVars, childVars, mtx, main, cur, talk, quit, verdict, proc,
                 historyVars>>

\* writeln: nothing if out is null.  A write to a pipe without reader raises
\* SIGPIPE, or else fails and the streams are closed; pid stays.
Writeln ==
  /\ At("ask")
  /\ \/ /\ outp[cur] = "null"
        /\ pc' = AfterAsk(talk)
        /\ UNCHANGED <<inp, outp, asked, line, proc>>
     \/ /\ outp[cur] = "open" /\ child[cur] = "alive"
        /\ asked' = [asked EXCEPT ![cur] = talk]
        /\ pc' = AfterAsk(talk)
        /\ UNCHANGED <<inp, outp, line, proc>>
     \/ /\ outp[cur] = "open" /\ child[cur] # "alive" /\ SigpipeKills
        /\ proc' = "sigpipe"
        /\ UNCHANGED <<inp, outp, asked, line, pc>>
     \/ /\ outp[cur] = "open" /\ child[cur] # "alive" /\ ~SigpipeKills
        /\ inp' = [inp EXCEPT ![cur] = "null"]
        /\ outp' = [outp EXCEPT ![cur] = "null"]
        /\ pc' = AfterAsk(talk)
        /\ UNCHANGED <<asked, line, proc>>
     \/ /\ outp[cur] = "closed"
        /\ Undefined
        /\ UNCHANGED <<inp, outp, asked, line, pc>>
  /\ UNCHANGED <<pid, child, deadlineVars, main, cur, talk, got, quit, verdict,
                 historyVars>>

\* readln: if (!in) return false; string_getline(line, in) locks the stream
ReadlnEnter ==
  /\ At("read")
  /\ \/ inp[cur] = "null" /\ pc' = "clear" /\ got' = "failed" /\ UNCHANGED proc
     \/ inp[cur] = "open" /\ pc' = "getline" /\ UNCHANGED <<got, proc>>
     \/ inp[cur] = "closed" /\ Undefined /\ UNCHANGED <<pc, got>>
  /\ UNCHANGED <<engineVars, childVars, deadlineVars, main, cur, talk, quit, verdict,
                 historyVars>>

\* Mutation: a message before the answer counts as no answer.
ReadlnMessageFails ==
  /\ At("getline") /\ line[cur] # "none"
  /\ line' = [line EXCEPT ![cur] = "none"]
  /\ got' = IF line[cur] = "message" THEN "failed" ELSE line[cur]
  /\ pc' = "clear"
  /\ UNCHANGED <<engineVars, child, asked, deadlineVars, main, cur, talk, quit, verdict,
                 proc, historyVars>>

\* A line is read: the loops of parse_about, wait_for_ok and bestmove skip a
\* message; bestmove may find its time used up and write YXSTOP, once.
ReadlnLine ==
  /\ At("getline") /\ line[cur] # "none"
  /\ line' = [line EXCEPT ![cur] = "none"]
  /\ \/ /\ line[cur] = "message"
        /\ \/ pc' = "read" /\ UNCHANGED talk
           \/ talk = "move" /\ talk' = "stop" /\ pc' = "ask"
        /\ UNCHANGED got
     \/ /\ line[cur] # "message"
        /\ got' = line[cur]
        /\ pc' = "clear"
        /\ UNCHANGED talk
  /\ UNCHANGED <<engineVars, child, asked, deadlineVars, main, cur, quit, verdict,
                 proc, historyVars>>

\* The pipe returned EOF: wait_callback_done
ReadlnEof ==
  /\ At("getline") /\ line[cur] = "none" /\ child[cur] # "alive"
  /\ pc' = "eof"
  /\ UNCHANGED <<engineVars, childVars, deadlineVars, main, cur, talk, got, quit,
                 verdict, proc, historyVars>>

\* wait_callback_done; then readln looks at pid
WaitCallbackDone ==
  /\ At("eof") /\ mtx = "free"
  /\ IF pid[cur] THEN pc' = "closing" /\ UNCHANGED got
                 ELSE pc' = "clear" /\ got' = "failed"
  /\ UNCHANGED <<engineVars, childVars, deadlineVars, main, cur, talk, quit, verdict,
                 proc, historyVars>>

\* readln closes the streams of a crashed engine.
CloseCrashed ==
  /\ At("closing")
  /\ \/ /\ inp[cur] = "open" /\ outp[cur] = "open"
        /\ inp' = [inp EXCEPT ![cur] = "null"]
        /\ outp' = [outp EXCEPT ![cur] = "null"]
        /\ pc' = "clear" /\ got' = "failed"
        /\ UNCHANGED proc
     \/ /\ inp[cur] # "open" \/ outp[cur] # "open"
        /\ Undefined
        /\ UNCHANGED <<inp, outp, pc, got>>
  /\ UNCHANGED <<pid, childVars, deadlineVars, main, cur, talk, quit, verdict,
                 historyVars>>

\* terminate(false) on POSIX: waitpid(pid, NULL, 0), whatever the deadline
Waitpid ==
  /\ At("waitpid") /\ child[cur] # "alive"
  /\ child' = [child EXCEPT ![cur] = "none"]
  /\ pc' = "clear"
  /\ UNCHANGED <<engineVars, asked, line, deadlineVars, main, cur, talk, got, quit,
                 verdict, proc, historyVars>>

IsCrashed(e) == pid[e] /\ (inp[e] = "null" \/ outp[e] = "null")

\* The game is over: play returns and the worker asks for the next job.
GameOver(how) == verdict' = how /\ pc' = "check" /\ cur' = 1 /\ UNCHANGED talk

\* What the caller of the dialog does with an answer.
Proceed ==
  \/ /\ talk = "about" /\ Ready(cur) /\ UNCHANGED verdict
  \/ /\ talk = "start" /\ cur = 1
     /\ pc' = "ask" /\ cur' = 2 /\ UNCHANGED <<talk, verdict>>
  \/ /\ talk = "start" /\ cur = 2
     /\ pc' = "ask" /\ talk' = "move" /\ cur' \in Engine /\ UNCHANGED verdict
  \/ /\ talk \in {"move", "stop"}
     /\ \/ pc' = "ask" /\ talk' = "move" /\ cur' = Other(cur) /\ UNCHANGED verdict
        \/ GameOver("none")

\* How play blames an engine that did not answer.
Blame ==
  GameOver(IF IsCrashed(cur) THEN "crashed"
           ELSE IF got = "error" THEN "error" ELSE "timeout")

(***************************************************************************)
(* deadline_clear, and what follows in the worker: terminate closes the    *)
(* streams and resets pid; parse_about DIEs without an answer; a game is   *)
(* lost, or the program ends under -fatalerror.                            *)
(***************************************************************************)
ClearAndGoOn ==
  /\ At("clear")
  /\ dl' = [dl EXCEPT !.set = FALSE]
  /\ passed' = FALSE
  /\ \/ /\ talk = "exit"
        /\ inp' = [inp EXCEPT ![cur] = "null"]
        /\ outp' = [outp EXCEPT ![cur] = "null"]
        /\ pid' = [pid EXCEPT ![cur] = FALSE]
        /\ pc' = "gone"
        /\ UNCHANGED <<cur, talk, verdict, proc>>
     \/ /\ talk # "exit" /\ got = "answer"
        /\ Proceed
        /\ UNCHANGED <<engineVars, proc>>
     \/ /\ talk # "exit" /\ got # "answer"
        /\ IF talk = "about" \/ FatalError
           THEN proc' = "died" /\ UNCHANGED <<pc, cur, talk, verdict>>
           ELSE Blame /\ UNCHANGED proc
        /\ UNCHANGED engineVars
  /\ UNCHANGED <<childVars, mtx, main, got, quit, historyVars>>

\* Mutation: the worker does not lock deadline.mtx.
DeadlineClearUnlocked == ClearAndGoOn

DeadlineClear == mtx = "free" /\ ClearAndGoOn

WorkerStep ==
  /\ \/ KeepEngine \/ TerminateEngine \/ QueueEmpty \/ SpawnOrQuit
     \/ DeadlineSet \/ Writeln
     \/ ReadlnEnter \/ ReadlnLine \/ ReadlnEof \/ WaitCallbackDone \/ CloseCrashed
     \/ Waitpid \/ DeadlineClear
  /\ UNCHANGED setting

-----------------------------------------------------------------------------
\* The main thread.

\* deadline_overdue() > 0; the branch for more than 3000 ms is never taken.
MainPoll ==
  /\ Running /\ main = "poll" /\ mtx = "free"
  /\ dl.set /\ passed
  /\ main' = "overdue"
  /\ UNCHANGED <<engineVars, childVars, deadlineVars, workerVars, proc, historyVars>>

\* jq->done(): some worker took the last job.
MainLeavesLoop ==
  /\ Running /\ main = "poll" /\ ~MainPolls
  /\ main' = "join"
  /\ UNCHANGED <<setting, engineVars, childVars, deadlineVars, workerVars,
                 proc, historyVars>>

\* deadline_callback_once, which looks at set and called only
CallbackOnce ==
  /\ Running /\ main = "overdue" /\ mtx = "free"
  /\ IF dl.set /\ ~dl.called
     THEN /\ dl' = [dl EXCEPT !.called = TRUE]
          /\ IF dl.callback /\ pid[dl.engine]
             THEN main' = "kill" /\ mtx' = "main"
             ELSE main' = "poll" /\ UNCHANGED mtx
     ELSE main' = "poll" /\ UNCHANGED <<dl, mtx>>
  /\ UNCHANGED <<engineVars, childVars, passed, workerVars, proc, historyVars>>

\* Mutation: kill is called when waitpid(WNOHANG) has reaped the process.
ForceTerminateTheDead ==
  /\ Running /\ main = "kill"
  /\ LET e == dl.engine
     IN  /\ child' = [child EXCEPT ![e] = IF @ = "dead" THEN "none" ELSE @]
         /\ fate' = [fate EXCEPT ![e] = "killed"]
  /\ main' = "closeIn"
  /\ UNCHANGED <<engineVars, asked, line, deadlineVars, workerVars, proc, late>>

\* terminate(true): waitpid(WNOHANG), kill(SIGTERM)
ForceTerminate ==
  /\ Running /\ main = "kill"
  /\ LET e == dl.engine
     IN  /\ child' = [child EXCEPT ![e] = IF @ = "dead" THEN "none" ELSE "dead"]
         /\ asked' = [asked EXCEPT ![e] = "none"]
         /\ fate' = [fate EXCEPT ![e] = "killed"]
  /\ main' = "closeIn"
  /\ UNCHANGED <<engineVars, line, deadlineVars, workerVars, proc, late>>

\* fclose(in) waits for the lock that string_getline holds.
ForceCloseIn ==
  /\ Running /\ main = "closeIn"
  /\ LET e == dl.engine
     IN  /\ ~(pc = "getline" /\ cur = e)
         /\ inp' = [inp EXCEPT ![e] = IF @ = "open" THEN "closed" ELSE @]
  /\ main' = "closeOut"
  /\ UNCHANGED <<pid, outp, childVars, deadlineVars, workerVars, proc, historyVars>>

ForceCloseOut ==
  /\ Running /\ main = "closeOut"
  /\ outp' = [outp EXCEPT ![dl.engine] = IF @ = "open" THEN "closed" ELSE @]
  /\ main' = "reset"
  /\ UNCHANGED <<pid, inp, childVars, deadlineVars, workerVars, proc, historyVars>>

\* Mutation: pid is not reset.
ForceResetKeepsPid ==
  /\ Running /\ main = "reset"
  /\ inp' = [inp EXCEPT ![dl.engine] = "null"]
  /\ outp' = [outp EXCEPT ![dl.engine] = "null"]
  /\ mtx' = "free" /\ main' = "poll"
  /\ UNCHANGED <<pid, childVars, dl, passed, workerVars, proc, historyVars>>

\* Mutation: in and out keep pointing to the closed streams.
ForceResetKeepsStreams ==
  /\ Running /\ main = "reset"
  /\ pid' = [pid EXCEPT ![dl.engine] = FALSE]
  /\ mtx' = "free" /\ main' = "poll"
  /\ UNCHANGED <<inp, outp, childVars, dl, passed, workerVars, proc, historyVars>>

\* pid = 0, in = out = nullptr, and the mutex of the deadline is unlocked
ForceReset ==
  /\ Running /\ main = "reset"
  /\ pid' = [pid EXCEPT ![dl.engine] = FALSE]
  /\ inp' = [inp EXCEPT ![dl.engine] = "null"]
  /\ outp' = [outp EXCEPT ![dl.engine] = "null"]
  /\ mtx' = "free" /\ main' = "poll"
  /\ UNCHANGED <<childVars, dl, passed, workerVars, proc, historyVars>>

MainStep ==
  /\ \/ MainPoll \/ CallbackOnce \/ ForceTerminate \/ ForceCloseIn
     \/ ForceCloseOut \/ ForceReset
  /\ UNCHANGED setting

Terminated == (~Running \/ pc = "ended") /\ UNCHANGED vars

Next ==
  \/ WorkerStep \/ MainStep \/ MainLeavesLoop
  \/ \E e \in Engine :
       EngineMessage(e) \/ EngineAnswer(e) \/ EngineExits(e) \/ EngineCrashes(e)
  \/ TimePasses \/ Terminated

Spec == Init /\ [][Next]_vars

\* An engine answers in the dialogs in which it is not allowed to hang.
Answers(e) == asked[e] \notin Hangs /\ (EngineAnswer(e) \/ EngineExits(e))

(***************************************************************************)
(* The threads are scheduled, the clock runs, and engines answer in the    *)
(* dialogs outside of Hangs, after a number of messages: strong fairness,  *)
(* because here a message fills the pipe until it is read.  An engine need *)
(* not send messages or crash.                                             *)
(***************************************************************************)
Fairness ==
  /\ WF_vars(WorkerStep) /\ WF_vars(MainStep) /\ WF_vars(TimePasses)
  /\ \A e \in Engine : SF_vars(Answers(e))

FairSpec == Spec /\ Fairness

-----------------------------------------------------------------------------
(***************************************************************************)
(* The main thread terminates an engine only while the worker is in the    *)
(* dialog with it whose deadline was set: the worker cannot leave the      *)
(* dialog, or go on to the other engine, while the callback runs.          *)
(***************************************************************************)
TerminatesTheEngineTalkedTo ==
  (Running /\ mtx = "main") =>
    /\ dl.set /\ dl.called /\ cur = dl.engine
    /\ pc \in {"read", "getline", "eof", "closing", "clear", "ask"}

(***************************************************************************)
(* Outside of a callback the worker's view of an engine is consistent: no  *)
(* pointer to a closed stream is left, an engine without pid has no        *)
(* streams, and in and out come and go together.                           *)
(***************************************************************************)
StreamsConsistent ==
  (Running /\ mtx = "free") =>
    \A e \in Engine :
      /\ inp[e] # "closed" /\ inp[e] = outp[e]
      /\ ~pid[e] => inp[e] = "null"

(***************************************************************************)
(* A deadlock of the two threads over the lock of the stream (held in      *)
(* string_getline) and deadline.mtx is not possible: while the main thread *)
(* waits for the stream, its reader gets a line or EOF.                    *)
(***************************************************************************)
ReaderReleasesStream ==
  (Running /\ main = "closeIn" /\ pc = "getline" /\ cur = dl.engine) =>
    line[cur] # "none" \/ child[cur] # "alive"

(***************************************************************************)
(* A game is scored as a crash only if the engine ended by itself, and as  *)
(* a timeout only if the main thread terminated it: the two threads agree  *)
(* on who ended an engine.                                                 *)
(***************************************************************************)
VerdictHasItsCause ==
  [][verdict' # verdict =>
       /\ verdict' = "crashed" => fate[cur] = "died"
       /\ verdict' = "timeout" => fate[cur] = "killed"]_vars

(***************************************************************************)
(* The program ends by itself only for a cause: the engine it waited for   *)
(* died or was terminated, or answered ERROR.  A message is no cause.      *)
(***************************************************************************)
DiesForACause ==
  proc = "died" => fate[cur] \in {"died", "killed"} \/ got = "error"

(***************************************************************************)
(* Every dialog with an engine that may hang at START or at a move ends,   *)
(* or the program does, as long as the main thread polls (README.md:58).   *)
(* An engine that sends messages for ever and no answer hangs, too.        *)
(***************************************************************************)
DialogsEnd == (MainPolls /\ dl.set) ~> (~dl.set \/ ~Running)

(***************************************************************************)
(* A worker that found the queue empty ends, whatever became of its two    *)
(* engines, if engines obey END: main can join it.                         *)
(***************************************************************************)
WorkerQuits == quit ~> pc = "ended" \/ ~Running

-----------------------------------------------------------------------------
(***************************************************************************)
(* What the documentation and the comments say of deadlines, and the code  *)
(* does not keep.                                                          *)
(***************************************************************************)

\* README.md:92: an engine hangs when it is late by its tolerance.  The main
\* thread terminates no engine that missed no deadline.
KillsOnlyTheLate == \A e \in Engine : fate[e] = "killed" => late[e]

DialogEnds(dialogs) ==
  dl.set /\ talk \in dialogs ~> ~dl.set \/ ~Running

\* README.md:58: an engine that hangs at a move loses on time, also in the last
\* games, when the queue is empty.
HungMovesEnd == DialogEnds({"move", "stop"})
=============================================================================
