--------------------------- MODULE EngineIOProofs ---------------------------
(***************************************************************************)
(* Proofs about EngineIO for every set of settings: whichever dialogs      *)
(* engines hang in, with and without -fatalerror, whether or not main has  *)
(* left its loop, and whatever becomes of SIGPIPE.  IInv is the inductive  *)
(* invariant.  Its core is when a deadline is set (DeadlineCoversDialog):  *)
(* because the worker cannot clear it during a callback, everything the    *)
(* callback touches belongs to the engine the worker is talking to.        *)
(***************************************************************************)
EXTENDS EngineIO, TLAPS

WorkerPlaces ==
  {"check", "gone", "set", "ask", "read", "getline", "eof", "closing", "clear",
   "waitpid", "ended"}

\* The places of the main thread inside of terminate(true)
ForcePlaces == {"kill", "closeIn", "closeOut", "reset"}

EngineTypeOK ==
  /\ setting \in Settings
  /\ pid \in [Engine -> BOOLEAN]
  /\ inp \in [Engine -> {"null", "open", "closed"}]
  /\ outp \in [Engine -> {"null", "open", "closed"}]
  /\ child \in [Engine -> {"none", "alive", "dead"}]
  /\ asked \in [Engine -> Dialogs \cup {"none"}]
  /\ line \in [Engine -> {"none", "message", "answer", "error"}]
  /\ late \in [Engine -> BOOLEAN]
  /\ fate \in [Engine -> {"up", "died", "killed"}]

ThreadTypeOK ==
  /\ dl \in [set : BOOLEAN, called : BOOLEAN, engine : Engine, callback : BOOLEAN]
  /\ passed \in BOOLEAN
  /\ mtx \in {"free", "main"}
  /\ main \in {"poll", "overdue", "join"} \cup ForcePlaces
  /\ pc \in WorkerPlaces
  /\ cur \in Engine
  /\ talk \in Dialogs
  /\ got \in {"none", "answer", "error", "failed"}
  /\ quit \in BOOLEAN
  /\ verdict \in {"none", "crashed", "timeout", "error"}
  /\ proc \in {"running", "died", "sigpipe", "undefined"}

TypeOK == EngineTypeOK /\ ThreadTypeOK

\* The worker waits for an answer, or for the end of the process.
Waiting == pc \in {"read", "getline", "eof", "closing", "clear", "waitpid"}

\* A deadline is set in a dialog, for its engine, from deadline_set on.
DeadlineCoversDialog ==
  /\ dl.set <=> Waiting \/ (pc = "ask" /\ talk \in {"about", "stop", "exit"})
  /\ dl.set =>
       /\ cur = dl.engine
       /\ dl.callback <=> talk \in {"move", "stop"} \/ (talk = "start" /\ ~FatalError)
  /\ pc = "waitpid" => talk = "exit"
  /\ pc \in {"read", "getline", "eof", "closing"} => talk # "exit"
  /\ pc = "set" => talk # "stop"

\* deadline.mtx is held while the callback runs, in a dialog that has one.
CallbackInDialog ==
  /\ mtx = "main" <=> main \in ForcePlaces
  /\ mtx = "main" => dl.set /\ dl.called /\ dl.callback
  /\ main \in {"closeIn", "closeOut", "reset"} =>
       child[dl.engine] # "alive" /\ fate[dl.engine] = "killed"

\* The callback does not touch engine e at the moment.
Untouched(e) == mtx = "free" \/ e # dl.engine

Consistent(e) ==
  /\ inp[e] # "closed" /\ inp[e] = outp[e]
  /\ ~pid[e] => inp[e] = "null"

\* An engine that died by itself, before it was told to END
GoneByItself(e) ==
  fate[e] = "died" \/ (talk = "exit" /\ cur = e /\ pc \in {"waitpid", "clear"})

\* Who ended an engine can be seen from its pid and its streams.
EngineStates ==
  \A e \in Engine :
    /\ Untouched(e) =>
         /\ Consistent(e)
         /\ ~pid[e] => child[e] # "alive"
         /\ pid[e] /\ child[e] # "alive" => GoneByItself(e)
         /\ pid[e] /\ inp[e] = "null" => fate[e] = "died"
    /\ child[e] # "alive" => asked[e] = "none"
    /\ asked[e] = "exit" => cur = e /\ talk = "exit" /\ pc = "waitpid"

\* The worker prepares its engines, or it plays a game with both of them.
Preparing == pc \in {"check", "gone"} \/ talk \in {"about", "exit"}
InGame == ~Preparing /\ pc # "ended"

\* No game begins before both engines were started; one that has no pid then
\* was terminated by the main thread.
EnginesStarted ==
  /\ InGame => \A e \in Engine : Untouched(e) => pid[e] \/ fate[e] = "killed"
  /\ Preparing /\ pc # "ended" /\ ~quit /\ cur = 2 => pid[1]
  /\ talk = "about" /\ pc \notin {"check", "gone", "ended"} => pid[cur] /\ ~quit

\* readln finds the end of the pipe, and waitpid returns, when the process has
\* ended only; readln fails when the streams are closed only.
FailureHasAReason ==
  /\ pc \in {"eof", "closing"} => child[cur] # "alive"
  /\ pc = "clear" /\ talk = "exit" => child[cur] # "alive"
  /\ pc = "clear" /\ talk # "exit" =>
       /\ got # "none"
       /\ got = "failed" => inp[cur] = "null"

RunningInv ==
  /\ DeadlineCoversDialog /\ CallbackInDialog
  /\ EngineStates /\ EnginesStarted /\ FailureHasAReason

IInv == TypeOK /\ (Running => RunningInv) /\ DiesForACause

(***************************************************************************)
(* A step of the worker keeps the types.                                   *)
(***************************************************************************)
LEMMA WorkerTypes ==
  ASSUME TypeOK, WorkerStep
  PROVE  TypeOK'
<1> USE DEF TypeOK, EngineTypeOK, ThreadTypeOK, WorkerPlaces, ForcePlaces, Engine,
            Dialogs, At, engineVars, childVars, deadlineVars, workerVars, historyVars
<1>0. UNCHANGED setting
  BY DEF WorkerStep
<1>1. CASE KeepEngine
  BY <1>0, <1>1 DEF KeepEngine, Ready, HasJob
<1>2. CASE TerminateEngine
  BY <1>0, <1>2 DEF TerminateEngine, HasJob
<1>3. CASE QueueEmpty
  BY <1>0, <1>3 DEF QueueEmpty
<1>4. CASE SpawnOrQuit
  <2>1. CASE quit
    BY <1>0, <1>4, <2>1 DEF SpawnOrQuit
  <2>2. CASE ~quit
    <3>1. /\ pid' = [pid EXCEPT ![cur] = TRUE]
          /\ inp' = [inp EXCEPT ![cur] = "open"]
          /\ outp' = [outp EXCEPT ![cur] = "open"]
          /\ child' = [child EXCEPT ![cur] = "alive"]
          /\ asked' = [asked EXCEPT ![cur] = "none"]
          /\ line' = [line EXCEPT ![cur] = "none"]
          /\ late' = [late EXCEPT ![cur] = FALSE]
          /\ fate' = [fate EXCEPT ![cur] = "up"]
      BY <1>4, <2>2 DEF SpawnOrQuit
    <3>2. EngineTypeOK'
      BY <1>0, <3>1
    <3>3. ThreadTypeOK'
      BY <1>4, <2>2 DEF SpawnOrQuit
    <3> QED
      BY <3>2, <3>3
  <2> QED
    BY <2>1, <2>2
<1>5. CASE DeadlineSet
  BY <1>0, <1>5, ZenonT(30) DEF DeadlineSet, AfterSet
<1>6. CASE Writeln
  BY <1>0, <1>6 DEF Writeln, AfterAsk, Undefined
<1>7. CASE ReadlnEnter
  BY <1>0, <1>7 DEF ReadlnEnter, Undefined
<1>8. CASE ReadlnLine
  BY <1>0, <1>8 DEF ReadlnLine
<1>9. CASE ReadlnEof
  BY <1>0, <1>9 DEF ReadlnEof
<1>10. CASE WaitCallbackDone
  BY <1>0, <1>10 DEF WaitCallbackDone
<1>11. CASE CloseCrashed
  BY <1>0, <1>11 DEF CloseCrashed, Undefined
<1>12. CASE Waitpid
  BY <1>0, <1>12 DEF Waitpid
<1>13. CASE DeadlineClear
  <2>1. EngineTypeOK'
    BY <1>0, <1>13, ZenonT(30) DEF DeadlineClear, ClearAndGoOn
  <2>2. cur' \in Engine /\ talk' \in Dialogs /\ pc' \in WorkerPlaces
    BY <1>13 DEF DeadlineClear, ClearAndGoOn, Proceed, Ready, Blame, GameOver, Other
  <2>3. verdict' \in {"none", "crashed", "timeout", "error"}
    BY <1>13 DEF DeadlineClear, ClearAndGoOn, Proceed, Blame, GameOver
  <2>4. ThreadTypeOK'
    BY <1>13, <2>2, <2>3, ZenonT(30) DEF DeadlineClear, ClearAndGoOn
  <2> QED
    BY <2>1, <2>4
<1> QED
  BY <1>1, <1>2, <1>3, <1>4, <1>5, <1>6, <1>7,
     <1>8, <1>9, <1>10, <1>11, <1>12, <1>13 DEF WorkerStep

(***************************************************************************)
(* A step of the worker after which the program still runs keeps the rest. *)
(***************************************************************************)
LEMMA WorkerKeepsRunningInv ==
  ASSUME TypeOK, RunningInv, WorkerStep, Running'
  PROVE  RunningInv'
<1> USE DEF TypeOK, EngineTypeOK, ThreadTypeOK, Engine, Dialogs, At, Running, FatalError,
            engineVars, childVars, deadlineVars, workerVars, historyVars
<1> USE DEF RunningInv, DeadlineCoversDialog, Waiting, CallbackInDialog, ForcePlaces,
            EngineStates, Untouched, Consistent, GoneByItself, EnginesStarted, InGame,
            Preparing, FailureHasAReason
<1>0. UNCHANGED setting
  BY DEF WorkerStep
<1>1. CASE KeepEngine
  BY <1>0, <1>1 DEF KeepEngine, Ready, HasJob
<1>2. CASE TerminateEngine
  BY <1>0, <1>2 DEF TerminateEngine, HasJob
<1>3. CASE QueueEmpty
  BY <1>0, <1>3 DEF QueueEmpty
<1>4. CASE SpawnOrQuit
  BY <1>0, <1>4 DEF SpawnOrQuit
<1>5. CASE DeadlineSet
  BY <1>0, <1>5, ZenonT(30) DEF DeadlineSet, AfterSet
<1>6. CASE Writeln
  BY <1>0, <1>6 DEF Writeln, AfterAsk, Undefined
<1>7. CASE ReadlnEnter
  <2>1. DeadlineCoversDialog'
    BY <1>0, <1>7 DEF ReadlnEnter, Undefined
  <2>2. CallbackInDialog'
    BY <1>0, <1>7 DEF ReadlnEnter, Undefined
  <2>3. EngineStates'
    BY <1>0, <1>7 DEF ReadlnEnter, Undefined
  <2>4. EnginesStarted'
    BY <1>0, <1>7 DEF ReadlnEnter, Undefined
  <2>5. FailureHasAReason'
    BY <1>0, <1>7 DEF ReadlnEnter, Undefined
  <2> QED
    BY <2>1, <2>2, <2>3, <2>4, <2>5
<1>8. CASE ReadlnLine
  <2>1. DeadlineCoversDialog'
    BY <1>0, <1>8 DEF ReadlnLine
  <2>2. CallbackInDialog'
    BY <1>0, <1>8 DEF ReadlnLine
  <2>3. EngineStates'
    BY <1>0, <1>8 DEF ReadlnLine
  <2>4. EnginesStarted'
    BY <1>0, <1>8 DEF ReadlnLine
  <2>5. FailureHasAReason'
    BY <1>0, <1>8 DEF ReadlnLine
  <2> QED
    BY <2>1, <2>2, <2>3, <2>4, <2>5
<1>9. CASE ReadlnEof
  BY <1>0, <1>9 DEF ReadlnEof
<1>10. CASE WaitCallbackDone
  BY <1>0, <1>10 DEF WaitCallbackDone
<1>11. CASE CloseCrashed
  BY <1>0, <1>11 DEF CloseCrashed, Undefined
<1>12. CASE Waitpid
  BY <1>0, <1>12 DEF Waitpid
<1>13. CASE DeadlineClear
  <2>1. CASE talk = "exit"
    BY <1>0, <1>13, <2>1 DEF DeadlineClear, ClearAndGoOn
  <2>2. CASE talk # "exit" /\ got = "answer"
    <3>1. /\ ClearAndGoOn /\ mtx = "free" /\ Proceed
      BY <1>13, <2>2 DEF DeadlineClear, ClearAndGoOn
    <3>2. CASE talk = "about"
      <4>1. Ready(cur) /\ UNCHANGED engineVars
        BY <2>2, <3>1, <3>2 DEF ClearAndGoOn, Proceed
      <4>2. CASE cur = 1
        BY <1>0, <2>2, <3>1, <3>2, <4>1, <4>2 DEF ClearAndGoOn, Ready
      <4>3. CASE cur = 2
        BY <1>0, <2>2, <3>1, <3>2, <4>1, <4>3 DEF ClearAndGoOn, Ready
      <4> QED
        BY <4>2, <4>3
    <3>3. CASE talk = "start"
      BY <1>0, <2>2, <3>1, <3>3 DEF ClearAndGoOn, Proceed
    <3>4. CASE talk \in {"move", "stop"}
      BY <1>0, <2>2, <3>1, <3>4 DEF ClearAndGoOn, Proceed, GameOver, Other
    <3> QED
      BY <2>2, <3>2, <3>3, <3>4
  <2>3. CASE talk # "exit" /\ got # "answer"
    BY <1>0, <1>13, <2>3 DEF DeadlineClear, ClearAndGoOn, Blame, GameOver
  <2> QED
    BY <2>1, <2>2, <2>3
<1> QED
  BY <1>1, <1>2, <1>3, <1>4, <1>5, <1>6, <1>7,
     <1>8, <1>9, <1>10, <1>11, <1>12, <1>13 DEF WorkerStep

(***************************************************************************)
(* The steps of the main thread, of the engines and of the clock.          *)
(***************************************************************************)
OtherStep ==
  \/ MainStep \/ MainLeavesLoop \/ TimePasses
  \/ \E e \in Engine :
       EngineMessage(e) \/ EngineAnswer(e) \/ EngineExits(e) \/ EngineCrashes(e)

\* They keep the types.
LEMMA OtherTypes ==
  ASSUME TypeOK, OtherStep
  PROVE  TypeOK'
<1> USE DEF TypeOK, EngineTypeOK, ThreadTypeOK, ForcePlaces, Engine, Dialogs,
            engineVars, childVars, deadlineVars, workerVars, historyVars
<1>1. CASE MainStep
  <2>1. UNCHANGED setting
    BY <1>1 DEF MainStep
  <2>2. CASE MainPoll
    BY <2>1, <2>2 DEF MainPoll
  <2>3. CASE CallbackOnce
    <3>1. dl' \in [set : BOOLEAN, called : BOOLEAN, engine : Engine, callback : BOOLEAN]
      <4>1. [dl EXCEPT !.called = TRUE]
              \in [set : BOOLEAN, called : BOOLEAN, engine : Engine, callback : BOOLEAN]
        OBVIOUS
      <4> QED
        BY <2>3, <4>1 DEF CallbackOnce
    <3>2. mtx' \in {"free", "main"} /\ main' \in {"poll", "kill"}
      BY <2>3 DEF CallbackOnce
    <3> QED
      BY <2>1, <2>3, <3>1, <3>2 DEF CallbackOnce
  <2>4. CASE ForceTerminate
    BY <2>1, <2>4 DEF ForceTerminate
  <2>5. CASE ForceCloseIn
    BY <2>1, <2>5 DEF ForceCloseIn
  <2>6. CASE ForceCloseOut
    BY <2>1, <2>6 DEF ForceCloseOut
  <2>7. CASE ForceReset
    BY <2>1, <2>7 DEF ForceReset
  <2> QED
    BY <1>1, <2>2, <2>3, <2>4, <2>5, <2>6, <2>7 DEF MainStep
<1>2. CASE MainLeavesLoop
  BY <1>2 DEF MainLeavesLoop
<1>4. CASE TimePasses
  <2>1. late' \in [Engine -> BOOLEAN] /\ passed' \in BOOLEAN
    BY <1>4 DEF TimePasses
  <2> QED
    BY <1>4, <2>1 DEF TimePasses
<1>3. ASSUME NEW e \in Engine,
             EngineMessage(e) \/ EngineAnswer(e) \/ EngineExits(e) \/ EngineCrashes(e)
      PROVE  TypeOK'
  BY <1>3 DEF EngineMessage, EngineAnswer, EngineExits, EngineCrashes
<1> QED
  BY <1>1, <1>2, <1>3, <1>4 DEF OtherStep

(***************************************************************************)
(* They keep the rest: the main thread touches only the engine that the    *)
(* worker talks to, in a dialog whose deadline has a callback.             *)
(***************************************************************************)
LEMMA OtherKeepsRunningInv ==
  ASSUME TypeOK, RunningInv, OtherStep
  PROVE  RunningInv'
<1> USE DEF TypeOK, EngineTypeOK, ThreadTypeOK, Engine, Dialogs, Running, FatalError,
            engineVars, childVars, deadlineVars, workerVars, historyVars
<1> USE DEF RunningInv, DeadlineCoversDialog, Waiting, CallbackInDialog, ForcePlaces,
            EngineStates, Untouched, Consistent, GoneByItself, EnginesStarted, InGame,
            Preparing, FailureHasAReason
<1>1. CASE MainPoll /\ UNCHANGED setting
  BY <1>1 DEF MainPoll
<1>2. CASE CallbackOnce /\ UNCHANGED setting
  <2>1. DeadlineCoversDialog'
    BY <1>2 DEF CallbackOnce
  <2>2. CallbackInDialog'
    BY <1>2 DEF CallbackOnce
  <2>3. EngineStates'
    BY <1>2 DEF CallbackOnce
  <2>4. EnginesStarted'
    BY <1>2 DEF CallbackOnce
  <2>5. FailureHasAReason'
    BY <1>2 DEF CallbackOnce
  <2> QED
    BY <2>1, <2>2, <2>3, <2>4, <2>5
<1>3. CASE ForceTerminate /\ UNCHANGED setting
  BY <1>3 DEF ForceTerminate
<1>4. CASE ForceCloseIn /\ UNCHANGED setting
  BY <1>4 DEF ForceCloseIn
<1>5. CASE ForceCloseOut /\ UNCHANGED setting
  BY <1>5 DEF ForceCloseOut
<1>6. CASE ForceReset /\ UNCHANGED setting
  <2>1. DeadlineCoversDialog'
    BY <1>6 DEF ForceReset
  <2>2. CallbackInDialog'
    BY <1>6 DEF ForceReset
  <2>3. EngineStates'
    BY <1>6 DEF ForceReset
  <2>4. EnginesStarted'
    BY <1>6 DEF ForceReset
  <2>5. FailureHasAReason'
    BY <1>6 DEF ForceReset
  <2> QED
    BY <2>1, <2>2, <2>3, <2>4, <2>5
<1>7. CASE MainLeavesLoop \/ TimePasses
  BY <1>7 DEF MainLeavesLoop, TimePasses
<1>8. ASSUME NEW e \in Engine, EngineMessage(e) PROVE RunningInv'
  BY <1>8 DEF EngineMessage
<1>9. ASSUME NEW e \in Engine, EngineAnswer(e) PROVE RunningInv'
  BY <1>9 DEF EngineAnswer
<1>10. ASSUME NEW e \in Engine, EngineExits(e) PROVE RunningInv'
  BY <1>10 DEF EngineExits
<1>11. ASSUME NEW e \in Engine, EngineCrashes(e) PROVE RunningInv'
  <2>1. DeadlineCoversDialog'
    BY <1>11 DEF EngineCrashes
  <2>2. CallbackInDialog'
    BY <1>11 DEF EngineCrashes
  <2>3. EngineStates'
    BY <1>11 DEF EngineCrashes
  <2>4. EnginesStarted'
    BY <1>11 DEF EngineCrashes
  <2>5. FailureHasAReason'
    BY <1>11 DEF EngineCrashes
  <2> QED
    BY <2>1, <2>2, <2>3, <2>4, <2>5
<1> QED
  BY <1>1, <1>2, <1>3, <1>4, <1>5, <1>6, <1>7, <1>8, <1>9, <1>10, <1>11
     DEF OtherStep, MainStep

(***************************************************************************)
(* The program ends by itself only in a dialog, which is not "exit", for   *)
(* want of an answer: the streams were closed, by whoever ended the        *)
(* engine, or the answer was ERROR.                                        *)
(***************************************************************************)
LEMMA DyingHasACause ==
  ASSUME TypeOK, RunningInv, ClearAndGoOn, mtx = "free",
         talk # "exit", got # "answer"
  PROVE  fate[cur] \in {"died", "killed"} \/ got = "error"
<1>1. CASE got = "failed"
  <2>1. inp[cur] = "null" /\ cur \in Engine
    BY <1>1 DEF ClearAndGoOn, At, RunningInv, FailureHasAReason, TypeOK, ThreadTypeOK
  <2>2. CASE pid[cur]
    BY <2>1, <2>2 DEF RunningInv, EngineStates, Untouched
  <2>3. CASE ~pid[cur]
    BY <2>1, <2>3
       DEF RunningInv, EnginesStarted, InGame, Preparing, Untouched, ClearAndGoOn, At
  <2> QED
    BY <2>2, <2>3
<1> QED
  BY <1>1 DEF ClearAndGoOn, At, RunningInv, FailureHasAReason, TypeOK, ThreadTypeOK

(***************************************************************************)
(* IInv is inductive.  Once the program has ended nothing changes.         *)
(***************************************************************************)
LEMMA InitIInv == Init => IInv
<1> SUFFICES ASSUME Init PROVE IInv
  OBVIOUS
<1> USE DEF Init, Engine
<1>1. EngineTypeOK
  BY DEF EngineTypeOK
<1>2. ThreadTypeOK
  <2>1. dl \in [set : BOOLEAN, called : BOOLEAN, engine : Engine, callback : BOOLEAN]
    BY DEF NoDeadline
  <2>2. passed \in BOOLEAN /\ quit \in BOOLEAN
    OBVIOUS
  <2>3. talk \in Dialogs /\ pc \in WorkerPlaces
    BY DEF WorkerPlaces, Dialogs
  <2> QED
    BY <2>1, <2>2, <2>3 DEF ThreadTypeOK
<1>3. RunningInv /\ DiesForACause
  BY DEF RunningInv, DeadlineCoversDialog, Waiting, CallbackInDialog, ForcePlaces,
         EngineStates, Untouched, Consistent, EnginesStarted, InGame, Preparing,
         FailureHasAReason, DiesForACause, NoDeadline
<1> QED
  BY <1>1, <1>2, <1>3 DEF IInv, TypeOK

\* A step is one of these, and nothing happens in a program that has ended.
LEMMA StepCases ==
  ASSUME [Next]_vars
  PROVE  (Running /\ WorkerStep) \/ (Running /\ OtherStep) \/ UNCHANGED vars
BY DEF Next, OtherStep, Terminated, WorkerStep, MainStep, At, Running,
       KeepEngine, TerminateEngine, QueueEmpty, SpawnOrQuit, DeadlineSet, Writeln,
       ReadlnEnter, ReadlnLine, ReadlnEof, WaitCallbackDone, CloseCrashed, Waitpid,
       DeadlineClear, ClearAndGoOn, MainPoll, CallbackOnce, ForceTerminate,
       ForceCloseIn, ForceCloseOut, ForceReset, MainLeavesLoop, TimePasses,
       EngineMessage, EngineAnswer, EngineExits, EngineCrashes

LEMMA NextIInv == IInv /\ [Next]_vars => IInv'
<1> SUFFICES ASSUME IInv, [Next]_vars PROVE IInv'
  OBVIOUS
<1> USE DEF IInv
<1>1. CASE Running /\ WorkerStep
  <2>1. TypeOK'
    BY <1>1, WorkerTypes
  <2>2. Running' => RunningInv'
    BY <1>1, WorkerKeepsRunningInv
  <2>3. DiesForACause'
    <3>1. CASE DeadlineClear /\ proc' = "died"
      <4>1. /\ talk # "exit" /\ got # "answer" /\ mtx = "free" /\ ClearAndGoOn
            /\ cur' = cur /\ fate' = fate /\ got' = got
        BY <1>1, <3>1 DEF DeadlineClear, ClearAndGoOn, historyVars, Running
      <4> QED
        BY <1>1, <4>1, DyingHasACause DEF DiesForACause
    <3>2. CASE ~(DeadlineClear /\ proc' = "died")
      <4>1. proc' # "died"
        BY <1>1, <3>2
           DEF WorkerStep, KeepEngine, TerminateEngine, QueueEmpty, SpawnOrQuit,
               DeadlineSet, Writeln, ReadlnEnter, ReadlnLine, ReadlnEof,
               WaitCallbackDone, CloseCrashed, Waitpid, Undefined, Running
      <4> QED
        BY <4>1 DEF DiesForACause
    <3> QED
      BY <3>1, <3>2
  <2> QED
    BY <2>1, <2>2, <2>3
<1>2. CASE Running /\ OtherStep
  <2>1. TypeOK' /\ RunningInv'
    BY <1>2, OtherTypes, OtherKeepsRunningInv
  <2>2. proc' = proc
    BY <1>2 DEF OtherStep, MainStep, MainPoll, CallbackOnce, ForceTerminate,
                ForceCloseIn, ForceCloseOut, ForceReset, MainLeavesLoop, TimePasses,
                EngineMessage, EngineAnswer, EngineExits, EngineCrashes
  <2> QED
    BY <1>2, <2>1, <2>2 DEF DiesForACause, Running
<1>3. CASE UNCHANGED vars
  BY <1>3 DEF vars, engineVars, childVars, deadlineVars, workerVars, historyVars,
              TypeOK, EngineTypeOK, ThreadTypeOK, Running, FatalError,
              RunningInv, DeadlineCoversDialog, Waiting, CallbackInDialog,
              EngineStates, Untouched, Consistent, GoneByItself, EnginesStarted, InGame,
              Preparing, FailureHasAReason, DiesForACause
<1> QED
  BY <1>1, <1>2, <1>3, StepCases

(***************************************************************************)
(* IInv holds throughout every run, for every set of settings.             *)
(***************************************************************************)
THEOREM Invariance == Spec => []IInv
<1>1. Init => IInv
  BY InitIInv
<1>2. IInv /\ [Next]_vars => IInv'
  BY NextIInv
<1> QED
  BY <1>1, <1>2, PTL DEF Spec

(***************************************************************************)
(* The callback of a deadline terminates the engine of the dialog in which *)
(* the worker is, never one that has already answered to another dialog.   *)
(***************************************************************************)
THEOREM RightEngineTerminated == Spec => []TerminatesTheEngineTalkedTo
<1>1. IInv => TerminatesTheEngineTalkedTo
  BY DEF IInv, TypeOK, ThreadTypeOK, RunningInv, DeadlineCoversDialog, Waiting,
         CallbackInDialog, TerminatesTheEngineTalkedTo
<1> QED
  BY <1>1, Invariance, PTL

(***************************************************************************)
(* Outside of a callback no engine has a closed stream, or one stream      *)
(* only, or streams without a process.                                     *)
(***************************************************************************)
THEOREM StreamsStayConsistent == Spec => []StreamsConsistent
<1>1. IInv => StreamsConsistent
  BY DEF IInv, RunningInv, EngineStates, Untouched, Consistent, StreamsConsistent
<1> QED
  BY <1>1, Invariance, PTL

(***************************************************************************)
(* The main thread that waits for the lock of a stream waits for a reader  *)
(* that gets a line or the end of the pipe: no deadlock.                   *)
(***************************************************************************)
THEOREM NoStreamDeadlock == Spec => []ReaderReleasesStream
<1>1. IInv => ReaderReleasesStream
  BY DEF IInv, RunningInv, CallbackInDialog, ReaderReleasesStream
<1> QED
  BY <1>1, Invariance, PTL

(***************************************************************************)
(* The program ends by itself only if an engine failed it.                 *)
(***************************************************************************)
THEOREM DeathHasACause == Spec => []DiesForACause
<1>1. IInv => DiesForACause
  BY DEF IInv
<1> QED
  BY <1>1, Invariance, PTL

(***************************************************************************)
(* "crashed" is the verdict on an engine that ended by itself, "timeout"   *)
(* on one that the main thread terminated.                                 *)
(***************************************************************************)
THEOREM VerdictsAreRight == Spec => VerdictHasItsCause
<1> DEFINE Right == verdict' # verdict =>
                      /\ verdict' = "crashed" => fate[cur] = "died"
                      /\ verdict' = "timeout" => fate[cur] = "killed"
<1>1. IInv /\ [Next]_vars => [Right]_vars
  <2> SUFFICES ASSUME IInv, [Next]_vars PROVE Right
    OBVIOUS
  <2>1. CASE Running /\ WorkerStep
    <3>1. CASE DeadlineClear /\ verdict' \in {"crashed", "timeout"} /\ verdict' # verdict
      <4>1. /\ talk # "exit" /\ got # "answer" /\ mtx = "free" /\ pc = "clear"
            /\ verdict' = IF IsCrashed(cur) THEN "crashed"
                          ELSE IF got = "error" THEN "error" ELSE "timeout"
        BY <3>1 DEF DeadlineClear, ClearAndGoOn, Proceed, Ready, Blame, GameOver, At
      <4>2. /\ cur \in Engine
            /\ inp[cur] = outp[cur] /\ (~pid[cur] => inp[cur] = "null")
            /\ pid[cur] /\ inp[cur] = "null" => fate[cur] = "died"
        BY <2>1, <4>1 DEF IInv, TypeOK, ThreadTypeOK, RunningInv, EngineStates, Untouched,
                     Consistent
      <4>3. got = "failed" => inp[cur] = "null"
        BY <2>1, <4>1 DEF IInv, RunningInv, FailureHasAReason
      <4>4. got \in {"failed", "error"}
        BY <2>1, <4>1 DEF IInv, TypeOK, ThreadTypeOK, RunningInv, FailureHasAReason
      <4>5. CASE IsCrashed(cur)
        BY <4>1, <4>2, <4>5 DEF IsCrashed
      <4>6. CASE ~IsCrashed(cur)
        <5>1. got = "failed" => ~pid[cur]
          BY <4>2, <4>3, <4>6 DEF IsCrashed
        <5>2. ~pid[cur] => fate[cur] = "killed"
          BY <2>1, <4>1, <4>2
             DEF IInv, RunningInv, EnginesStarted, InGame, Preparing, Untouched
        <5> QED
          BY <4>1, <4>4, <4>6, <5>1, <5>2
      <4> QED
        BY <4>5, <4>6
    <3>2. CASE ~DeadlineClear
      BY <2>1, <3>2
         DEF WorkerStep, KeepEngine, TerminateEngine, QueueEmpty, SpawnOrQuit,
             DeadlineSet, Writeln, ReadlnEnter, ReadlnLine, ReadlnEof,
             WaitCallbackDone, CloseCrashed, Waitpid
    <3> QED
      BY <3>1, <3>2
  <2>2. CASE (Running /\ OtherStep) \/ UNCHANGED vars
    BY <2>2 DEF OtherStep, MainStep, MainPoll, CallbackOnce, ForceTerminate,
                ForceCloseIn, ForceCloseOut, ForceReset, MainLeavesLoop, TimePasses,
                EngineMessage, EngineAnswer, EngineExits, EngineCrashes, workerVars, vars
  <2> QED
    BY <2>1, <2>2, StepCases
<1> QED
  BY <1>1, Invariance, PTL DEF Spec, VerdictHasItsCause
=============================================================================
