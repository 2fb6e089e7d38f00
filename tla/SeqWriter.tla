----------------------------- MODULE SeqWriter -----------------------------
(***************************************************************************)
(* One SeqWriter (seqwriter.cpp) that the workers push to in any order:    *)
(* the mutex, the loop that hands one record after the other to stdio, the *)
(* flush, the destructor that main_destroy runs, and _Exit in the SIGINT   *)
(* handler (main.cpp) at any moment.                                       *)
(***************************************************************************)
EXTENDS SeqBuffer

CONSTANTS Games,    \* number of games in the tournament
          Unsaved   \* the games that -loseonly does not save

ASSUME GamesAssumption == Games \in Nat /\ Unsaved \subseteq 0 .. Games - 1

Saved == (0 .. Games - 1) \ Unsaved

VARIABLES buf, idxNext,  \* SeqWriter::buf, SeqWriter::idxNext
          todo,     \* write_to_i: records left to fputs, -1 when nobody is in it
          count,    \* write_to_i: its argument i
          stdio,    \* what fputs took since the last flush
          file,     \* what the operating system has
          given,    \* the records pushed so far
          state     \* "open", "closing" in the destructor, "closed", "lost"

vars == <<buf, idxNext, todo, count, stdio, file, given, state>>

Init ==
  /\ buf = <<>> /\ idxNext = 0
  /\ todo = -1 /\ count = 0
  /\ stdio = <<>> /\ file = <<>>
  /\ given = {} /\ state = "open"

\* Nobody holds SeqWriter::mtx: a push that writes nothing is one step.
Unlocked == todo = -1

\* push(idx) up to its call of write_to_i
PushRecord(idx) ==
  /\ state = "open" /\ Unlocked
  /\ idx \notin given
  /\ given' = given \cup {idx}
  /\ buf' = InsertSorted(buf, idx)
  /\ LET i == Chunk(buf', idxNext)
     IN  count' = i /\ todo' = IF i = 0 THEN -1 ELSE i
  /\ UNCHANGED <<idxNext, stdio, file, state>>

\* fputs(buf[j].str.c_str(), out)
Fputs ==
  /\ todo > 0
  /\ stdio' = Append(stdio, buf[count - todo + 1])
  /\ todo' = todo - 1
  /\ UNCHANGED <<buf, idxNext, count, file, given, state>>

\* A full stdio buffer is written at any time before the flush.
Spill ==
  /\ stdio # <<>>
  /\ file' = Append(file, Head(stdio))
  /\ stdio' = Tail(stdio)
  /\ UNCHANGED <<buf, idxNext, todo, count, given, state>>

\* Mutation: the next expected index is not updated.
FlushForgetsIndex ==
  /\ todo = 0 /\ state = "open"
  /\ file' = file \o stdio /\ stdio' = <<>>
  /\ buf' = SubSeq(buf, count + 1, Len(buf))
  /\ todo' = -1
  /\ UNCHANGED <<idxNext, count, given, state>>

\* fflush, erase, idxNext += i, and the unlock at the end of push
Flush ==
  /\ todo = 0 /\ state = "open"
  /\ file' = file \o stdio /\ stdio' = <<>>
  /\ buf' = SubSeq(buf, count + 1, Len(buf))
  /\ idxNext' = idxNext + count
  /\ todo' = -1
  /\ UNCHANGED <<count, given, state>>

\* Mutation: the destructor only closes the file.
DestroyWritesNothing ==
  /\ state = "open" /\ Unlocked
  /\ state' = "closing"
  /\ count' = 0 /\ todo' = 0
  /\ UNCHANGED <<buf, idxNext, stdio, file, given>>

\* ~SeqWriter, called when the workers were joined, perhaps early (-sprt)
Destroy ==
  /\ state = "open" /\ Unlocked
  /\ state' = "closing"
  /\ count' = Len(buf) /\ todo' = Len(buf)
  /\ UNCHANGED <<buf, idxNext, stdio, file, given>>

\* The last flush of the destructor, and fclose
Destroyed ==
  /\ state = "closing" /\ todo = 0
  /\ file' = file \o stdio /\ stdio' = <<>>
  /\ buf' = <<>> /\ idxNext' = idxNext + count
  /\ todo' = -1
  /\ state' = "closed"
  /\ UNCHANGED <<count, given>>

\* _Exit in signal_handler: neither the destructor nor a flush
Interrupt ==
  /\ state \in {"open", "closing"}
  /\ state' = "lost"
  /\ stdio' = <<>> /\ todo' = -1
  /\ UNCHANGED <<buf, idxNext, count, file, given>>

Done == state \in {"closed", "lost"} /\ UNCHANGED vars

Write == Fputs \/ Spill \/ Flush \/ Destroyed

Next ==
  \/ \E idx \in Saved : PushRecord(idx)
  \/ Write \/ Destroy \/ Interrupt \/ Done

(***************************************************************************)
(* A thread that is in write_to_i goes on: it only waits for the disk.     *)
(***************************************************************************)
Fairness == WF_vars(Fputs) /\ WF_vars(Flush) /\ WF_vars(Destroyed)

Spec == Init /\ [][Next]_vars

FairSpec == Spec /\ Fairness

-----------------------------------------------------------------------------
(***************************************************************************)
(* Every record pushed is in exactly one place, the buffer or the file, as *)
(* long as the process lives, wherever a writing thread is interrupted.    *)
(***************************************************************************)
NothingLostNorDoubled ==
  (Unlocked /\ state # "lost") =>
    /\ Len(buf) + Len(file) = Cardinality(given)
    /\ ToSet(buf) \cup ToSet(file) = given

(***************************************************************************)
(* A record does not wait for a later one: when all games up to idx were   *)
(* pushed, idx gets to the operating system (or the process is killed).    *)
(***************************************************************************)
ReadyRecordsAreWritten ==
  \A idx \in Saved :
    (0 .. idx \subseteq given) ~> (idx \in ToSet(file) \/ state = "lost")

Log == INSTANCE OrderedLog WITH Record <- Saved, log <- file

(***************************************************************************)
(* SeqWriter implements OrderedLog: whatever the order of the pushes, the  *)
(* file is a function of the set of records, in the order of the games.    *)
(***************************************************************************)
ImplementsOrderedLog == Log!Spec
=============================================================================
