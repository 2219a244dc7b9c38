---------------------------- MODULE LogStreaming ----------------------------
(***************************************************************************)
(* Streaming of the journal: the start and stop commands, which keep the    *)
(* session in a file, and the tailer, a goroutine that reads the journal,   *)
(* uploads it in batches and keeps the cursor in another file.  The tailer  *)
(* that runs is known by managerCancel.  A restart of the program starts a  *)
(* tailer again from the files.                                             *)
(*                                                                          *)
(* A line of the journal is its number.  The files can be written, the      *)
(* machine is not rebooted and the journal does not lose the cursor: then   *)
(* the tailer starts at the head of the current boot.  The retries of one   *)
(* upload are one step, as nothing else is done between them; and the       *)
(* commands run one at a time, so that each is one step, whose parts are    *)
(* disturbed by no step of a tailer that could not come before it or after. *)
(***************************************************************************)
EXTENDS Integers, FiniteSets

CONSTANTS
  Absent,
  Sessions,  \* what a start command may ask for: address and credentials
  Tailers,   \* the goroutines, which are used again
  MaxLines   \* a bound on the journal

ASSUME LogStreamingAssumption ==
  /\ Absent \notin Sessions \cup Tailers
  /\ MaxLines \in Nat

VARIABLES
  lines,          \* the length of the journal (external)
  session,        \* journal-upload.session.json
  cursor,         \* journal-upload.cursor
  managerCancel,  \* the tailer it cancels
  rearm,          \* main has not yet looked for a session
  tailers,        \* what the goroutines do
  uploaded        \* the lines the server has (external)

streamingVars == <<lines, session, cursor, managerCancel, rearm, tailers, uploaded>>
files == <<session, cursor>>

Lines == 1..MaxLines

\* Reading comes back to the loop; a tailer that is done has still to tell.
Stages == {"free", "spawned", "reading", "recording", "clearing", "done"}

\* Buffered are the lines after sent and up to read.
TailerStates ==
  [at: Stages, session: Sessions \cup {Absent}, cancelled: BOOLEAN,
   sent: 0..MaxLines, read: 0..MaxLines]

Free == [at |-> "free", session |-> Absent, cancelled |-> FALSE, sent |-> 0, read |-> 0]

StreamingTypeOK ==
  /\ lines \in 0..MaxLines
  /\ session \in Sessions \cup {Absent}
  /\ cursor \in Lines \cup {Absent}
  /\ managerCancel \in Tailers \cup {Absent}
  /\ rearm \in BOOLEAN
  /\ tailers \in [Tailers -> TailerStates]
  /\ \A t \in Tailers : tailers[t].sent <= tailers[t].read /\ tailers[t].read <= lines
  /\ uploaded \subseteq Lines

At(t, stage) == tailers[t].at = stage
Running(t) == ~At(t, "free")
Active(t) == Running(t) /\ ~tailers[t].cancelled

Goes(t, state) == tailers' = [tailers EXCEPT ![t] = state]
Enters(t, stage) == tailers' = [tailers EXCEPT ![t].at = stage]

-----------------------------------------------------------------------------
(* The commands *)

\* StartManager, unless one is known to run.
StartManager ==
  IF managerCancel # Absent
  THEN UNCHANGED <<managerCancel, tailers>>
  ELSE \E t \in Tailers :
         /\ At(t, "free")
         /\ managerCancel' = t
         /\ Goes(t, [Free EXCEPT !.at = "spawned"])

\* HandleStartLogUploadCommand: a tailer that runs goes on with the session it
\* has read.
StartLogUpload ==
  /\ session' \in Sessions
  /\ cursor' = Absent
  /\ StartManager
  /\ UNCHANGED <<lines, rearm, uploaded>>

\* HandleStopLogUploadCommand
StopLogUpload ==
  /\ session' = Absent /\ cursor' = Absent
  /\ managerCancel' = Absent
  /\ tailers' = [t \in Tailers |->
       IF t = managerCancel THEN [tailers[t] EXCEPT !.cancelled = TRUE] ELSE tailers[t]]
  /\ UNCHANGED <<lines, rearm, uploaded>>

\* The goroutine ends: whatever is the tailer by then, it is forgotten.
End(t) ==
  /\ At(t, "done")
  /\ Goes(t, Free)
  /\ managerCancel' = Absent
  /\ UNCHANGED <<lines, files, rearm, uploaded>>

\* The program stops, or crashes, and is started again.
Restart ==
  /\ tailers' = [t \in Tailers |-> Free]
  /\ managerCancel' = Absent
  /\ rearm' = TRUE
  /\ UNCHANGED <<lines, files, uploaded>>

\* Main looks for a session of an earlier run.
Rearm ==
  /\ rearm /\ rearm' = FALSE
  /\ IF session = Absent
       THEN UNCHANGED <<managerCancel, tailers>>
       ELSE StartManager
  /\ UNCHANGED <<lines, files, uploaded>>

-----------------------------------------------------------------------------
(* Manager.Run *)

\* It goes on after the cursor, or starts at the head of the journal.
Begin(t) ==
  /\ At(t, "spawned")
  /\ LET start == IF cursor = Absent THEN 0 ELSE cursor
     IN IF session = Absent
        THEN Enters(t, "done")
        ELSE Goes(t, [tailers[t] EXCEPT !.at = "reading", !.session = session,
                                        !.sent = start, !.read = start])
  /\ UNCHANGED <<lines, files, managerCancel, rearm, uploaded>>

ReadLine(t) ==
  /\ At(t, "reading") /\ ~tailers[t].cancelled /\ tailers[t].read < lines
  /\ tailers' = [tailers EXCEPT ![t].read = @ + 1]
  /\ UNCHANGED <<lines, files, managerCancel, rearm, uploaded>>

Buffer(t) == tailers[t].sent + 1 .. tailers[t].read

\* Mutant: a batch is uploaded when it is full, and not when its time has come.
DueWhenFull(t) == Cardinality(Buffer(t)) = MaxLines

\* The batch is full, or FlushEvery has passed since the last one.
Due(t) == Buffer(t) # {}

CanUpload(t) == At(t, "reading") /\ ~tailers[t].cancelled /\ Due(t)

Upload(t) ==
  /\ CanUpload(t)
  /\ uploaded' = uploaded \cup Buffer(t)
  /\ Enters(t, "recording")
  /\ UNCHANGED <<lines, files, managerCancel, rearm>>

\* Mutant: the buffer is reset whether or not the upload succeeded.
Dropped(tailer) == [tailer EXCEPT !.sent = tailer.read]

\* The buffer keeps its lines, and the next ones are added.
Kept(tailer) == tailer

\* An upload fails, or its answer is lost.
UploadFails(t) ==
  /\ CanUpload(t)
  /\ uploaded' \in {uploaded, uploaded \cup Buffer(t)}
  /\ Goes(t, Kept(tailers[t]))
  /\ UNCHANGED <<lines, files, managerCancel, rearm>>

\* 401
UploadRefused(t) ==
  /\ CanUpload(t)
  /\ Enters(t, "clearing")
  /\ UNCHANGED <<lines, files, managerCancel, rearm, uploaded>>

\* Whatever session the files are of by then.
WriteCursor(t) ==
  /\ At(t, "recording")
  /\ cursor' = tailers[t].read
  /\ Goes(t, [tailers[t] EXCEPT !.at = "reading", !.sent = tailers[t].read])
  /\ UNCHANGED <<lines, session, managerCancel, rearm, uploaded>>

ClearRefused(t) ==
  /\ At(t, "clearing")
  /\ session' = Absent /\ cursor' = Absent
  /\ Enters(t, "done")
  /\ UNCHANGED <<lines, managerCancel, rearm, uploaded>>

\* Mutant: it stops only when everything has been uploaded.
FlushesFirst(t) == tailers[t].cancelled /\ Buffer(t) = {}

\* The upload of what is left fails, as the context is cancelled.
Done(t) == tailers[t].cancelled

Leave(t) ==
  /\ At(t, "reading") /\ Done(t)
  /\ Enters(t, "done")
  /\ UNCHANGED <<lines, files, managerCancel, rearm, uploaded>>

\* Journalctl ends: so does the tailer, and nobody starts another.
ReaderEnds(t) ==
  /\ At(t, "reading") /\ ~tailers[t].cancelled
  /\ Enters(t, "done")
  /\ UNCHANGED <<lines, files, managerCancel, rearm, uploaded>>

\* A line is written (external).
Log ==
  /\ lines < MaxLines
  /\ lines' = lines + 1
  /\ UNCHANGED <<files, managerCancel, rearm, tailers, uploaded>>

-----------------------------------------------------------------------------
StreamingInit ==
  /\ lines = 0
  /\ session \in Sessions \cup {Absent} /\ cursor = Absent
  /\ managerCancel = Absent /\ rearm = TRUE
  /\ tailers = [t \in Tailers |-> Free]
  /\ uploaded = {}

StreamingNext ==
  \/ StartLogUpload \/ StopLogUpload \/ Restart \/ Rearm \/ Log
  \/ \E t \in Tailers :
       \/ Begin(t) \/ ReadLine(t) \/ Upload(t) \/ UploadFails(t) \/ UploadRefused(t)
       \/ WriteCursor(t) \/ ClearRefused(t) \/ Leave(t) \/ ReaderEnds(t) \/ End(t)

\* Goroutines run; an upload that is tried again and again succeeds at last.
StreamingFairness ==
  \A t \in Tailers :
    /\ WF_streamingVars(Begin(t) \/ ReadLine(t) \/ WriteCursor(t) \/ ClearRefused(t))
    /\ WF_streamingVars(Leave(t) \/ End(t))
    /\ SF_streamingVars(Upload(t))

StreamingSpec == StreamingInit /\ [][StreamingNext]_streamingVars /\ StreamingFairness

-----------------------------------------------------------------------------
(* Properties *)

\* No line is passed over without the server having it, however starts, stops,
\* failed uploads and restarts follow one another and whichever tailer writes
\* the cursor last: what comes before the cursor, and before the buffer of a
\* tailer, has been uploaded.
NothingSkipped ==
  /\ cursor # Absent => 1..cursor \subseteq uploaded
  /\ \A t \in Tailers : 1..tailers[t].sent \subseteq uploaded

\* A tailer that was cancelled ends, also when an upload is under way and the
\* server never answers again.
CancelledEnds == \A t \in Tailers : tailers[t].cancelled ~> At(t, "free")

\* A line of the journal is uploaded, unless the tailer comes to its end first.
UploadsCatchUp ==
  \A t \in Tailers, n \in Lines :
    (Active(t) /\ n <= lines) ~> (n \in uploaded \/ ~Active(t))

\* "HandleStopLogUploadCommand stops the tailer": after it none runs that is
\* not cancelled.
StopStops == [][StopLogUpload => \A t \in Tailers : ~Active(t)']_streamingVars
=============================================================================
