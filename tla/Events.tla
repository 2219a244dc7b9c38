------------------------------- MODULE Events -------------------------------
(***************************************************************************)
(* The path of a detected event to the server: Detector.sendEvent           *)
(* (internal/events/detector.go) publishes it or puts it into the Buffer    *)
(* (internal/events/buffer.go), which is saved to disk at every change and  *)
(* emptied by Flush.                                                        *)
(*                                                                          *)
(* Each detected event is handled by a goroutine of the bus or of the fault *)
(* stream, each flush runs in a goroutine of its own, and one mutex guards  *)
(* the buffer: a step of this module is one critical section, one call of   *)
(* the MQTT client, or one test.                                            *)
(*                                                                          *)
(* A publish that fails may still have reached the server.  The buffer only *)
(* knows acknowledged publishes, so those are what is counted here.         *)
(***************************************************************************)
EXTENDS Integers, Sequences, SequencesExt

CONSTANTS
  Occurrences,     \* the events that are detected, each once
  Flushers,        \* the goroutines that may be flushing at the same time (a bound)
  MaxRetries,      \* config.Events.MaxRetries
  MaxCrashes,      \* a bound on crashes of the process
  MaxSaveFailures  \* a bound on failures of writeSnapshot

ASSUME EventsAssumption ==
  /\ MaxRetries \in Nat \ {0}
  /\ MaxCrashes \in Nat
  /\ MaxSaveFailures \in Nat

VARIABLES
  connected,       \* IsConnectionOpen of the MQTT client
  handler,         \* where sendEvent is with each event
  events,          \* Buffer.events
  flushing,        \* Buffer.flushing
  flushRequested,  \* Buffer.flushRequested
  snapshot,        \* the file at Buffer.path
  flusher,         \* where each flush is
  batch,           \* flushBatch's copy of the buffer
  position,        \* the entry of batch it sends next
  failed,          \* the entries of batch that could not be sent
  acked,           \* history: acknowledged publishes of each event
  failures,        \* history: failed attempts to send it from the buffer, up to MaxRetries
  unsaved,         \* history: the last writeSnapshot failed
  lost,            \* history: events that only a crashed process knew
  crashes, saveFailures

bufferVars == <<events, flushing, flushRequested, snapshot>>
flushVars == <<flusher, batch, position, failed>>
faultVars == <<unsaved, saveFailures>>
historyVars == <<acked, failures, lost, crashes>>
vars == <<connected, handler, bufferVars, flushVars, faultVars, historyVars>>

BufferedEvent == [event: Occurrences, retries: 0..MaxRetries]

TypeOK ==
  /\ connected \in BOOLEAN
  /\ handler \in [Occurrences -> {"undetected", "publish", "add", "done"}]
  /\ events \in Seq(BufferedEvent)
  /\ flushing \in BOOLEAN
  /\ flushRequested \in BOOLEAN
  /\ snapshot \in Seq(BufferedEvent)
  /\ flusher \in [Flushers -> {"idle", "spawned", "flush", "copy", "send", "next"}]
  /\ batch \in [Flushers -> Seq(BufferedEvent)]
  /\ position \in [Flushers -> Nat \ {0}]
  /\ failed \in [Flushers -> Seq(BufferedEvent)]
  /\ acked \in [Occurrences -> Nat]
  /\ failures \in [Occurrences -> 0..MaxRetries]
  /\ unsaved \in BOOLEAN
  /\ lost \in SUBSET Occurrences
  /\ crashes \in 0..MaxCrashes
  /\ saveFailures \in 0..MaxSaveFailures

\* The event is in the list of buffered entries.
Holds(list, e) == \E i \in DOMAIN list : list[i].event = e

-----------------------------------------------------------------------------
(* The buffer *)

\* persistToDisk: the new list replaces the file by a rename.  It may fail
\* before the rename, or after it when the directory is not synced; the
\* error is only logged.
Persist(list) ==
  \/ /\ snapshot' = list
     /\ unsaved' = FALSE
     /\ UNCHANGED saveFailures
  \/ /\ saveFailures < MaxSaveFailures
     /\ saveFailures' = saveFailures + 1
     /\ snapshot' \in {snapshot, list}
     /\ unsaved' = TRUE

\* Mutant: the newest entry is put in front.
AddInFront(e) == <<[event |-> e, retries |-> 0]>> \o events

\* Buffer.Add
Add(e) == Append(events, [event |-> e, retries |-> 0])

\* Mutant: the list that was copied is replaced, whatever was added to it.
RemainingCopied(f) == failed[f]

\* The end of flushBatch: what failed, and what was added meanwhile.
Remaining(f) ==
  failed[f] \o SubSeq(events, Len(batch[f]) + 1, Len(events))

-----------------------------------------------------------------------------
(* Detector.sendEvent *)

Detect(e) ==
  /\ handler[e] = "undetected"
  /\ handler' = [handler EXCEPT ![e] = IF connected THEN "publish" ELSE "add"]
  /\ UNCHANGED <<connected, bufferVars, flushVars, faultVars, historyVars>>

\* A live publish is acknowledged: a flush is started beside it.
PublishAcked(e) ==
  /\ handler[e] = "publish"
  /\ connected
  /\ handler' = [handler EXCEPT ![e] = "done"]
  /\ acked' = [acked EXCEPT ![e] = @ + 1]
  /\ \E f \in Flushers :
       /\ flusher[f] = "idle"
       /\ flusher' = [flusher EXCEPT ![f] = "spawned"]
  /\ UNCHANGED <<connected, bufferVars, batch, position, failed, faultVars,
                 failures, lost, crashes>>

PublishFails(e) ==
  /\ handler[e] = "publish"
  /\ handler' = [handler EXCEPT ![e] = "add"]
  /\ UNCHANGED <<connected, bufferVars, flushVars, faultVars, historyVars>>

AddEvent(e) ==
  /\ handler[e] = "add"
  /\ handler' = [handler EXCEPT ![e] = "done"]
  /\ events' = Add(e)
  /\ Persist(events')
  /\ UNCHANGED <<connected, flushing, flushRequested, flushVars, historyVars>>

-----------------------------------------------------------------------------
(* FlushBufferedEvents and Buffer.Flush *)

\* FlushBufferedEvents returns at once without a connection.
CheckConnected(f) ==
  /\ flusher[f] = "spawned"
  /\ flusher' = [flusher EXCEPT ![f] = IF connected THEN "flush" ELSE "idle"]
  /\ UNCHANGED <<connected, handler, bufferVars, batch, position, failed,
                 faultVars, historyVars>>

\* Mutant: concurrent flushes are not coalesced.
NeverCoalesces == FALSE

\* Whether this flush leaves its request to the one that is running.
Coalesces == flushing

EnterFlush(f) ==
  /\ flusher[f] = "flush"
  /\ flushRequested' = Coalesces
  /\ flushing' = TRUE
  /\ flusher' = [flusher EXCEPT ![f] = IF Coalesces THEN "idle" ELSE "copy"]
  /\ UNCHANGED <<connected, handler, events, snapshot, batch, position, failed,
                 faultVars, historyVars>>

CopyBatch(f) ==
  /\ flusher[f] = "copy"
  /\ flusher' = [flusher EXCEPT ![f] = IF events = <<>> THEN "next" ELSE "send"]
  /\ batch' = [batch EXCEPT ![f] = events]
  /\ position' = [position EXCEPT ![f] = 1]
  /\ failed' = [failed EXCEPT ![f] = <<>>]
  /\ UNCHANGED <<connected, handler, bufferVars, faultVars, historyVars>>

\* The entry that is sent next.
Current(f) == batch[f][position[f]]

MoreToSend(f) == flusher[f] = "send" /\ position[f] <= Len(batch[f])

\* Mutant: one retry more than is allowed.
ExhaustedLate(f) == Current(f).retries > MaxRetries

\* Mutant: one retry less than is allowed.
ExhaustedEarly(f) == Current(f).retries >= MaxRetries - 1

\* An entry that has used up its retries is dropped from the batch.
Exhausted(f) == Current(f).retries >= MaxRetries

Discard(f) ==
  /\ MoreToSend(f)
  /\ Exhausted(f)
  /\ position' = [position EXCEPT ![f] = @ + 1]
  /\ UNCHANGED <<connected, handler, bufferVars, flusher, batch, failed,
                 faultVars, historyVars>>

SendAcked(f) ==
  /\ MoreToSend(f)
  /\ ~Exhausted(f)
  /\ connected
  /\ acked' = [acked EXCEPT ![Current(f).event] = @ + 1]
  /\ position' = [position EXCEPT ![f] = @ + 1]
  /\ UNCHANGED <<connected, handler, bufferVars, flusher, batch, failed,
                 faultVars, failures, lost, crashes>>

SendFails(f) ==
  /\ MoreToSend(f)
  /\ ~Exhausted(f)
  /\ failed' = [failed EXCEPT ![f] =
                  Append(@, [Current(f) EXCEPT !.retries = @ + 1])]
  /\ failures' = [failures EXCEPT ![Current(f).event] =
                    IF @ < MaxRetries THEN @ + 1 ELSE @]
  /\ position' = [position EXCEPT ![f] = @ + 1]
  /\ UNCHANGED <<connected, handler, bufferVars, flusher, batch,
                 faultVars, acked, lost, crashes>>

FinishBatch(f) ==
  /\ flusher[f] = "send"
  /\ ~MoreToSend(f)
  /\ flusher' = [flusher EXCEPT ![f] = "next"]
  /\ events' = Remaining(f)
  /\ Persist(events')
  /\ UNCHANGED <<connected, handler, flushing, flushRequested, batch, position,
                 failed, historyVars>>

\* Mutant: the request that came meanwhile is not looked at.
AnsweredAlways == TRUE

\* Whether Flush returns after a batch.
Answered == ~flushRequested \/ events = <<>>

\* The loop of Flush: another batch if one was requested meanwhile.
NextBatch(f) ==
  /\ flusher[f] = "next"
  /\ flusher' = [flusher EXCEPT ![f] = IF Answered THEN "idle" ELSE "copy"]
  /\ flushing' = ~Answered
  /\ flushRequested' = (Answered /\ flushRequested)
  /\ batch' = [batch EXCEPT ![f] = <<>>]
  /\ position' = [position EXCEPT ![f] = 1]
  /\ failed' = [failed EXCEPT ![f] = <<>>]
  /\ UNCHANGED <<connected, handler, events, snapshot, faultVars, historyVars>>

-----------------------------------------------------------------------------
(* The connection and the process *)

ConnectionChanges ==
  /\ connected' = ~connected
  /\ UNCHANGED <<handler, bufferVars, flushVars, faultVars, historyVars>>

\* The flush that Start begins.
StartUpFlush(f) ==
  /\ flusher' = [g \in Flushers |-> IF g = f THEN "spawned" ELSE "idle"]
  /\ batch' = [g \in Flushers |-> <<>>]
  /\ position' = [g \in Flushers |-> 1]
  /\ failed' = [g \in Flushers |-> <<>>]

\* The process dies and starts again: NewBuffer loads the file, Start
\* flushes it.  An event in a handler's hands is gone, and so is an entry of
\* the buffer the file does not hold if the last write of it failed.
CrashAndRestart ==
  /\ crashes < MaxCrashes
  /\ crashes' = crashes + 1
  /\ connected' = FALSE
  /\ handler' = [e \in Occurrences |->
                   IF handler[e] \in {"publish", "add"} THEN "done" ELSE handler[e]]
  /\ lost' = lost \cup {e \in Occurrences :
                          \/ handler[e] \in {"publish", "add"}
                          \/ unsaved /\ Holds(events, e) /\ ~Holds(snapshot, e)}
  /\ events' = snapshot
  /\ flushing' = FALSE
  /\ flushRequested' = FALSE
  /\ \E f \in Flushers : StartUpFlush(f)
  /\ unsaved' = FALSE
  /\ UNCHANGED <<snapshot, saveFailures, acked, failures>>

-----------------------------------------------------------------------------

Init ==
  /\ connected = FALSE
  /\ handler = [e \in Occurrences |-> "undetected"]
  /\ events = <<>>
  /\ flushing = FALSE
  /\ flushRequested = FALSE
  /\ snapshot = <<>>
  /\ flusher = [f \in Flushers |-> "idle"]
  /\ batch = [f \in Flushers |-> <<>>]
  /\ position = [f \in Flushers |-> 1]
  /\ failed = [f \in Flushers |-> <<>>]
  /\ acked = [e \in Occurrences |-> 0]
  /\ failures = [e \in Occurrences |-> 0]
  /\ unsaved = FALSE
  /\ lost = {}
  /\ crashes = 0
  /\ saveFailures = 0

HandlerStep(e) == PublishAcked(e) \/ PublishFails(e) \/ AddEvent(e)

FlushStep(f) ==
  \/ CheckConnected(f)
  \/ EnterFlush(f)
  \/ CopyBatch(f)
  \/ Discard(f)
  \/ SendAcked(f)
  \/ SendFails(f)
  \/ FinishBatch(f)
  \/ NextBatch(f)

Next ==
  \/ \E e \in Occurrences : Detect(e) \/ HandlerStep(e)
  \/ \E f \in Flushers : FlushStep(f)
  \/ ConnectionChanges
  \/ CrashAndRestart

\* Every publish ends by an answer or by its timeout, and goroutines run.
\* Nothing makes an event occur, or the connection come back.
Fairness ==
  /\ \A e \in Occurrences : WF_vars(HandlerStep(e))
  /\ \A f \in Flushers : WF_vars(FlushStep(f))

Spec == Init /\ [][Next]_vars /\ Fairness

-----------------------------------------------------------------------------
(* What the buffer promises *)

\* An event that was detected, and that only the buffer can still deliver.
Owed(e) ==
  /\ handler[e] = "done"
  /\ acked[e] = 0
  /\ failures[e] < MaxRetries
  /\ e \notin lost

\* An event that was detected is acknowledged, or has failed MaxRetries times,
\* or only a process that crashed knew it; otherwise it is in the buffer, and
\* in the file unless its last write failed.  What Add appends while a flush is
\* sending survives the replacement of the list at the end of flushBatch
\* (buffer.go:128-131).
Kept ==
  \A e \in Occurrences :
    Owed(e) => Holds(events, e) /\ (unsaved \/ Holds(snapshot, e))

\* Concurrent flushes never send an event twice (buffer.go:54-62): an
\* acknowledged event is sent again only by a process that started with a file
\* written before the acknowledgement.
SentOnce == \A e \in Occurrences : acked[e] <= 1 + crashes

\* "Only this flush can remove the snapshot prefix; Add can append meanwhile"
\* (buffer.go:129): the entries a flush is sending are still the first of the
\* buffer when it replaces them, so the slice it keeps is what was added.
SnapshotIsPrefix ==
  \A f \in Flushers : flusher[f] = "send" => IsPrefix(batch[f], events)

\* A flush that has entered Flush and not yet returned.
Running(f) == flusher[f] \in {"copy", "send", "next"}

\* The retries of a list's entries are failed attempts to send them.
Counted(list) == \A i \in DOMAIN list : list[i].retries <= failures[list[i].event]

\* The entry is still to be tried by the flush.
Ahead(f, e) == \E i \in position[f]..Len(batch[f]) : batch[f][i].event = e

\* One flush runs at a time.
OneFlush ==
  /\ \A f \in Flushers : Running(f) => flushing
  /\ \A f, g \in Flushers : Running(f) /\ Running(g) => f = g

\* No entry has more retries than failed attempts.
RetriesCounted ==
  /\ Counted(events)
  /\ Counted(snapshot)
  /\ \A f \in Flushers : flusher[f] = "send" => Counted(failed[f])

\* What is owed of the copy has failed or is still ahead.
BatchAccounted ==
  \A f \in Flushers : flusher[f] = "send" =>
    /\ position[f] \in 1..Len(batch[f]) + 1
    /\ \A e \in Occurrences :
         Owed(e) /\ Holds(batch[f], e) => Ahead(f, e) \/ Holds(failed[f], e)

\* What is in the buffer has left its handler.
Entered ==
  \A e \in Occurrences :
    \/ Holds(events, e)
    \/ Holds(snapshot, e)
    \/ \E f \in Flushers : flusher[f] = "send" /\ Holds(failed[f], e)
    => handler[e] = "done"

\* The inductive invariant behind Kept (buffer.go:54-133).
KeptInv ==
  /\ Kept
  /\ SnapshotIsPrefix
  /\ OneFlush
  /\ RetriesCounted
  /\ BatchAccounted
  /\ Entered

\* No event has two entries.
Distinct(list) ==
  \A i, j \in 1..Len(list) : list[i].event = list[j].event => i = j

\* This process may send the event, and has not.
Unsent(e) == acked[e] <= crashes

\* What has failed is behind the entry that is sent next.
FailedAreBehind ==
  \A f \in Flushers : flusher[f] = "send" =>
    /\ Distinct(failed[f])
    /\ \A i \in 1..Len(failed[f]) :
         \E j \in 1..(position[f] - 1) : failed[f][i].event = batch[f][j].event

\* What is still to be sent is unsent: while a flush is sending, what it has not
\* come to, what was added meanwhile, and what has failed.
PendingIsUnsent ==
  /\ \A e \in Occurrences : handler[e] # "done" => Unsent(e)
  /\ (\A f \in Flushers : flusher[f] # "send") =>
       \A i \in 1..Len(events) : Unsent(events[i].event)
  /\ \A f \in Flushers : flusher[f] = "send" =>
       /\ \A i \in position[f]..Len(events) : Unsent(events[i].event)
       /\ \A i \in 1..Len(failed[f]) : Unsent(failed[f][i].event)

\* The inductive invariant behind SentOnce, beside KeptInv.
OnceInv ==
  /\ SentOnce
  /\ Distinct(events) /\ Distinct(snapshot)
  /\ FailedAreBehind
  /\ PendingIsUnsent

\* A flush that is requested while another is sending is not forgotten
\* (buffer.go:57-61, 69): every entry of the buffer at that time, those added
\* after the running flush took its copy too, is tried or dropped by a process
\* that does not crash (MaxCrashes are behind it).
RequestIsHonoured ==
  \A e \in Occurrences, r \in 0..MaxRetries :
    LET buffered == Contains(events, [event |-> e, retries |-> r])
    IN  (crashes = MaxCrashes /\ flushing /\ flushRequested /\ buffered) ~> ~buffered

\* "Events are buffered to disk and retried independently of telemetry"
\* (README.md:76): while the connection stays up, an entry of the buffer is
\* tried, whether or not another event is detected.
RetriedWhenConnected ==
  \A e \in Occurrences, r \in 0..MaxRetries :
    LET buffered == Contains(events, [event |-> e, retries |-> r])
    IN  [](buffered /\ []connected => <>~buffered)

=============================================================================
