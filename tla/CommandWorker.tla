--------------------------- MODULE CommandWorker ---------------------------
(***************************************************************************)
(* How a remote command is executed (internal/client/command.go) and, for  *)
(* a self-update, executed once (internal/handlers/self_update_state.go).  *)
(*                                                                         *)
(* The broker keeps a command in the scooter's persistent session until it *)
(* is acknowledged, and sends it again on every new connection.  The MQTT  *)
(* callback puts deliveries into a bounded queue; the command worker takes *)
(* them one at a time.  A self-update runs in a lane of its own: beside it *)
(* the worker goes on, but refuses the commands that would conflict.  What *)
(* an update came to is recorded on disk.                                  *)
(*                                                                         *)
(* Commands are numbered as they are published, each one a request of its  *)
(* own.  Of a delivery only this matters: whether it came on the           *)
(* connection of now, on one the client had before, or from a client that  *)
(* has been replaced since.                                                *)
(***************************************************************************)
EXTENDS Naturals, Sequences

CONSTANTS Commands,  \* how many commands are published
          Workloads, \* what they may be, a set of functions from Command to Sort
          Capacity,  \* commandQueueCapacity
          MaxFaults  \* bound on what goes wrong in a behaviour

Command == 1..Commands
Sort == {"plain", "conflict", "update"}
From == {"now", "before", "replaced"}

ASSUME WorkerAssumption ==
  /\ Commands \in Nat \ {0} /\ Capacity \in Nat \ {0} /\ MaxFaults \in Nat
  /\ Workloads \subseteq [Command -> Sort]

VARIABLES
  sort,      \* what each command is, chosen once
  published, \* commands published so far
  session,   \* the broker's session: published and not acknowledged
  subscribed,\* the broker has the subscription
  sent,      \* those sent on this connection
  connected, \* the connection of the active client
  process,   \* running, stopping (the context is cancelled), down
  queue,     \* commandQueue
  worker,    \* where the command worker is, and its delivery
  lane,      \* where the self-update is, its delivery, its outcome
  restart,   \* an installed update will end the process
  results,   \* results.json: the updates that have an outcome
  executed,  \* history: commands executed to the end
  refused,   \* history: commands answered with busy
  shared,    \* history: updates acknowledged by a duplicate
  overflow,  \* history: commands that found the queue full
  installs,  \* history: how often each update was installed (2: more than once)
  unrecorded,\* history: updates whose installation was never recorded
  faults     \* at most MaxFaults

broker == <<published, session, sent>>
context == <<sort, subscribed>>
history == <<executed, refused, shared, installs, unrecorded>>
vars == <<sort, published, session, subscribed, sent, connected, process, queue, worker, lane,
          restart, results, executed, refused, shared, overflow, installs, unrecorded, faults>>

Delivery == [msg : Command, from : From]
Nobody == [at |-> "idle", msg |-> 0, from |-> "now"]
NoUpdate == [at |-> "none", msg |-> 0, from |-> "now"]
WorkerState ==
  {Nobody} \cup [at : {"process", "refuse", "ack", "denied"}, msg : Command, from : From]
LaneState ==
  {NoUpdate} \cup [at : {"begin", "run", "installed", "failed", "ack"}, msg : Command, from : From]

TypeOK ==
  /\ sort \in Workloads
  /\ published \in 0..Commands
  /\ session \subseteq 1..published /\ sent \subseteq session
  /\ connected \in BOOLEAN /\ subscribed \in BOOLEAN
  /\ process \in {"running", "stopping", "down"}
  /\ queue \in Seq(Delivery) /\ Len(queue) <= Capacity
  /\ worker \in WorkerState /\ lane \in LaneState
  /\ restart \in BOOLEAN
  /\ results \subseteq Command
  /\ executed \subseteq Command /\ refused \subseteq Command /\ shared \subseteq Command
  /\ overflow \in [Command -> {"no", "now", "before"}]
  /\ installs \in [Command -> 0..2]
  /\ unrecorded \subseteq Command
  /\ faults \in 0..MaxFaults

Init ==
  /\ sort \in Workloads
  /\ published = 0 /\ session = {} /\ sent = {}
  /\ connected = TRUE /\ subscribed = TRUE /\ process = "running"
  /\ queue = <<>> /\ worker = Nobody /\ lane = NoUpdate
  /\ restart = FALSE
  /\ results = {}
  /\ executed = {} /\ refused = {} /\ shared = {}
  /\ overflow = [m \in Command |-> "no"]
  /\ installs = [m \in Command |-> 0] /\ unrecorded = {}
  /\ faults = 0

----------------------------------------------------------------------------
\* Helpers.

Fault == faults < MaxFaults /\ faults' = faults + 1
NoFault == UNCHANGED faults

\* What the deliveries in the process become of, when the connection or the
\* client changes: every one of them is from before, or from a replaced client.
Age(d, from) == [d EXCEPT !.from = IF @ = "replaced" THEN @ ELSE from]
AgeAll(from) ==
  /\ queue' = [i \in DOMAIN queue |-> Age(queue[i], from)]
  /\ worker' = IF worker = Nobody THEN worker ELSE Age(worker, from)
  /\ lane' = IF lane = NoUpdate THEN lane ELSE Age(lane, from)

\* The broker will send the whole session again.
Disconnected ==
  /\ connected' = FALSE /\ sent' = {}
  /\ overflow' = [m \in Command |-> IF overflow[m] = "now" THEN "before" ELSE overflow[m]]

\* Message.Ack: on a later connection of the same client the library may send
\* it or drop it; a replaced client sends nothing.
Ack(d) ==
  \/ /\ d.from = "now" \/ (d.from = "before" /\ connected)
     /\ session' = session \ {d.msg} /\ sent' = sent \ {d.msg}
  \/ d.from # "now" /\ UNCHANGED <<session, sent>>

Placed(d, at) == [at |-> at, msg |-> d.msg, from |-> d.from]

Busy == lane # NoUpdate
Conflicts(m) == sort[m] = "conflict"

----------------------------------------------------------------------------
\* The cloud, the broker and the connection.

\* Without the subscription the broker would not keep the command.
Publish ==
  /\ published < Commands /\ subscribed /\ NoFault
  /\ published' = published + 1
  /\ session' = session \cup {published + 1}
  /\ UNCHANGED <<context, sent, connected, process, queue, worker, lane, restart, results,
                 history, overflow>>

\* Mutant: the queue takes what does not fit.
DeliverAnyway ==
  /\ connected /\ process = "running" /\ session # sent /\ NoFault
  /\ \E m \in session \ sent :
       /\ \A n \in session \ sent : m <= n
       /\ sent' = sent \cup {m}
       /\ queue' = Append(queue, [msg |-> m, from |-> "now"])
  /\ UNCHANGED <<context, published, session, connected, process, worker, lane, restart,
                 results, history, overflow>>

\* handleCommand: a full queue leaves the command with the broker.
Deliver ==
  /\ connected /\ process = "running" /\ session # sent /\ NoFault
  /\ \E m \in session \ sent :
       /\ \A n \in session \ sent : m <= n
       /\ sent' = sent \cup {m}
       /\ IF Len(queue) < Capacity
          THEN queue' = Append(queue, [msg |-> m, from |-> "now"]) /\ UNCHANGED overflow
          ELSE overflow' = [overflow EXCEPT ![m] = "now"] /\ UNCHANGED queue
  /\ UNCHANGED <<context, published, session, connected, process, worker, lane, restart,
                 results, history>>

LoseConnection ==
  /\ connected /\ Fault
  /\ Disconnected /\ AgeAll("before")
  /\ UNCHANGED <<context, published, session, process, restart, results, history>>

\* rebuildClient: the old client is disconnected and another one is active.
Rebuild ==
  /\ process = "running" /\ Fault
  /\ Disconnected /\ AgeAll("replaced")
  /\ UNCHANGED <<context, published, session, process, restart, results, history>>

Connect ==
  /\ ~connected /\ process = "running" /\ NoFault
  /\ connected' = TRUE /\ subscribed' = TRUE
  /\ UNCHANGED <<sort, broker, process, queue, worker, lane, restart, results, history, overflow>>

----------------------------------------------------------------------------
\* The command worker.

\* A delivery of a replaced client is skipped: the broker sends it again.
TakeStale ==
  /\ Head(queue).from = "replaced"
  /\ UNCHANGED <<broker, worker, lane, shared>>

\* A self-update starts, or is a duplicate of the one that runs, or is refused.
TakeUpdate ==
  LET d == Head(queue) IN
  /\ d.from # "replaced" /\ sort[d.msg] = "update"
  /\ \/ ~Busy /\ lane' = Placed(d, "begin") /\ UNCHANGED <<broker, worker, shared>>
     \/ /\ Busy /\ d.msg = lane.msg
        /\ Ack(d) /\ shared' = shared \cup {d.msg}
        /\ UNCHANGED <<published, worker, lane>>
     \/ /\ Busy /\ d.msg # lane.msg
        /\ worker' = Placed(d, "refuse")
        /\ UNCHANGED <<broker, lane, shared>>

\* Mutant: a conflicting command is run beside the update.
TakeConflicting ==
  LET d == Head(queue) IN
  /\ d.from # "replaced" /\ sort[d.msg] # "update"
  /\ worker' = Placed(d, "process")
  /\ UNCHANGED <<broker, lane, shared>>

\* Mutant: a conflicting command is put off to its next delivery.
TakeLater ==
  LET d == Head(queue) IN
  /\ d.from # "replaced" /\ sort[d.msg] # "update"
  /\ worker' = IF Busy /\ Conflicts(d.msg) THEN worker ELSE Placed(d, "process")
  /\ UNCHANGED <<broker, lane, shared>>

\* Every other command is processed, unless it conflicts with the update.
TakeCommand ==
  LET d == Head(queue) IN
  /\ d.from # "replaced" /\ sort[d.msg] # "update"
  /\ worker' = Placed(d, IF Busy /\ Conflicts(d.msg) THEN "refuse" ELSE "process")
  /\ UNCHANGED <<broker, lane, shared>>

Take ==
  /\ process = "running" /\ worker = Nobody /\ queue # <<>> /\ NoFault
  /\ queue' = Tail(queue)
  /\ TakeStale \/ TakeUpdate \/ TakeCommand
  /\ UNCHANGED <<context, connected, process, restart, results, executed, refused, overflow,
                 installs, unrecorded>>

\* HandleCommand, its answer included.
Process ==
  /\ process # "down" /\ worker.at = "process" /\ NoFault
  /\ executed' = executed \cup {worker.msg}
  /\ worker' = [worker EXCEPT !.at = "ack"]
  /\ UNCHANGED <<context, broker, connected, process, queue, lane, restart, results, refused,
                 shared, overflow, installs, unrecorded>>

\* rejectDuringSelfUpdate
Refuse ==
  /\ process # "down" /\ worker.at = "refuse" /\ NoFault
  /\ refused' = refused \cup {worker.msg}
  /\ worker' = [worker EXCEPT !.at = "denied"]
  /\ UNCHANGED <<context, broker, connected, process, queue, lane, restart, results, executed,
                 shared, overflow, installs, unrecorded>>

\* Mutant: a refused command stays with the broker.
AcknowledgeProcessed ==
  /\ process # "down" /\ worker.at \in {"ack", "denied"} /\ NoFault
  /\ IF worker.at = "ack" THEN Ack(worker) ELSE UNCHANGED <<session, sent>>
  /\ worker' = Nobody
  /\ UNCHANGED <<context, published, connected, process, queue, lane, restart, results, history,
                 overflow>>

\* A refusal is acknowledged like an update: not after a shutdown.
Acknowledge ==
  /\ process # "down" /\ worker.at \in {"ack", "denied"} /\ NoFault
  /\ IF worker.at = "ack" \/ process = "running"
     THEN Ack(worker) ELSE UNCHANGED <<session, sent>>
  /\ worker' = Nobody
  /\ UNCHANGED <<context, published, connected, process, queue, lane, restart, results, history,
                 overflow>>

----------------------------------------------------------------------------
\* The self-update: coordinatedSelfUpdate, then the answer and the acknowledgement.

Step(at) == lane' = [lane EXCEPT !.at = at]

\* Mutant: the recorded results are not looked at.
BeginAnew ==
  /\ process # "down" /\ lane.at = "begin" /\ NoFault
  /\ Step(IF process = "stopping" THEN "ack" ELSE "run")
  /\ UNCHANGED <<context, broker, connected, process, queue, worker, restart, results, history,
                 overflow>>

\* A recorded result is replayed; one that cannot be read is an error.
Begin ==
  /\ process # "down" /\ lane.at = "begin"
  /\ \/ /\ Step(IF process = "stopping" \/ lane.msg \in results THEN "ack" ELSE "run")
        /\ NoFault /\ UNCHANGED executed
     \/ /\ process = "running" /\ Fault
        /\ Step("ack") /\ executed' = executed \cup {lane.msg}
  /\ UNCHANGED <<context, broker, connected, process, queue, worker, restart, results, refused,
                 shared, overflow, installs, unrecorded>>

\* Downloaded, probed and installed: the process will end soon, unless the
\* restart cannot be scheduled.
Install ==
  /\ process # "down" /\ lane.at = "run" /\ NoFault
  /\ Step("installed")
  /\ installs' = [installs EXCEPT ![lane.msg] = IF @ < 2 THEN @ + 1 ELSE 2]
  /\ executed' = executed \cup {lane.msg}
  /\ restart' \in {restart, TRUE}
  /\ UNCHANGED <<context, broker, connected, process, queue, worker, results, refused, shared,
                 overflow, unrecorded>>

\* The download, the probe or the transaction fails.
InstallFails ==
  /\ process = "running" /\ lane.at = "run" /\ NoFault
  /\ Step("failed")
  /\ executed' = executed \cup {lane.msg}
  /\ UNCHANGED <<context, broker, connected, process, queue, worker, restart, results, refused,
                 shared, overflow, installs, unrecorded>>

\* Mutant: the interruption is recorded as the outcome.
InterruptedForGood ==
  /\ process = "stopping" /\ lane.at = "run" /\ NoFault
  /\ Step("ack") /\ results' = results \cup {lane.msg}
  /\ UNCHANGED <<context, broker, connected, process, queue, worker, restart, history, overflow>>

\* Shutdown interrupts it.
Interrupted ==
  /\ process = "stopping" /\ lane.at = "run" /\ NoFault
  /\ Step("ack")
  /\ UNCHANGED <<context, broker, connected, process, queue, worker, restart, results, history,
                 overflow>>

\* The installation, if there was one, goes unrecorded.
Forgotten == unrecorded' = IF lane.at = "installed" THEN unrecorded \cup {lane.msg} ELSE unrecorded

\* After a shutdown, or if the file cannot be written, nothing is recorded.
\* Either way the answer is sent then, if the client of now is connected.
Record ==
  /\ process # "down" /\ lane.at \in {"installed", "failed"}
  /\ Step("ack")
  /\ \/ /\ process = "running" /\ NoFault
        /\ results' = results \cup {lane.msg}
        /\ UNCHANGED unrecorded
     \/ process = "running" /\ Fault /\ Forgotten /\ UNCHANGED results
     \/ process = "stopping" /\ NoFault /\ Forgotten /\ UNCHANGED results
  /\ UNCHANGED <<context, broker, connected, process, queue, worker, restart, executed, refused,
                 shared, overflow, installs>>

\* Mutant: the acknowledgement does not look at the context.
AckUpdateAnyway ==
  /\ process # "down" /\ lane.at = "ack" /\ NoFault
  /\ Ack(lane)
  /\ lane' = NoUpdate
  /\ UNCHANGED <<context, published, connected, process, queue, worker, restart, results, history,
                 overflow>>

\* ackSelfUpdateDelivery: not after a shutdown, not through a replaced client.
AckUpdate ==
  /\ process # "down" /\ lane.at = "ack" /\ NoFault
  /\ IF process = "running" THEN Ack(lane) ELSE UNCHANGED <<session, sent>>
  /\ lane' = NoUpdate
  /\ UNCHANGED <<context, published, connected, process, queue, worker, restart, results, history,
                 overflow>>

----------------------------------------------------------------------------
\* The process ends and starts again.

\* The new binary is started two seconds after its installation, when the outcome
\* is normally on disk.
Restarting == restart /\ lane.at # "installed"

\* Stop, after a SIGTERM from outside or because an update has been installed:
\* it withdraws the subscription and cancels the context.
Shutdown ==
  /\ process = "running"
  /\ (Restarting /\ NoFault) \/ Fault
  /\ process' = "stopping"
  /\ subscribed' = (subscribed /\ ~connected)
  /\ UNCHANGED <<sort, broker, connected, queue, worker, lane, restart, results, history,
                 overflow>>

\* What was in memory is gone.
Down ==
  /\ process' = "down" /\ restart' = FALSE
  /\ queue' = <<>> /\ worker' = Nobody /\ lane' = NoUpdate
  /\ Disconnected /\ Forgotten
  /\ UNCHANGED <<context, published, session, results, executed, refused, shared, installs>>

Exit == process = "stopping" /\ NoFault /\ Down

Crash == process # "down" /\ Fault /\ Down

Start ==
  /\ process = "down" /\ NoFault
  /\ process' = "running"
  /\ UNCHANGED <<context, broker, connected, queue, worker, lane, restart, results, history,
                 overflow>>

----------------------------------------------------------------------------
WorkerNext == Take \/ Process \/ Refuse \/ Acknowledge

LaneNext == Begin \/ Install \/ InstallFails \/ Interrupted \/ Record \/ AckUpdate

ProcessNext == (Restarting /\ Shutdown) \/ Exit \/ Start

Next ==
  \/ Publish \/ Deliver \/ LoseConnection \/ Rebuild \/ Connect
  \/ WorkerNext \/ LaneNext
  \/ Shutdown \/ Exit \/ Crash \/ Start

Spec == Init /\ [][Next]_vars

\* The broker sends, the library or a rebuild connects again, the goroutines
\* run, and systemd starts the process again.
Fairness == /\ WF_vars(Deliver) /\ WF_vars(Connect)
            /\ WF_vars(WorkerNext) /\ WF_vars(LaneNext) /\ WF_vars(ProcessNext)

FairSpec == Spec /\ Fairness

----------------------------------------------------------------------------
Handled(m) == m \in executed \cup refused

\* A command the broker has forgotten was executed to the end or refused: a
\* crash, a replaced client or a full queue loses none (command.go:23-24).  The
\* exception is an update that a duplicate has acknowledged.
NoCommandLost == \A m \in 1..published : m \in session \/ Handled(m) \/ m \in shared

\* An update that is interrupted before its result is completed is resumed by
\* its redelivery, so the broker still has it (README.md:268).
UpdateResumes ==
  \A m \in 1..published : m \in session \/ Handled(m) \/ m = lane.msg

\* No command that conflicts with an update is executed while one runs, however
\* they were delivered (README.md:270).
Isolated == worker.at = "process" /\ Conflicts(worker.msg) => ~Busy

\* An update is installed once, however often it is delivered (README.md:268),
\* unless the process ended, or the disk failed, before it was recorded.
InstalledOnce == \A m \in Command : installs[m] > 1 => m \in unrecorded

\* Vehicle commands are executed in the order of their publication, across
\* reconnects, rebuilds and restarts, updates or not (README.md:270), but for
\* those that found the queue full.
InOrder ==
  \A m \in executed, n \in Command :
    n < m /\ sort[n] # "update" /\ sort[m] # "update" =>
      Handled(n) \/ overflow[n] # "no"

\* The inductive invariant behind them.  What is about to be acknowledged has
\* been answered; in a process that ends it need not have been.
Answered ==
  /\ worker.at = "ack" => worker.msg \in executed
  /\ worker.at = "denied" => worker.msg \in refused
  /\ lane.at \in {"installed", "failed"} => lane.msg \in executed
  /\ lane.at = "ack" /\ process = "running" => lane.msg \in executed
  /\ results \subseteq executed

\* An installation is on record, about to be, or known to have been missed; an
\* update on record does not run again.
Recorded ==
  /\ \A m \in Command :
       installs[m] > 0 =>
         m \in results \cup unrecorded \/ (lane.at = "installed" /\ lane.msg = m)
  /\ lane.at = "run" => lane.msg \notin results

NothingRunsDown == process = "down" => lane = NoUpdate

SafeInv == Answered /\ Recorded /\ NothingRunsDown /\ NoCommandLost /\ Isolated /\ InstalledOnce

\* No later command need wait for this one.
Excused(n) == Handled(n) \/ overflow[n] # "no" \/ sort[n] = "update"

\* The worker has it, or one of the first k deliveries of the queue is of it and
\* will not be skipped.
AtWorker(n) == worker.at \in {"process", "refuse"} /\ worker.msg = n
Waits(n, k) == \E j \in 1..k : queue[j].msg = n /\ queue[j].from # "replaced"

\* Only an update has the lane, or is acknowledged by its duplicate.
LaneIsUpdate ==
  /\ lane.at # "none" => sort[lane.msg] = "update"
  /\ \A m \in shared : sort[m] = "update"

\* What was sent on this connection is ahead of what the broker will send.
SentAhead == \A n \in sent : Excused(n) \/ AtWorker(n) \/ Waits(n, Len(queue))

\* What will not be skipped, and what the worker has, comes after what was
\* published before it.
QueueInOrder ==
  \A i \in 1..Len(queue), n \in Command :
    queue[i].from # "replaced" /\ n < queue[i].msg =>
      Excused(n) \/ AtWorker(n) \/ Waits(n, i - 1)

WorkerInOrder ==
  \A n \in Command : worker.at # "idle" /\ n < worker.msg => Excused(n)

\* The inductive invariant behind InOrder, beside NoCommandLost.
OrderInv == InOrder /\ LaneIsUpdate /\ SentAhead /\ QueueInOrder /\ WorkerInOrder

\* When nothing goes wrong any more the session empties, but for commands that
\* found the queue full on this connection.
Drains == <>[](\A m \in session : overflow[m] = "now")
=============================================================================
