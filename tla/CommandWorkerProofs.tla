------------------------ MODULE CommandWorkerProofs ------------------------
(***************************************************************************)
(* Proofs about CommandWorker, for any number of commands, any mix of them *)
(* and any number of faults: its types, and that no command is lost, none  *)
(* that conflicts runs beside an update, none is installed again and none  *)
(* overtakes another.                                                      *)
(***************************************************************************)
EXTENDS CommandWorker, SequenceTheorems, TLAPS

USE WorkerAssumption DEF WorkerAssumption

LEMMA TypeInit == Init => TypeOK
<1> SUFFICES ASSUME Init
             PROVE  TypeOK
  OBVIOUS
<1> USE DEF Init
<1>1. queue \in Seq(Delivery) /\ Len(queue) <= Capacity
  OBVIOUS
<1>2. /\ worker \in WorkerState
      /\ lane \in LaneState
  BY DEF Nobody, NoUpdate, WorkerState, LaneState
<1>3. overflow \in [Command -> {"no", "now", "before"}] /\ installs \in [Command -> 0..2]
  OBVIOUS
<1>4. session \subseteq 1..published /\ sent \subseteq session
  OBVIOUS
<1>5. published \in 0..Commands /\ faults \in 0..MaxFaults
  OBVIOUS
<1> QED
  BY <1>1, <1>2, <1>3, <1>4, <1>5 DEF TypeOK

\* A delivery that ages remains one.
LEMMA AgeDelivery ==
  ASSUME NEW from \in From, NEW d \in Delivery
  PROVE  Age(d, from) \in Delivery
BY DEF Age, Delivery

LEMMA AgeAllType ==
  ASSUME TypeOK, NEW from \in From, AgeAll(from)
  PROVE  /\ queue' \in Seq(Delivery) /\ Len(queue') <= Capacity
         /\ worker' \in WorkerState
         /\ lane' \in LaneState
<1>1. queue \in Seq(Delivery) /\ Len(queue) <= Capacity
  BY DEF TypeOK
<1>2. queue' = [i \in 1..Len(queue) |-> Age(queue[i], from)]
  BY <1>1 DEF AgeAll
<1>3. \A i \in 1..Len(queue) : Age(queue[i], from) \in Delivery
  BY <1>1, AgeDelivery
<1>4. queue' \in [1..Len(queue) -> Delivery]
  BY <1>2, <1>3
<1>5. queue' \in Seq(Delivery) /\ Len(queue') = Len(queue)
  BY <1>1, <1>2, <1>4
<1>6. worker' \in WorkerState
  BY DEF AgeAll, TypeOK, Age, WorkerState, LaneState
<1>7. lane' \in LaneState
  BY DEF AgeAll, TypeOK, Age, WorkerState, LaneState
<1> QED
  BY <1>1, <1>5, <1>6, <1>7

LEMMA FaultType == TypeOK /\ (Fault \/ NoFault) => faults' \in 0..MaxFaults
BY DEF TypeOK, Fault, NoFault

LEMMA DisconnectedType ==
  TypeOK /\ Disconnected =>
    /\ connected' \in BOOLEAN /\ sent' = {}
    /\ overflow' \in [Command -> {"no", "now", "before"}]
BY DEF TypeOK, Disconnected

\* An acknowledgement only takes from the session.
LEMMA AckType ==
  ASSUME TypeOK, NEW d, Ack(d)
  PROVE  /\ session' \subseteq session /\ sent' \subseteq session'
         /\ session' \subseteq 1..published
BY DEF Ack, TypeOK

LEMMA HeadType ==
  ASSUME TypeOK, queue # <<>>
  PROVE  /\ Head(queue) \in Delivery
         /\ Tail(queue) \in Seq(Delivery) /\ Len(Tail(queue)) <= Capacity
BY DEF TypeOK

LEMMA TypeNetwork ==
  ASSUME TypeOK, Publish \/ Deliver \/ LoseConnection \/ Rebuild \/ Connect
  PROVE  TypeOK'
<1>1. CASE Publish
  <2>1. published' \in 0..Commands /\ session' \subseteq 1..published' /\ sent' \subseteq session'
    BY <1>1 DEF Publish, TypeOK
  <2> QED
    BY <1>1, <2>1, FaultType DEF Publish, TypeOK, history, context
<1>2. CASE Deliver
  <2>1. PICK m \in session \ sent :
          /\ sent' = sent \cup {m}
          /\ IF Len(queue) < Capacity
             THEN queue' = Append(queue, [msg |-> m, from |-> "now"]) /\ UNCHANGED overflow
             ELSE overflow' = [overflow EXCEPT ![m] = "now"] /\ UNCHANGED queue
    BY <1>2 DEF Deliver
  <2>2. [msg |-> m, from |-> "now"] \in Delivery
    BY <2>1 DEF TypeOK, Delivery, Command, From
  <2>3. queue' \in Seq(Delivery) /\ Len(queue') <= Capacity
    BY SMTT(20), <2>1, <2>2 DEF TypeOK
  <2>4. overflow' \in [Command -> {"no", "now", "before"}]
    BY <2>1 DEF TypeOK, Command
  <2> QED
    BY <1>2, <2>1, <2>3, <2>4, FaultType DEF Deliver, TypeOK, history, context
<1>3. CASE LoseConnection
  <2>1. "before" \in From /\ AgeAll("before") /\ Disconnected
    BY <1>3 DEF LoseConnection, From
  <2>2. /\ queue' \in Seq(Delivery) /\ Len(queue') <= Capacity
        /\ worker' \in WorkerState /\ lane' \in LaneState
    BY <2>1, AgeAllType
  <2>3. /\ connected' \in BOOLEAN /\ sent' = {}
        /\ overflow' \in [Command -> {"no", "now", "before"}]
    BY <2>1, DisconnectedType
  <2> QED
    BY <1>3, <2>2, <2>3, FaultType DEF LoseConnection, TypeOK, history, context
<1>4. CASE Rebuild
  <2>1. "replaced" \in From /\ AgeAll("replaced") /\ Disconnected
    BY <1>4 DEF Rebuild, From
  <2>2. /\ queue' \in Seq(Delivery) /\ Len(queue') <= Capacity
        /\ worker' \in WorkerState /\ lane' \in LaneState
    BY <2>1, AgeAllType
  <2>3. /\ connected' \in BOOLEAN /\ sent' = {}
        /\ overflow' \in [Command -> {"no", "now", "before"}]
    BY <2>1, DisconnectedType
  <2> QED
    BY <1>4, <2>2, <2>3, FaultType DEF Rebuild, TypeOK, history, context
<1>5. CASE Connect
  BY <1>5, FaultType DEF Connect, TypeOK, broker, history
<1> QED
  BY <1>1, <1>2, <1>3, <1>4, <1>5

LEMMA TypeTake == ASSUME TypeOK, Take PROVE TypeOK'
<1>1. /\ Head(queue) \in Delivery
      /\ queue' \in Seq(Delivery) /\ Len(queue') <= Capacity
  BY HeadType DEF Take
<1>2. CASE TakeStale
  BY <1>1, <1>2, FaultType DEF Take, TakeStale, TypeOK, broker, context
<1>3. CASE TakeUpdate
  <2>1. /\ Placed(Head(queue), "begin") \in
             LaneState
        /\ Placed(Head(queue), "refuse") \in
             WorkerState
    BY <1>1 DEF Placed, Delivery, WorkerState, LaneState, Command
  <2>2. CASE lane' = Placed(Head(queue), "begin") /\ UNCHANGED <<broker, worker, shared>>
    BY <1>1, <2>1, <2>2, FaultType DEF Take, TypeOK, broker, context
  <2>3. CASE /\ Ack(Head(queue)) /\ shared' = shared \cup {Head(queue).msg}
             /\ UNCHANGED <<published, worker, lane>>
    BY <1>1, <2>3, AckType, FaultType DEF Take, TypeOK, context, Delivery
  <2>4. CASE worker' = Placed(Head(queue), "refuse") /\ UNCHANGED <<broker, lane, shared>>
    BY <1>1, <2>1, <2>4, FaultType DEF Take, TypeOK, broker, context
  <2> QED
    BY <1>3, <2>2, <2>3, <2>4 DEF TakeUpdate
<1>4. CASE TakeCommand
  <2>1. worker' \in WorkerState
    BY <1>1, <1>4 DEF TakeCommand, Placed, Delivery, WorkerState, Command
  <2> QED
    BY <1>1, <1>4, <2>1, FaultType DEF Take, TakeCommand, TypeOK, broker, context
<1> QED
  BY <1>2, <1>3, <1>4 DEF Take

\* The command somebody is at work on is a command.
LEMMA AtWork ==
  ASSUME TypeOK
  PROVE  /\ worker.at # "idle" => worker.msg \in Command /\ worker # Nobody
         /\ lane.at # "none" => lane.msg \in Command /\ lane # NoUpdate
BY DEF TypeOK, WorkerState, LaneState, Nobody, NoUpdate

LEMMA StepTypes ==
  ASSUME TypeOK, lane.at # "none",
         NEW at \in {"begin", "run", "installed", "failed", "ack"}, Step(at)
  PROVE  lane' \in LaneState
BY DEF TypeOK, LaneState, Step, NoUpdate

LEMMA TypeWork ==
  ASSUME TypeOK, Process \/ Refuse \/ Acknowledge
  PROVE  TypeOK'
<1>1. CASE Process
  <2>1. worker' \in WorkerState
    BY <1>1 DEF Process, TypeOK, WorkerState, Nobody
  <2> QED
    BY <1>1, <2>1, AtWork, FaultType DEF Process, TypeOK, broker, context
<1>2. CASE Refuse
  <2>1. worker' \in WorkerState
    BY <1>2 DEF Refuse, TypeOK, WorkerState, Nobody
  <2> QED
    BY <1>2, <2>1, AtWork, FaultType DEF Refuse, TypeOK, broker, context
<1>3. CASE Acknowledge
  <2>1. worker' \in WorkerState
    BY <1>3 DEF Acknowledge, WorkerState
  <2>2. session' \subseteq 1..published /\ sent' \subseteq session'
    BY <1>3, AckType DEF Acknowledge, TypeOK
  <2> QED
    BY <1>3, <2>1, <2>2, FaultType DEF Acknowledge, TypeOK, history, context
<1> QED
  BY <1>1, <1>2, <1>3

LEMMA TypeLane == ASSUME TypeOK, LaneNext PROVE TypeOK'
<1>1. CASE Begin
  <2>1. lane' \in LaneState
    BY <1>1, StepTypes DEF Begin
  <2>2. executed' \subseteq Command
    BY <1>1, AtWork DEF Begin, TypeOK
  <2> QED
    BY <1>1, <2>1, <2>2, FaultType DEF Begin, TypeOK, broker, context
<1>2. CASE Install
  <2>1. lane' \in LaneState
    BY <1>2, StepTypes DEF Install
  <2>2. executed' \subseteq Command
    BY <1>2, AtWork DEF Install, TypeOK
  <2>3. installs' \in [Command -> 0..2]
    BY <1>2, AtWork DEF Install, TypeOK
  <2> QED
    BY <1>2, <2>1, <2>2, <2>3, FaultType DEF Install, TypeOK, broker, context
<1>3. CASE InstallFails
  <2>1. lane' \in LaneState
    BY <1>3, StepTypes DEF InstallFails
  <2>2. executed' \subseteq Command
    BY <1>3, AtWork DEF InstallFails, TypeOK
  <2> QED
    BY <1>3, <2>1, <2>2, FaultType DEF InstallFails, TypeOK, broker, context
<1>4. CASE Interrupted
  <2>1. lane' \in LaneState
    BY <1>4, StepTypes DEF Interrupted
  <2> QED
    BY <1>4, <2>1, FaultType DEF Interrupted, TypeOK, broker, context, history
<1>5. CASE Record
  <2>1. lane' \in LaneState
    BY <1>5, StepTypes DEF Record
  <2>2. results' \subseteq Command /\ unrecorded' \subseteq Command
    BY <1>5, AtWork DEF Record, Forgotten, TypeOK
  <2>3. faults' \in 0..MaxFaults
    BY <1>5, FaultType DEF Record
  <2> QED
    BY <1>5, <2>1, <2>2, <2>3 DEF Record, TypeOK, broker, context
<1>6. CASE AckUpdate
  <2>1. lane' \in LaneState
    BY <1>6 DEF AckUpdate, LaneState
  <2>2. session' \subseteq 1..published /\ sent' \subseteq session'
    BY <1>6, AckType DEF AckUpdate, TypeOK
  <2> QED
    BY <1>6, <2>1, <2>2, FaultType DEF AckUpdate, TypeOK, history, context
<1> QED
  BY <1>1, <1>2, <1>3, <1>4, <1>5, <1>6 DEF LaneNext

LEMMA TypeProcess ==
  ASSUME TypeOK, Shutdown \/ Exit \/ Crash \/ Start
  PROVE  TypeOK'
<1>1. CASE Shutdown
  <2>1. faults' \in 0..MaxFaults
    BY <1>1, FaultType DEF Shutdown
  <2> QED
    BY <1>1, <2>1 DEF Shutdown, TypeOK, broker, history
<1>2. CASE Down /\ (Fault \/ NoFault)
  <2>1. worker' \in WorkerState /\ lane' \in LaneState
    BY <1>2 DEF Down, WorkerState, LaneState
  <2>2. queue' \in Seq(Delivery) /\ Len(queue') <= Capacity
    BY <1>2 DEF Down
  <2>3. unrecorded' \subseteq Command
    BY <1>2, AtWork DEF Down, Forgotten, TypeOK
  <2>4. /\ connected' \in BOOLEAN /\ sent' = {}
        /\ overflow' \in [Command -> {"no", "now", "before"}]
    BY <1>2, DisconnectedType DEF Down
  <2> QED
    BY <1>2, <2>1, <2>2, <2>3, <2>4, FaultType DEF Down, TypeOK, context
<1>3. CASE Start
  BY <1>3, FaultType DEF Start, TypeOK, broker, history, context
<1> QED
  BY <1>1, <1>2, <1>3 DEF Exit, Crash

LEMMA TypeStep == TypeOK /\ [Next]_vars => TypeOK'
<1> SUFFICES ASSUME TypeOK, [Next]_vars
             PROVE  TypeOK'
  OBVIOUS
<1>1. CASE UNCHANGED vars
  BY <1>1 DEF vars, TypeOK
<1> QED
  BY <1>1, TypeNetwork, TypeTake, TypeWork, TypeLane, TypeProcess DEF Next, WorkerNext

\* Types are right whatever is published, lost, duplicated or interrupted.
THEOREM TypeCorrect == Spec => []TypeOK
BY TypeInit, TypeStep, PTL DEF Spec

----------------------------------------------------------------------------
\* What a new connection or client leaves of the work in the process.
LEMMA AgeKeeps ==
  ASSUME TypeOK, NEW from \in From, AgeAll(from)
  PROVE  /\ worker'.at = worker.at /\ worker'.msg = worker.msg
         /\ lane'.at = lane.at /\ lane'.msg = lane.msg
         /\ (lane' = NoUpdate) <=> (lane = NoUpdate)
<1>1. /\ worker'.at = worker.at /\ worker'.msg = worker.msg
      /\ lane'.at = lane.at /\ lane'.msg = lane.msg
  <2>1. ASSUME worker # Nobody PROVE worker'.at = worker.at /\ worker'.msg = worker.msg
    BY <2>1 DEF AgeAll, Age, TypeOK, WorkerState
  <2>2. worker'.at = worker.at /\ worker'.msg = worker.msg
    BY <2>1 DEF AgeAll
  <2>3. ASSUME lane # NoUpdate PROVE lane'.at = lane.at /\ lane'.msg = lane.msg
    BY <2>3 DEF AgeAll, Age, TypeOK, LaneState
  <2>4. lane'.at = lane.at /\ lane'.msg = lane.msg
    BY <2>3 DEF AgeAll
  <2> QED
    BY <2>2, <2>4
<1>2. lane' \in LaneState
  BY AgeAllType
<1>3. lane.at = "none" <=> lane = NoUpdate
  BY DEF TypeOK, LaneState, NoUpdate
<1>4. lane'.at = "none" <=> lane' = NoUpdate
  BY <1>2 DEF LaneState, NoUpdate
<1> QED
  BY <1>1, <1>3, <1>4

LEMMA NetworkKeeps ==
  ASSUME TypeOK, Publish \/ Deliver \/ LoseConnection \/ Rebuild \/ Connect
  PROVE  /\ worker'.at = worker.at /\ worker'.msg = worker.msg
         /\ lane'.at = lane.at /\ lane'.msg = lane.msg
         /\ (lane' = NoUpdate) <=> (lane = NoUpdate)
         /\ UNCHANGED <<sort, results, executed, refused, shared, installs, unrecorded>>
         /\ process' = process
         /\ \A m \in 1..published' : m \in 1..published /\ m \in session => m \in session'
         /\ \A m \in 1..published' : m \notin 1..published => m \in session'
<1>1. CASE Publish
  BY <1>1 DEF Publish, TypeOK, history, context
<1>2. CASE Deliver
  BY <1>2 DEF Deliver, history, context
<1>3. CASE LoseConnection
  <2>1. "before" \in From /\ AgeAll("before")
    BY <1>3 DEF LoseConnection, From
  <2> QED
    BY <1>3, <2>1, AgeKeeps DEF LoseConnection, history, context
<1>4. CASE Rebuild
  <2>1. "replaced" \in From /\ AgeAll("replaced")
    BY <1>4 DEF Rebuild, From
  <2> QED
    BY <1>4, <2>1, AgeKeeps DEF Rebuild, history, context
<1>5. CASE Connect
  BY <1>5 DEF Connect, history, broker
<1> QED
  BY <1>1, <1>2, <1>3, <1>4, <1>5

LEMMA SafeInit == Init => SafeInv
BY DEF Init, SafeInv, Answered, Recorded, NothingRunsDown, NoCommandLost, Isolated, InstalledOnce,
       Nobody, NoUpdate, Busy, Command

LEMMA SafeNetwork ==
  ASSUME TypeOK, SafeInv, Publish \/ Deliver \/ LoseConnection \/ Rebuild \/ Connect
  PROVE  SafeInv'
<1> USE NetworkKeeps
<1>1. Answered'
  BY DEF SafeInv, Answered
<1>2. Recorded'
  BY DEF SafeInv, Recorded
<1>3. NothingRunsDown'
  BY DEF SafeInv, NothingRunsDown
<1>4. NoCommandLost'
  BY DEF SafeInv, NoCommandLost, Handled
<1>5. Isolated'
  BY DEF SafeInv, Isolated, Busy, Conflicts
<1>6. InstalledOnce'
  BY DEF SafeInv, InstalledOnce
<1> QED
  BY <1>1, <1>2, <1>3, <1>4, <1>5, <1>6 DEF SafeInv

\* An acknowledgement keeps every command but its own.
LEMMA AckKeeps ==
  ASSUME NEW d, Ack(d), NEW m \in session, m # d.msg
  PROVE  m \in session'
BY DEF Ack

\* The worker takes a delivery: only a duplicate of the running update leaves
\* the session, and no conflicting command is processed beside it.
LEMMA SafeTake == ASSUME TypeOK, SafeInv, Take PROVE SafeInv'
<1> DEFINE d == Head(queue)
<1>1. /\ process = "running" /\ process' = process /\ worker = Nobody
      /\ UNCHANGED <<sort, published, results, executed, refused, installs, unrecorded>>
  BY DEF Take, TakeStale, TakeUpdate, TakeCommand, broker, context
<1>2. CASE UNCHANGED <<worker, lane>>
  <2>1. \/ UNCHANGED <<session, shared>>
        \/ Ack(d) /\ shared' = shared \cup {d.msg}
    BY <1>1, <1>2 DEF Take, TakeStale, TakeUpdate, TakeCommand, broker
  <2>2. NoCommandLost'
    BY <1>1, <2>1, AckKeeps DEF SafeInv, NoCommandLost, Handled
  <2> QED
    BY <1>1, <1>2, <2>2
       DEF SafeInv, Answered, Recorded, NothingRunsDown, Isolated, InstalledOnce, Busy, Conflicts
<1>3. CASE /\ ~Busy /\ lane' = Placed(d, "begin")
           /\ UNCHANGED <<broker, worker, shared>>
  BY <1>1, <1>3
     DEF SafeInv, Answered, Recorded, NothingRunsDown, NoCommandLost, Handled, Isolated,
         InstalledOnce, Nobody, NoUpdate, Placed, broker, Busy
<1>4. CASE worker' = Placed(d, "refuse") /\ UNCHANGED <<broker, lane, shared>>
  BY <1>1, <1>4
     DEF SafeInv, Answered, Recorded, NothingRunsDown, NoCommandLost, Handled, Isolated,
         InstalledOnce, Placed, broker
<1>5. CASE /\ worker' = Placed(d, "process") /\ UNCHANGED <<broker, lane, shared>>
           /\ ~(Busy /\ Conflicts(d.msg))
  BY <1>1, <1>5
     DEF SafeInv, Answered, Recorded, NothingRunsDown, NoCommandLost, Handled, Isolated,
         InstalledOnce, Placed, broker, Busy, Conflicts
<1> QED
  BY <1>2, <1>3, <1>4, <1>5 DEF Take, TakeStale, TakeUpdate, TakeCommand

LEMMA SafeWork ==
  ASSUME TypeOK, SafeInv, Process \/ Refuse \/ Acknowledge
  PROVE  SafeInv'
<1>1. CASE Process \/ Refuse
  <2>1. /\ UNCHANGED <<sort, process, lane, results, installs, unrecorded, shared>>
        /\ UNCHANGED <<session, published>>
        /\ executed \subseteq executed' /\ refused \subseteq refused'
        /\ worker'.at = "ack" => worker'.msg \in executed'
        /\ worker'.at = "denied" => worker'.msg \in refused'
        /\ worker'.at # "process"
    BY <1>1, AtWork DEF Process, Refuse, broker, context, TypeOK, WorkerState
  <2> QED
    BY <2>1
       DEF SafeInv, Answered, Recorded, NothingRunsDown, NoCommandLost, Handled, Isolated,
           InstalledOnce
<1>2. CASE Acknowledge
  <2>1. /\ UNCHANGED <<sort, published, process, lane, results, history>>
        /\ worker' = Nobody /\ worker.at \in {"ack", "denied"}
        /\ Ack(worker) \/ UNCHANGED session
    BY <1>2 DEF Acknowledge, context
  <2>2. worker.msg \in executed \cup refused
    BY <2>1 DEF SafeInv, Answered
  <2>3. NoCommandLost'
    BY <2>1, <2>2, AckKeeps DEF SafeInv, NoCommandLost, Handled, history
  <2> QED
    BY <2>1, <2>3
       DEF SafeInv, Answered, Recorded, NothingRunsDown, Isolated, InstalledOnce, Nobody, history
<1> QED
  BY <1>1, <1>2

\* The update's goroutine: its command is answered before it is acknowledged,
\* and its installation is recorded, or the run was cut short.
LEMMA SafeLane == ASSUME TypeOK, SafeInv, LaneNext PROVE SafeInv'
<1>1. CASE Begin \/ Install \/ InstallFails \/ Interrupted
  <2>1. /\ UNCHANGED <<sort, published, session, worker, process, results, refused, shared>>
        /\ UNCHANGED unrecorded
        /\ process # "down" /\ lane.at \in {"begin", "run"} /\ lane # NoUpdate
        /\ lane.msg \in Command /\ lane'.msg = lane.msg
        /\ executed \subseteq executed'
    BY <1>1, AtWork
       DEF Begin, Install, InstallFails, Interrupted, Step, broker, context, history, NoUpdate,
           TypeOK, LaneState
  <2>2. Answered'
    BY <1>1, <2>1
       DEF SafeInv, Answered, Begin, Install, InstallFails, Interrupted, Step, TypeOK, LaneState,
           NoUpdate, history
  <2>3. Recorded' /\ InstalledOnce'
    <3>1. CASE Install
      BY <2>1, <3>1 DEF SafeInv, Recorded, InstalledOnce, Install, Step, TypeOK, LaneState, NoUpdate
    <3>2. CASE Begin \/ InstallFails \/ Interrupted
      BY <2>1, <3>2
         DEF SafeInv, Recorded, InstalledOnce, Begin, InstallFails, Interrupted, Step, TypeOK,
             LaneState, NoUpdate, history
    <3> QED
      BY <1>1, <3>1, <3>2
  <2>4. NothingRunsDown' /\ NoCommandLost' /\ Isolated'
    BY <2>1
       DEF SafeInv, NothingRunsDown, NoCommandLost, Handled, Isolated, Busy, Conflicts
  <2> QED
    BY <2>2, <2>3, <2>4 DEF SafeInv
<1>2. CASE Record
  <2>1. /\ UNCHANGED <<sort, published, session, worker, process, executed, refused, shared>>
        /\ UNCHANGED installs
        /\ process # "down" /\ lane.at \in {"installed", "failed"} /\ lane # NoUpdate
        /\ lane.msg \in Command /\ lane'.msg = lane.msg /\ lane'.at = "ack"
        /\ results \subseteq results' /\ results' \subseteq results \cup {lane.msg}
        /\ unrecorded \subseteq unrecorded'
        /\ lane.at = "installed" => lane.msg \in results' \cup unrecorded'
    BY <1>2, AtWork
       DEF Record, Forgotten, Step, broker, context, NoUpdate, TypeOK, LaneState
  <2> QED
    BY <2>1
       DEF SafeInv, Answered, Recorded, NothingRunsDown, NoCommandLost, Handled, Isolated, Busy,
           Conflicts, InstalledOnce
<1>3. CASE AckUpdate
  <2>1. /\ UNCHANGED <<sort, published, worker, process, results, history>>
        /\ lane' = NoUpdate /\ lane.at = "ack"
        /\ (process = "running" /\ Ack(lane)) \/ UNCHANGED session
    BY <1>3 DEF AckUpdate, context
  <2>2. NoCommandLost'
    BY <2>1, AckKeeps DEF SafeInv, Answered, NoCommandLost, Handled, history
  <2> QED
    BY <2>1, <2>2
       DEF SafeInv, Answered, Recorded, NothingRunsDown, Isolated, Busy, InstalledOnce, NoUpdate,
           history
<1> QED
  BY <1>1, <1>2, <1>3 DEF LaneNext

LEMMA SafeProcess ==
  ASSUME TypeOK, SafeInv, Shutdown \/ Exit \/ Crash \/ Start
  PROVE  SafeInv'
<1>1. CASE Shutdown
  BY <1>1
     DEF Shutdown, broker, history, SafeInv, Answered, Recorded, NothingRunsDown, NoCommandLost,
         Handled, Isolated, Busy, Conflicts, InstalledOnce
<1>2. CASE Down
  <2>1. /\ process' = "down" /\ worker' = Nobody /\ lane' = NoUpdate
        /\ UNCHANGED <<sort, published, session, results, executed, refused, shared, installs>>
        /\ unrecorded \subseteq unrecorded'
        /\ lane.at = "installed" => lane.msg \in unrecorded'
    BY <1>2 DEF Down, Forgotten, context
  <2> QED
    BY <2>1
       DEF SafeInv, Answered, Recorded, NothingRunsDown, NoCommandLost, Handled, Isolated,
           InstalledOnce, Nobody, NoUpdate
<1>3. CASE Start
  <2>1. lane = NoUpdate
    BY <1>3 DEF Start, SafeInv, NothingRunsDown
  <2> QED
    BY <1>3, <2>1
       DEF Start, broker, history, context, SafeInv, Answered, Recorded, NothingRunsDown, NoUpdate,
           NoCommandLost, Handled, Isolated, Busy, Conflicts, InstalledOnce
<1> QED
  BY <1>1, <1>2, <1>3 DEF Exit, Crash

LEMMA SafeStep == TypeOK /\ SafeInv /\ [Next]_vars => SafeInv'
<1> SUFFICES ASSUME TypeOK, SafeInv, [Next]_vars
             PROVE  SafeInv'
  OBVIOUS
<1>1. CASE UNCHANGED vars
  BY <1>1
     DEF vars, SafeInv, Answered, Recorded, NothingRunsDown, NoCommandLost, Handled, Isolated,
         Busy, Conflicts, InstalledOnce
<1> QED
  BY <1>1, SafeNetwork, SafeTake, SafeWork, SafeLane, SafeProcess DEF Next, WorkerNext

\* The invariant holds whatever is lost, repeated, interrupted or forgotten.
THEOREM SafeAlways == Spec => []SafeInv
BY TypeInit, TypeStep, SafeInit, SafeStep, PTL DEF Spec

\* A command the broker has forgotten was executed or refused, or it is an
\* update whose duplicate was acknowledged.
THEOREM NothingIsLost == Spec => []NoCommandLost
<1>1. SafeInv => NoCommandLost
  BY DEF SafeInv
<1> QED
  BY <1>1, SafeAlways, PTL

\* No conflicting command is executed beside an update.
THEOREM UpdatesAreIsolated == Spec => []Isolated
<1>1. SafeInv => Isolated
  BY DEF SafeInv
<1> QED
  BY <1>1, SafeAlways, PTL

\* An update is installed again only if its installation went unrecorded.
THEOREM UpdatesInstallOnce == Spec => []InstalledOnce
<1>1. SafeInv => InstalledOnce
  BY DEF SafeInv
<1> QED
  BY <1>1, SafeAlways, PTL

-----------------------------------------------------------------------------
\* The order of execution.

\* What excuses a command is never taken back.
LEMMA StillExcused ==
  ASSUME NEW n, Excused(n), sort' = sort, executed \subseteq executed',
         refused \subseteq refused', overflow[n] # "no" => overflow'[n] # "no"
  PROVE  Excused(n)'
BY DEF Excused, Handled

\* Steps that neither move the queue nor the worker, and execute updates only.
LEMMA OrderKept ==
  ASSUME OrderInv, UNCHANGED <<sort, queue, overflow, refused>>,
         worker'.at = worker.at, worker'.msg = worker.msg,
         sent' \subseteq sent, executed \subseteq executed', shared' = shared,
         \A m \in executed' : m \in executed \/ sort[m] = "update",
         lane'.at # "none" => lane.at # "none" /\ lane'.msg = lane.msg
  PROVE  OrderInv'
<1>1. \A n : Excused(n) => Excused(n)'
  BY StillExcused
<1>2. InOrder'
  BY <1>1 DEF OrderInv, InOrder, Excused
<1>3. LaneIsUpdate'
  BY DEF OrderInv, LaneIsUpdate
<1>4. SentAhead' /\ QueueInOrder' /\ WorkerInOrder'
  BY <1>1 DEF OrderInv, SentAhead, QueueInOrder, WorkerInOrder, AtWorker, Waits
<1> QED
  BY <1>2, <1>3, <1>4 DEF OrderInv

\* The deliveries age where they are; those of a replaced client will be skipped.
LEMMA OrderAged ==
  ASSUME TypeOK, OrderInv, NEW from \in From, from # "now", AgeAll(from), Disconnected,
         UNCHANGED <<sort, executed, refused, shared>>
  PROVE  OrderInv'
<1>1. /\ worker'.at = worker.at /\ worker'.msg = worker.msg
      /\ lane'.at = lane.at /\ lane'.msg = lane.msg
  BY AgeKeeps
<1>2. /\ Len(queue') = Len(queue)
      /\ \A i \in 1..Len(queue) : queue'[i].msg = queue[i].msg
      /\ \A i \in 1..Len(queue) : queue[i].from = "replaced" => queue'[i].from = "replaced"
      /\ \A i \in 1..Len(queue) : queue[i].from # "replaced" => queue'[i].from = from
  <2>1. queue \in Seq(Delivery) /\ DOMAIN queue = 1..Len(queue) /\ Len(queue) \in Nat
    BY DEF TypeOK
  <2>2. \A i \in 1..Len(queue) : queue[i] \in Delivery
    BY <2>1
  <2>3. queue' = [i \in 1..Len(queue) |-> Age(queue[i], from)]
    BY <2>1 DEF AgeAll
  <2>4. Len(queue') = Len(queue)
    BY <2>1, <2>3
  <2>5. \A d \in Delivery : /\ Age(d, from).msg = d.msg
                            /\ d.from = "replaced" => Age(d, from).from = "replaced"
                            /\ d.from # "replaced" => Age(d, from).from = from
    BY DEF Age, Delivery
  <2> QED
    BY <2>2, <2>3, <2>4, <2>5
<1>3. sent' = {} /\ \A n \in Command : overflow[n] # "no" => overflow'[n] # "no"
  BY DEF Disconnected
<1>4. \A n \in Command : Excused(n) => Excused(n)'
  BY <1>3, StillExcused
<1>5. InOrder'
  BY <1>4 DEF OrderInv, InOrder, Excused
<1>6. LaneIsUpdate' /\ SentAhead'
  BY <1>1, <1>3 DEF OrderInv, LaneIsUpdate, SentAhead
<1>7. QueueInOrder'
  <2> SUFFICES ASSUME NEW i \in 1..Len(queue), NEW n \in Command,
                      queue'[i].from # "replaced", n < queue'[i].msg
               PROVE  Excused(n)' \/ AtWorker(n)' \/ Waits(n, i - 1)'
    BY <1>2 DEF QueueInOrder
  <2>1. from # "replaced" /\ queue[i].from # "replaced" /\ n < queue[i].msg
    BY <1>2
  <2>2. Excused(n) \/ AtWorker(n) \/ Waits(n, i - 1)
    BY <2>1 DEF OrderInv, QueueInOrder
  <2>3. \A j \in 1..(i - 1) : j \in 1..Len(queue)
    BY DEF TypeOK
  <2>4. Waits(n, i - 1) => Waits(n, i - 1)'
    BY <1>2, <2>1, <2>3 DEF Waits
  <2> QED
    BY <1>1, <1>4, <2>2, <2>4 DEF AtWorker
<1>8. WorkerInOrder'
  BY <1>1, <1>4 DEF OrderInv, WorkerInOrder
<1> QED
  BY <1>5, <1>6, <1>7, <1>8 DEF OrderInv

\* The broker sends what it has not sent, the oldest first.
LEMMA OrderDeliver == ASSUME TypeOK, SafeInv, OrderInv, Deliver PROVE OrderInv'
<1>1. UNCHANGED <<sort, published, session, worker, lane, executed, refused, shared>>
  BY DEF Deliver, context, history
<1>2. PICK m \in session \ sent :
        /\ \A n \in session \ sent : m <= n
        /\ sent' = sent \cup {m}
        /\ \/ queue' = Append(queue, [msg |-> m, from |-> "now"]) /\ overflow' = overflow
           \/ overflow' = [overflow EXCEPT ![m] = "now"] /\ queue' = queue
  BY DEF Deliver
<1>3. /\ m \in Command /\ queue \in Seq(Delivery) /\ Len(queue) \in Nat
      /\ overflow \in [Command -> {"no", "now", "before"}]
  BY DEF TypeOK, Command
<1>4. \A n \in Command : Excused(n) => Excused(n)'
  <2>1. \A n \in Command : overflow[n] # "no" => overflow'[n] # "no"
    BY <1>2, <1>3
  <2> QED
    BY <1>1, <2>1, StillExcused
<1>5. InOrder' /\ LaneIsUpdate' /\ WorkerInOrder'
  BY <1>1, <1>4 DEF OrderInv, InOrder, Excused, LaneIsUpdate, WorkerInOrder
<1>6. ASSUME NEW n \in Command, n < m
      PROVE  Excused(n) \/ AtWorker(n) \/ Waits(n, Len(queue))
  <2>1. n \in 1..published
    BY <1>3, <1>6 DEF TypeOK, Command
  <2>2. n \in session => n \in sent
    BY <1>2, <1>3, <1>6 DEF Command
  <2>3. n \in session \/ Handled(n) \/ n \in shared
    BY <2>1 DEF SafeInv, NoCommandLost
  <2>4. n \in shared => sort[n] = "update"
    BY DEF OrderInv, LaneIsUpdate
  <2> QED
    BY <2>2, <2>3, <2>4 DEF OrderInv, SentAhead, Excused
<1>7. CASE overflow' = [overflow EXCEPT ![m] = "now"] /\ queue' = queue
  <2>1. Excused(m)'
    BY <1>3, <1>7 DEF Excused
  <2>2. sent \subseteq Command
    BY DEF TypeOK, Command
  <2>3. SentAhead'
    BY <1>1, <1>2, <1>4, <1>7, <2>1, <2>2 DEF OrderInv, SentAhead, AtWorker, Waits
  <2>4. QueueInOrder'
    BY <1>1, <1>4, <1>7 DEF OrderInv, QueueInOrder, AtWorker, Waits
  <2> QED
    BY <1>5, <2>3, <2>4 DEF OrderInv
<1>8. CASE queue' = Append(queue, [msg |-> m, from |-> "now"])
  <2> DEFINE d == [msg |-> m, from |-> "now"]
  <2>1. d.msg = m /\ d.from = "now"
    OBVIOUS
  <2>2. queue' = Append(queue, d)
    BY <1>8
  <2> HIDE DEF d
  <2>3. /\ Len(queue') = Len(queue) + 1 /\ queue'[Len(queue) + 1] = d
        /\ \A i \in 1..Len(queue) : queue'[i] = queue[i]
    BY <1>3, <2>2
  <2>4. /\ \A i \in 1..Len(queue) : i \in 1..(Len(queue) + 1)
        /\ \A i \in 1..(Len(queue) + 1) : i \in 1..Len(queue) \/ i = Len(queue) + 1
        /\ \A i \in 1..Len(queue) : \A j \in 1..(i - 1) : j \in 1..Len(queue)
        /\ (Len(queue) + 1) - 1 = Len(queue)
        /\ Len(queue) + 1 \in 1..(Len(queue) + 1)
    BY <1>3
  <2>5. ASSUME NEW n, Waits(n, Len(queue))
        PROVE  Waits(n, Len(queue))'
    BY <2>3, <2>4, <2>5 DEF Waits
  <2>6. \A n \in Command : AtWorker(n) => AtWorker(n)'
    BY <1>1 DEF AtWorker
  <2>7. SentAhead'
    <3>1. Waits(m, Len(queue))'
      BY <2>1, <2>3, <2>4 DEF Waits
    <3>2. ASSUME NEW n \in sent
          PROVE  Excused(n)' \/ AtWorker(n)' \/ Waits(n, Len(queue))'
      <4>1. n \in Command
        BY DEF TypeOK, Command
      <4>2. Excused(n) \/ AtWorker(n) \/ Waits(n, Len(queue))
        BY DEF OrderInv, SentAhead
      <4> QED
        BY <1>4, <2>5, <2>6, <4>1, <4>2
    <3> QED
      BY <1>2, <3>1, <3>2 DEF SentAhead
  <2>8. QueueInOrder'
    <3> SUFFICES ASSUME NEW i \in 1..(Len(queue) + 1), NEW n \in Command,
                        queue'[i].from # "replaced", n < queue'[i].msg
                 PROVE  Excused(n)' \/ AtWorker(n)' \/ Waits(n, i - 1)'
      BY <2>3 DEF QueueInOrder
    <3>1. CASE i \in 1..Len(queue)
      <4>1. Excused(n) \/ AtWorker(n) \/ Waits(n, i - 1)
        BY <2>3, <3>1 DEF OrderInv, QueueInOrder
      <4>2. Waits(n, i - 1) => Waits(n, i - 1)'
        BY <2>3, <2>4, <3>1 DEF Waits
      <4> QED
        BY <1>4, <2>6, <4>1, <4>2
    <3>2. CASE i = Len(queue) + 1
      <4>1. n < m
        BY <2>1, <2>3, <3>2
      <4>2. Excused(n) \/ AtWorker(n) \/ Waits(n, Len(queue))
        BY <1>6, <4>1
      <4>3. Waits(n, Len(queue)) => Waits(n, i - 1)'
        BY <2>3, <2>4, <3>2 DEF Waits
      <4> QED
        BY <1>4, <2>6, <4>2, <4>3
    <3> QED
      BY <2>4, <3>1, <3>2
  <2> QED
    BY <1>5, <2>7, <2>8 DEF OrderInv
<1> QED
  BY <1>2, <1>7, <1>8

\* The worker takes the first delivery of the queue, or skips it.
LEMMA OrderTake == ASSUME TypeOK, OrderInv, Take PROVE OrderInv'
<1> DEFINE d == Head(queue)
           tail == Tail(queue)
<1>1. /\ worker = Nobody /\ worker.at = "idle"
      /\ UNCHANGED <<sort, executed, refused, overflow>> /\ queue' = tail
  BY DEF Take, context, Nobody
<1>2. /\ Len(queue) \in Nat /\ d = queue[1] /\ 1 \in 1..Len(queue) /\ d \in Delivery
      /\ Len(tail) = Len(queue) - 1 /\ \A i \in 1..Len(tail) : tail[i] = queue[i + 1]
  BY HeadTailProperties, HeadType DEF Take, TypeOK
<1> HIDE DEF d, tail
<1>3. \/ d.from = "replaced" /\ UNCHANGED <<sent, worker, lane, shared>>
      \/ d.from # "replaced" /\ sort[d.msg] = "update" /\ sent' \subseteq sent
           /\ \/ lane' = Placed(d, "begin") /\ UNCHANGED <<worker, shared>>
              \/ shared' = shared \cup {d.msg} /\ UNCHANGED <<worker, lane>>
              \/ worker' = Placed(d, "refuse") /\ UNCHANGED <<lane, shared>>
      \/ d.from # "replaced" /\ UNCHANGED <<sent, lane, shared>>
           /\ worker' \in {Placed(d, "process"), Placed(d, "refuse")}
  BY DEF Take, TakeStale, TakeUpdate, TakeCommand, Ack, broker, d
<1>4. \A at : Placed(d, at).msg = d.msg /\ Placed(d, at).at = at
  BY DEF Placed
<1>5. sent' \subseteq sent
  BY <1>3
<1>6. \A n : Excused(n) => Excused(n)'
  BY <1>1, StillExcused
<1>7. InOrder'
  BY <1>1, <1>6 DEF OrderInv, InOrder, Excused
<1>8. LaneIsUpdate'
  BY <1>1, <1>3, <1>4 DEF OrderInv, LaneIsUpdate
<1>9. ASSUME d.from # "replaced", NEW n \in Command, n < d.msg
      PROVE  Excused(n)
  <2>1. Excused(n) \/ AtWorker(n) \/ Waits(n, 1 - 1)
    BY <1>2, <1>9 DEF OrderInv, QueueInOrder
  <2> QED
    BY <1>1, <2>1 DEF AtWorker, Waits
<1>10. WorkerInOrder'
  BY <1>1, <1>3, <1>4, <1>6, <1>9 DEF WorkerInOrder
<1>11. ASSUME d.from # "replaced", NEW n, n = d.msg
       PROVE  Excused(n)' \/ AtWorker(n)'
  BY <1>1, <1>3, <1>4, <1>11 DEF Excused, AtWorker
<1>12. ASSUME NEW n, NEW k \in 1..Len(queue), Waits(n, k)
       PROVE  Excused(n)' \/ AtWorker(n)' \/ Waits(n, k - 1)'
  <2>1. PICK j \in 1..k : queue[j].msg = n /\ queue[j].from # "replaced"
    BY <1>12 DEF Waits
  <2>2. CASE j = 1
    BY <1>2, <1>11, <2>1, <2>2
  <2>3. CASE j # 1
    <3>1. j - 1 \in 1..(k - 1) /\ j - 1 \in 1..Len(tail) /\ (j - 1) + 1 = j
      BY <1>2, <2>3
    <3>2. tail[j - 1] = queue[j]
      BY <1>2, <3>1
    <3> QED
      BY <1>1, <2>1, <3>1, <3>2 DEF Waits
  <2> QED
    BY <2>2, <2>3
<1>13. SentAhead'
  <2>1. PICK k \in 1..Len(queue) : k = Len(queue) /\ Len(tail) = k - 1
    BY <1>2
  <2>2. ASSUME NEW n \in sent
        PROVE  Excused(n)' \/ AtWorker(n)' \/ Waits(n, k - 1)'
    <3>1. Excused(n) \/ Waits(n, k)
      BY <1>1, <2>1 DEF OrderInv, SentAhead, AtWorker
    <3> QED
      BY <1>6, <1>12, <3>1
  <2> QED
    BY <1>1, <1>5, <2>1, <2>2 DEF SentAhead, Waits
<1>14. QueueInOrder'
  <2> SUFFICES ASSUME NEW i \in 1..Len(tail), NEW n \in Command,
                      tail[i].from # "replaced", n < tail[i].msg
               PROVE  Excused(n)' \/ AtWorker(n)' \/ Waits(n, i - 1)'
    BY <1>1 DEF QueueInOrder
  <2>1. i + 1 \in 1..Len(queue) /\ i \in 1..Len(queue) /\ (i + 1) - 1 = i
    BY <1>2
  <2>2. tail[i] = queue[i + 1]
    BY <1>2
  <2>3. Excused(n) \/ AtWorker(n) \/ Waits(n, (i + 1) - 1)
    BY <2>1, <2>2 DEF OrderInv, QueueInOrder
  <2>4. Excused(n) \/ Waits(n, i)
    BY <1>1, <2>1, <2>3 DEF AtWorker
  <2> QED
    BY <1>6, <1>12, <2>1, <2>4
<1> QED
  BY <1>7, <1>8, <1>10, <1>13, <1>14 DEF OrderInv

\* What the worker answers stops being at work there, and is handled.
LEMMA OrderWork ==
  ASSUME TypeOK, SafeInv, OrderInv, Process \/ Refuse \/ Acknowledge
  PROVE  OrderInv'
<1>1. /\ UNCHANGED <<sort, queue, lane, shared, overflow>> /\ sent' \subseteq sent
      /\ executed \subseteq executed' /\ refused \subseteq refused'
      /\ \A m \in executed' : m \in executed \/ (m = worker.msg /\ worker.at = "process")
  BY DEF Process, Refuse, Acknowledge, Ack, context, history, broker
<1>2. \/ worker'.at \in {"ack", "denied"} /\ worker'.msg = worker.msg
           /\ Handled(worker.msg)' /\ worker.at \in {"process", "refuse"}
      \/ worker' = Nobody /\ worker.at \in {"ack", "denied"}
  BY DEF Process, Refuse, Acknowledge, Handled, TypeOK, WorkerState, Nobody
<1>3. \A n : Excused(n) => Excused(n)'
  BY <1>1, StillExcused
<1>4. ASSUME NEW n, AtWorker(n)
      PROVE  Excused(n)'
  BY <1>2, <1>4 DEF AtWorker, Excused
<1>5. InOrder'
  <2> SUFFICES ASSUME NEW m \in executed', NEW n \in Command, n < m,
                      sort[n] # "update", sort[m] # "update"
               PROVE  Handled(n)' \/ overflow[n] # "no"
    BY <1>1 DEF InOrder
  <2>1. Excused(n)
    BY <1>1 DEF OrderInv, InOrder, WorkerInOrder, Excused
  <2> QED
    BY <1>1, <1>3, <2>1 DEF Excused
<1>6. LaneIsUpdate'
  BY <1>1 DEF OrderInv, LaneIsUpdate
<1>7. SentAhead' /\ QueueInOrder'
  BY <1>1, <1>3, <1>4 DEF OrderInv, SentAhead, QueueInOrder, Waits
<1>8. WorkerInOrder'
  BY <1>2, <1>3 DEF OrderInv, WorkerInOrder, Nobody
<1> QED
  BY <1>5, <1>6, <1>7, <1>8 DEF OrderInv

LEMMA OrderLane == ASSUME TypeOK, OrderInv, LaneNext PROVE OrderInv'
<1>1. /\ UNCHANGED <<sort, queue, overflow, refused, worker, shared>>
      /\ lane.at # "none" /\ sent' \subseteq sent /\ executed \subseteq executed'
      /\ \A m \in executed' : m \in executed \/ m = lane.msg
      /\ lane'.at # "none" => lane'.msg = lane.msg
  <2>1. /\ lane.at \in {"begin", "run", "installed", "failed", "ack"}
        /\ UNCHANGED <<sort, queue, overflow, refused, worker, shared>>
    BY DEF LaneNext, Begin, Install, InstallFails, Interrupted, Record, AckUpdate, context, history
  <2>2. (\E at : Step(at)) \/ lane' = NoUpdate
    BY DEF LaneNext, Begin, Install, InstallFails, Interrupted, Record, AckUpdate
  <2>3. lane'.at # "none" => lane'.msg = lane.msg
    BY <2>1, <2>2 DEF Step, NoUpdate, TypeOK, LaneState
  <2>4. sent' \subseteq sent
    BY DEF LaneNext, Begin, Install, InstallFails, Interrupted, Record, AckUpdate, Ack, broker
  <2>5. executed' = executed \/ executed' = executed \cup {lane.msg}
    BY DEF LaneNext, Begin, Install, InstallFails, Interrupted, Record, AckUpdate, history
  <2> QED
    BY <2>1, <2>3, <2>4, <2>5
<1>2. sort[lane.msg] = "update"
  BY <1>1 DEF OrderInv, LaneIsUpdate
<1> QED
  BY <1>1, <1>2, OrderKept

LEMMA OrderProcess ==
  ASSUME TypeOK, OrderInv, Shutdown \/ Exit \/ Crash \/ Start
  PROVE  OrderInv'
<1>1. CASE Shutdown \/ Start
  <2>1. UNCHANGED <<sort, queue, overflow, refused, worker, shared, sent, executed, lane>>
    BY <1>1 DEF Shutdown, Start, broker, history, context
  <2> QED
    BY <2>1, OrderKept
<1>2. CASE Exit \/ Crash
  <2>1. /\ queue' = <<>> /\ worker' = Nobody /\ lane' = NoUpdate /\ Disconnected
        /\ UNCHANGED <<sort, executed, refused, shared>>
    BY <1>2 DEF Exit, Crash, Down, context
  <2>2. sent' = {} /\ \A n \in Command : overflow[n] # "no" => overflow'[n] # "no"
    BY <2>1 DEF Disconnected
  <2>3. \A n \in Command : Excused(n) => Excused(n)'
    BY <2>1, <2>2, StillExcused
  <2>4. InOrder'
    BY <2>1, <2>3 DEF OrderInv, InOrder, Excused
  <2>5. Len(queue') = 0
    BY <2>1
  <2>6. LaneIsUpdate' /\ SentAhead' /\ QueueInOrder' /\ WorkerInOrder'
    BY <2>1, <2>2, <2>5
       DEF OrderInv, LaneIsUpdate, SentAhead, QueueInOrder, WorkerInOrder, Nobody, NoUpdate
  <2> QED
    BY <2>4, <2>6 DEF OrderInv
<1> QED
  BY <1>1, <1>2

LEMMA OrderInit == Init => OrderInv
BY DEF Init, OrderInv, InOrder, LaneIsUpdate, SentAhead, QueueInOrder, WorkerInOrder, Nobody,
       NoUpdate

LEMMA OrderStep == TypeOK /\ SafeInv /\ OrderInv /\ [Next]_vars => OrderInv'
<1> SUFFICES ASSUME TypeOK, SafeInv, OrderInv, [Next]_vars
             PROVE  OrderInv'
  OBVIOUS
<1>1. CASE Publish \/ Connect \/ UNCHANGED vars
  <2>1. UNCHANGED <<sort, queue, overflow, refused, worker, shared, sent, executed, lane>>
    BY <1>1 DEF Publish, Connect, vars, broker, history, context
  <2> QED
    BY <2>1, OrderKept
<1>2. CASE Deliver
  BY <1>2, OrderDeliver
<1>3. CASE LoseConnection
  <2>1. "before" \in From
    BY DEF From
  <2> QED
    BY <1>3, <2>1, OrderAged DEF LoseConnection, context, history
<1>4. CASE Rebuild
  <2>1. "replaced" \in From
    BY DEF From
  <2> QED
    BY <1>4, <2>1, OrderAged DEF Rebuild, context, history
<1>5. CASE WorkerNext
  BY <1>5, OrderTake, OrderWork DEF WorkerNext
<1>6. CASE LaneNext
  BY <1>6, OrderLane
<1>7. CASE Shutdown \/ Exit \/ Crash \/ Start
  BY <1>7, OrderProcess
<1> QED
  BY <1>1, <1>2, <1>3, <1>4, <1>5, <1>6, <1>7 DEF Next

\* What waits, in the queue or at the broker, waits in the order of its
\* publication, whatever connections and processes come and go.
THEOREM OrderAlways == Spec => []OrderInv
BY TypeInit, TypeStep, SafeInit, SafeStep, OrderInit, OrderStep, PTL DEF Spec

\* Vehicle commands are executed in the order of their publication, across any
\* number of reconnects, rebuilds, crashes and updates, but for those that
\* found the queue full.
THEOREM CommandsAreInOrder == Spec => []InOrder
<1>1. OrderInv => InOrder
  BY DEF OrderInv
<1> QED
  BY <1>1, OrderAlways, PTL
=============================================================================
