---------------------------- MODULE UplinkProofs ----------------------------
(***************************************************************************)
(* Proofs about what the scooter sends of its own accord: the lines of its  *)
(* journal (LogStreaming), what leads to a flush of the telemetry           *)
(* (TelemetryMonitor), and what the server knows of it (Telemetry).  Each   *)
(* holds for any value of the constants.                                    *)
(***************************************************************************)
EXTENDS LogStreaming, TelemetryMonitor, Telemetry, FiniteSetTheorems, TLAPS

(* LogStreaming: its types, and that no line is skipped. *)

USE LogStreamingAssumption DEF LogStreamingAssumption

\* The cursor is a line of the journal.
CursorInJournal == cursor # Absent => cursor \in 1..lines

\* A tailer that has still to record what it has uploaded has uploaded a line.
Recorded ==
  \A t \in Tailers :
    At(t, "recording") => /\ tailers[t].read # 0
                          /\ 1..tailers[t].read \subseteq uploaded

\* NothingSkipped, and what it takes to keep it.
StreamInv == StreamingTypeOK /\ CursorInJournal /\ Recorded /\ NothingSkipped

\* What the two steps that upload a batch share: it goes on where the
\* uploaded lines end.
LEMMA BatchFollows ==
  ASSUME StreamInv, NEW t \in Tailers
  PROVE  1..tailers[t].read \subseteq uploaded \cup Buffer(t)
<1>1. tailers[t].sent \in Nat /\ tailers[t].read \in Nat
  BY DEF StreamInv, StreamingTypeOK, TailerStates
<1>2. 1..tailers[t].sent \subseteq uploaded
  BY DEF StreamInv, NothingSkipped
<1> QED
  BY <1>1, <1>2 DEF Buffer

\* A tailer that changes alone, and keeps what the invariant says of a tailer.
LEMMA OneTailer ==
  ASSUME StreamInv, NEW t \in Tailers, NEW state \in TailerStates,
         Goes(t, state), UNCHANGED <<lines, cursor, managerCancel, rearm, session>>,
         uploaded \subseteq uploaded', uploaded' \subseteq Lines,
         state.sent <= state.read, state.read <= lines,
         1..state.sent \subseteq uploaded',
         state.at = "recording" => state.read # 0 /\ 1..state.read \subseteq uploaded'
  PROVE  StreamInv'
<1>1. /\ tailers' \in [Tailers -> TailerStates]
      /\ \A u \in Tailers : tailers'[u] = IF u = t THEN state ELSE tailers[u]
  BY DEF Goes, StreamInv, StreamingTypeOK
<1>2. StreamingTypeOK'
  BY <1>1 DEF StreamInv, StreamingTypeOK
<1>3. CursorInJournal'
  BY DEF StreamInv, CursorInJournal
<1>4. Recorded'
  BY <1>1 DEF StreamInv, Recorded, At
<1>5. NothingSkipped'
  BY <1>1 DEF StreamInv, NothingSkipped
<1> QED
  BY <1>2, <1>3, <1>4, <1>5 DEF StreamInv

LEMMA StreamInit == StreamingInit => StreamInv
<1> SUFFICES ASSUME StreamingInit
             PROVE  StreamInv
  OBVIOUS
<1>1. Free \in TailerStates
  BY DEF Free, TailerStates, Stages
<1>2. StreamingTypeOK
  BY <1>1 DEF StreamingInit, StreamingTypeOK, Free
<1>3. CursorInJournal /\ Recorded /\ NothingSkipped
  BY DEF StreamingInit, CursorInJournal, Recorded, NothingSkipped, At, Free
<1> QED
  BY <1>2, <1>3 DEF StreamInv

\* A tailer that has just been started.
LEMMA SpawnedState ==
  /\ [Free EXCEPT !.at = "spawned"] \in TailerStates
  /\ [Free EXCEPT !.at = "spawned"].sent = 0
  /\ [Free EXCEPT !.at = "spawned"].read = 0
  /\ [Free EXCEPT !.at = "spawned"].at = "spawned"
<1>1. Free \in TailerStates /\ Free.sent = 0 /\ Free.read = 0
  BY DEF Free, TailerStates, Stages
<1> QED
  BY <1>1 DEF TailerStates, Stages

\* StartManager starts at most one tailer, which has nothing yet.
LEMMA StartKeeps ==
  ASSUME StreamInv, StartManager, UNCHANGED <<lines, uploaded>>,
         rearm' \in BOOLEAN, session' \in Sessions \cup {Absent},
         cursor' \in {cursor, Absent}
  PROVE  StreamInv'
<1>1. /\ tailers' \in [Tailers -> TailerStates]
      /\ managerCancel' \in Tailers \cup {Absent}
      /\ \A u \in Tailers : tailers'[u] \in {tailers[u], [Free EXCEPT !.at = "spawned"]}
  <2>1. CASE managerCancel # Absent
    BY <2>1 DEF StartManager, StreamInv, StreamingTypeOK
  <2>2. CASE managerCancel = Absent
    <3>1. PICK t \in Tailers : managerCancel' = t /\ Goes(t, [Free EXCEPT !.at = "spawned"])
      BY <2>2 DEF StartManager
    <3>2. [Free EXCEPT !.at = "spawned"] \in TailerStates
      BY SpawnedState
    <3> QED
      BY <3>1, <3>2 DEF Goes, StreamInv, StreamingTypeOK
  <2> QED
    BY <2>1, <2>2
<1>2. /\ [Free EXCEPT !.at = "spawned"].sent = 0
      /\ [Free EXCEPT !.at = "spawned"].read = 0
      /\ [Free EXCEPT !.at = "spawned"].at = "spawned"
  BY SpawnedState
<1>3. StreamingTypeOK'
  <2>1. lines \in 0..MaxLines /\ cursor \in Lines \cup {Absent} /\ uploaded \subseteq Lines
    BY DEF StreamInv, StreamingTypeOK
  <2>2. ASSUME NEW u \in Tailers
        PROVE  tailers'[u].sent <= tailers'[u].read /\ tailers'[u].read <= lines
    <3>1. CASE tailers'[u] = tailers[u]
      BY <3>1 DEF StreamInv, StreamingTypeOK
    <3>2. CASE tailers'[u] = [Free EXCEPT !.at = "spawned"]
      BY <3>2, <1>2, <2>1
    <3> QED
      BY <1>1, <3>1, <3>2
  <2> QED
    BY <1>1, <2>1, <2>2 DEF StreamingTypeOK
<1>4. CursorInJournal'
  BY DEF StreamInv, CursorInJournal
<1>5. Recorded'
  BY <1>1, <1>2 DEF StreamInv, Recorded, At
<1>6. NothingSkipped'
  <2>1. cursor' # Absent => 1..cursor' \subseteq uploaded'
    BY DEF StreamInv, NothingSkipped
  <2>2. ASSUME NEW u \in Tailers
        PROVE  1..tailers'[u].sent \subseteq uploaded'
    <3>1. CASE tailers'[u] = tailers[u]
      BY <3>1 DEF StreamInv, NothingSkipped
    <3>2. CASE tailers'[u] = [Free EXCEPT !.at = "spawned"]
      BY <3>2, <1>2
    <3> QED
      BY <1>1, <3>1, <3>2
  <2> QED
    BY <2>1, <2>2 DEF NothingSkipped
<1> QED
  BY <1>3, <1>4, <1>5, <1>6 DEF StreamInv

LEMMA StopKeeps == StreamInv /\ StopLogUpload => StreamInv'
<1> SUFFICES ASSUME StreamInv, StopLogUpload
             PROVE  StreamInv'
  OBVIOUS
<1>1. /\ session' = Absent /\ cursor' = Absent /\ managerCancel' = Absent
      /\ UNCHANGED <<lines, rearm, uploaded>>
  BY DEF StopLogUpload
<1>2. ASSUME NEW u \in Tailers
      PROVE  /\ tailers'[u] \in TailerStates
             /\ tailers'[u].at = tailers[u].at
             /\ tailers'[u].sent = tailers[u].sent
             /\ tailers'[u].read = tailers[u].read
  BY DEF StopLogUpload, StreamInv, StreamingTypeOK, TailerStates
<1>3. tailers' \in [Tailers -> TailerStates]
  BY <1>2 DEF StopLogUpload
<1>4. StreamingTypeOK'
  BY <1>1, <1>2, <1>3 DEF StreamInv, StreamingTypeOK
<1>5. CursorInJournal' /\ Recorded' /\ NothingSkipped'
  BY <1>1, <1>2 DEF StreamInv, CursorInJournal, Recorded, NothingSkipped, At
<1> QED
  BY <1>4, <1>5 DEF StreamInv

LEMMA RestartKeeps == StreamInv /\ Restart => StreamInv'
<1> SUFFICES ASSUME StreamInv, Restart
             PROVE  StreamInv'
  OBVIOUS
<1>1. Free \in TailerStates /\ Free.sent = 0 /\ Free.read = 0 /\ Free.at = "free"
  BY DEF Free, TailerStates, Stages
<1>2. StreamingTypeOK'
  BY <1>1 DEF Restart, files, StreamInv, StreamingTypeOK
<1>3. CursorInJournal' /\ Recorded' /\ NothingSkipped'
  BY <1>1 DEF Restart, files, StreamInv, CursorInJournal, Recorded, NothingSkipped, At
<1> QED
  BY <1>2, <1>3 DEF StreamInv

LEMMA StreamNext == StreamInv /\ [StreamingNext]_streamingVars => StreamInv'
<1> SUFFICES ASSUME StreamInv, [StreamingNext]_streamingVars
             PROVE  StreamInv'
  OBVIOUS
<1>types. ASSUME NEW t \in Tailers
          PROVE  /\ tailers[t] \in TailerStates
                 /\ tailers[t].sent \in Nat /\ tailers[t].read \in Nat
                 /\ tailers[t].sent <= tailers[t].read /\ tailers[t].read <= lines
                 /\ 1..tailers[t].sent \subseteq uploaded
  BY DEF StreamInv, StreamingTypeOK, TailerStates, NothingSkipped
<1>lines. lines \in 0..MaxLines /\ uploaded \subseteq Lines
  BY DEF StreamInv, StreamingTypeOK
<1>moved. ASSUME NEW t \in Tailers, NEW stage \in Stages \ {"recording"}, Enters(t, stage),
                 UNCHANGED <<lines, files, managerCancel, rearm, uploaded>>
          PROVE  StreamInv'
  <2> DEFINE state == [tailers[t] EXCEPT !.at = stage]
  <2>1. /\ state \in TailerStates /\ state.sent = tailers[t].sent
        /\ state.read = tailers[t].read /\ state.at = stage
    BY <1>types DEF TailerStates
  <2>2. Goes(t, state)
    BY <1>moved DEF Enters, Goes
  <2> HIDE DEF state
  <2> QED
    BY <1>types, <1>lines, <1>moved, <2>1, <2>2, OneTailer DEF files
<1>1. CASE StartLogUpload
  BY <1>1, StartKeeps DEF StartLogUpload, StreamInv, StreamingTypeOK
<1>2. CASE StopLogUpload
  BY <1>2, StopKeeps
<1>3. CASE Restart
  BY <1>3, RestartKeeps
<1>4. CASE Rearm
  <2>1. CASE session = Absent
    BY <1>4, <2>1 DEF Rearm, files, StreamInv, StreamingTypeOK, CursorInJournal, Recorded,
                      NothingSkipped, At
  <2>2. CASE session # Absent
    BY <1>4, <2>2, StartKeeps DEF Rearm, files, StreamInv, StreamingTypeOK
  <2> QED
    BY <2>1, <2>2
<1>5. CASE Log
  <2>1. StreamingTypeOK'
    BY <1>5, <1>types, <1>lines DEF Log, files, StreamInv, StreamingTypeOK
  <2>2. CursorInJournal' /\ Recorded' /\ NothingSkipped'
    BY <1>5, <1>lines DEF Log, files, StreamInv, CursorInJournal, Recorded, NothingSkipped, At
  <2> QED
    BY <2>1, <2>2 DEF StreamInv
<1>6. ASSUME NEW t \in Tailers, Begin(t)
      PROVE  StreamInv'
  <2> DEFINE start == IF cursor = Absent THEN 0 ELSE cursor
             state == [tailers[t] EXCEPT !.at = "reading", !.session = session,
                                         !.sent = start, !.read = start]
  <2>1. start \in 0..lines /\ 1..start \subseteq uploaded
    BY <1>lines DEF StreamInv, CursorInJournal, NothingSkipped
  <2>2. CASE session = Absent
    BY <1>6, <2>2, <1>moved DEF Begin, Stages
  <2>3. CASE session # Absent
    <3>1. session \in Sessions \cup {Absent}
      BY DEF StreamInv, StreamingTypeOK
    <3>2. Goes(t, state)
      BY <1>6, <2>3 DEF Begin
    <3> HIDE DEF start
    <3>3. /\ state \in TailerStates /\ state.at = "reading"
          /\ state.sent = start /\ state.read = start
      <4>1. start \in 0..MaxLines
        BY <1>lines, <2>1
      <4> QED
        BY <1>types, <4>1, <3>1 DEF TailerStates, Stages
    <3> HIDE DEF state
    <3> QED
      BY <1>6, <1>lines, <2>1, <3>2, <3>3, OneTailer DEF Begin, files
  <2> QED
    BY <2>2, <2>3
<1>7. ASSUME NEW t \in Tailers, ReadLine(t)
      PROVE  StreamInv'
  <2> DEFINE state == [tailers[t] EXCEPT !.read = @ + 1]
  <2>1. /\ state \in TailerStates /\ state.at = "reading"
        /\ state.sent = tailers[t].sent /\ state.read = tailers[t].read + 1
    BY <1>7, <1>types, <1>lines DEF ReadLine, At, TailerStates
  <2>2. Goes(t, state) /\ tailers[t].read < lines
    BY <1>7 DEF ReadLine, Goes
  <2> HIDE DEF state
  <2> QED
    BY <1>7, <1>types, <1>lines, <2>1, <2>2, OneTailer DEF ReadLine, files
<1>8. ASSUME NEW t \in Tailers, Upload(t)
      PROVE  StreamInv'
  <2> DEFINE state == [tailers[t] EXCEPT !.at = "recording"]
  <2>1. /\ state \in TailerStates /\ state.at = "recording"
        /\ state.sent = tailers[t].sent /\ state.read = tailers[t].read
    BY <1>types DEF TailerStates, Stages
  <2>2. Goes(t, state) /\ uploaded' = uploaded \cup Buffer(t)
    BY <1>8 DEF Upload, Enters, Goes
  <2>3. state.read # 0 /\ Buffer(t) \subseteq Lines
    BY <1>8, <1>types, <1>lines, <2>1 DEF Upload, CanUpload, Due, Buffer, Lines
  <2>4. 1..state.read \subseteq uploaded'
    BY <2>1, <2>2, BatchFollows
  <2> HIDE DEF state
  <2> QED
    BY <1>8, <1>types, <1>lines, <2>1, <2>2, <2>3, <2>4, OneTailer DEF Upload, files
<1>9. ASSUME NEW t \in Tailers, UploadFails(t)
      PROVE  StreamInv'
  <2>1. Goes(t, tailers[t]) /\ tailers[t].at = "reading"
    BY <1>9 DEF UploadFails, CanUpload, At, Kept
  <2>2. Buffer(t) \subseteq Lines
    BY <1>types, <1>lines DEF Buffer, Lines
  <2>3. uploaded \subseteq uploaded' /\ uploaded' \subseteq Lines
    BY <1>9, <1>lines, <2>2 DEF UploadFails
  <2> QED
    BY <1>9, <1>types, <2>1, <2>3, OneTailer DEF UploadFails, files
<1>10. ASSUME NEW t \in Tailers, UploadRefused(t)
       PROVE  StreamInv'
  BY <1>10, <1>moved DEF UploadRefused, Stages
<1>11. ASSUME NEW t \in Tailers, WriteCursor(t)
       PROVE  StreamInv'
  <2> DEFINE state == [tailers[t] EXCEPT !.at = "reading", !.sent = tailers[t].read]
  <2>1. /\ state \in TailerStates /\ state.at = "reading"
        /\ state.sent = tailers[t].read /\ state.read = tailers[t].read
    BY <1>types DEF TailerStates, Stages
  <2>2. Goes(t, state) /\ cursor' = tailers[t].read
        /\ UNCHANGED <<lines, session, managerCancel, rearm, uploaded>>
    BY <1>11 DEF WriteCursor
  <2>3. tailers[t].read \in 1..lines /\ 1..tailers[t].read \subseteq uploaded
    BY <1>11, <1>types, <1>lines DEF WriteCursor, StreamInv, Recorded
  <2>4. /\ tailers' \in [Tailers -> TailerStates]
        /\ \A u \in Tailers : tailers'[u] = IF u = t THEN state ELSE tailers[u]
    BY <2>1, <2>2 DEF Goes, StreamInv, StreamingTypeOK
  <2> HIDE DEF state
  <2>5. StreamingTypeOK'
    BY <1>types, <1>lines, <2>1, <2>2, <2>3, <2>4 DEF StreamInv, StreamingTypeOK, Lines
  <2>6. CursorInJournal'
    BY <2>2, <2>3 DEF CursorInJournal
  <2>7. Recorded'
    BY <2>1, <2>2, <2>4 DEF StreamInv, Recorded, At
  <2>8. NothingSkipped'
    BY <2>1, <2>2, <2>3, <2>4 DEF StreamInv, NothingSkipped
  <2> QED
    BY <2>5, <2>6, <2>7, <2>8 DEF StreamInv
<1>12. ASSUME NEW t \in Tailers, ClearRefused(t)
       PROVE  StreamInv'
  <2> DEFINE state == [tailers[t] EXCEPT !.at = "done"]
  <2>1. /\ state \in TailerStates /\ state.at = "done"
        /\ state.sent = tailers[t].sent /\ state.read = tailers[t].read
    BY <1>types DEF TailerStates, Stages
  <2>2. /\ session' = Absent /\ cursor' = Absent
        /\ UNCHANGED <<lines, managerCancel, rearm, uploaded>>
        /\ tailers' = [tailers EXCEPT ![t] = state]
    BY <1>12 DEF ClearRefused, Enters
  <2>3. /\ tailers' \in [Tailers -> TailerStates]
        /\ \A u \in Tailers : tailers'[u] = IF u = t THEN state ELSE tailers[u]
    BY <2>1, <2>2 DEF StreamInv, StreamingTypeOK
  <2> HIDE DEF state
  <2>4. StreamingTypeOK'
    BY <1>types, <2>1, <2>2, <2>3 DEF StreamInv, StreamingTypeOK
  <2>5. CursorInJournal' /\ Recorded' /\ NothingSkipped'
    BY <2>1, <2>2, <2>3 DEF StreamInv, CursorInJournal, Recorded, NothingSkipped, At
  <2> QED
    BY <2>4, <2>5 DEF StreamInv
<1>13. ASSUME NEW t \in Tailers, Leave(t) \/ ReaderEnds(t)
       PROVE  StreamInv'
  BY <1>13, <1>moved DEF Leave, ReaderEnds, Stages
<1>14. ASSUME NEW t \in Tailers, End(t)
       PROVE  StreamInv'
  <2>1. Free \in TailerStates /\ Free.sent = 0 /\ Free.read = 0 /\ Free.at = "free"
    BY DEF Free, TailerStates, Stages
  <2>2. /\ tailers' \in [Tailers -> TailerStates]
        /\ \A u \in Tailers : tailers'[u] = IF u = t THEN Free ELSE tailers[u]
    BY <1>14, <2>1 DEF End, Goes, StreamInv, StreamingTypeOK
  <2>3. StreamingTypeOK'
    BY <1>14, <1>lines, <2>1, <2>2 DEF End, files, StreamInv, StreamingTypeOK
  <2>4. CursorInJournal' /\ Recorded' /\ NothingSkipped'
    BY <1>14, <2>1, <2>2 DEF End, files, StreamInv, CursorInJournal, Recorded,
                             NothingSkipped, At
  <2> QED
    BY <2>3, <2>4 DEF StreamInv
<1>15. CASE UNCHANGED streamingVars
  BY <1>15 DEF streamingVars, files, StreamInv, StreamingTypeOK, CursorInJournal, Recorded,
               NothingSkipped, At
<1> QED
  BY <1>1, <1>2, <1>3, <1>4, <1>5, <1>6, <1>7, <1>8, <1>9, <1>10, <1>11, <1>12, <1>13,
     <1>14, <1>15 DEF StreamingNext

\* The types, and what keeps them, whatever is started, stopped and refused.
THEOREM StreamInvHolds == StreamingSpec => []StreamInv
<1> QED
  BY StreamInit, StreamNext, PTL DEF StreamingSpec

\* The types of the model of log streaming.
THEOREM StreamingTypeCorrect == StreamingSpec => []StreamingTypeOK
<1>1. StreamInv => StreamingTypeOK
  BY DEF StreamInv
<1> QED
  BY <1>1, StreamInvHolds, PTL

\* However starts, stops, failed uploads and restarts follow one another, what
\* comes before the cursor, and before the buffer of a tailer, is uploaded.
THEOREM NoLineSkipped == StreamingSpec => []NothingSkipped
<1>1. StreamInv => NothingSkipped
  BY DEF StreamInv
<1> QED
  BY <1>1, StreamInvHolds, PTL

-----------------------------------------------------------------------------
(* TelemetryMonitor: its types, and that what is pending is timed. *)

USE MonitorAssumption DEF MonitorAssumption

\* A callback that has started can still become a stray one.
StrayRoom == \A p \in Priorities : timer[p] = "expired" => stray[p] < MaxStray

\* PendingIsTimed, and what it takes to keep it and the types.
MonitorInv ==
  /\ MonitorTypeOK
  /\ IsFiniteSet(fanOuts)
  /\ StrayRoom
  /\ PendingIsTimed

LEMMA MonitorInitial == MonitorInit => MonitorInv
<1> SUFFICES ASSUME MonitorInit
             PROVE  MonitorInv
  OBVIOUS
<1>1. IsFiniteSet(fanOuts) /\ Cardinality(fanOuts) = 0
  BY FS_EmptySet DEF MonitorInit
<1>2. last \in [Hashes -> {Quantize(v) : v \in Values}]
  BY DEF MonitorInit
<1>3. MonitorTypeOK
  BY <1>1, <1>2 DEF MonitorInit, MonitorTypeOK
<1>4. StrayRoom /\ PendingIsTimed
  BY DEF MonitorInit, StrayRoom, PendingIsTimed
<1> QED
  BY <1>1, <1>3, <1>4 DEF MonitorInv

\* Stopping the timers makes a stray callback of each that has started.
LEMMA StoppedType ==
  ASSUME MonitorInv
  PROVE  Stopped(stray) \in [Priorities -> 0..MaxStray]
<1>1. ASSUME NEW p \in Priorities
      PROVE  stray[p] + (IF timer[p] = "expired" THEN 1 ELSE 0) \in 0..MaxStray
  BY DEF MonitorInv, MonitorTypeOK, StrayRoom
<1> QED
  BY <1>1 DEF Stopped

\* The bus leaves the monitor alone.
LEMMA BusKeeps ==
  ASSUME MonitorInv, UNCHANGED priorityVars,
         hashes' \in [Hashes -> Values], pending' \subseteq Hashes,
         fanOuts' \subseteq FanOuts, IsFiniteSet(fanOuts'), Cardinality(fanOuts') <= MaxFanOuts
  PROVE  MonitorInv'
BY DEF MonitorInv, MonitorTypeOK, StrayRoom, PendingIsTimed, priorityVars

LEMMA FlushPriorityKeeps ==
  ASSUME MonitorInv, NEW p \in Priorities, FlushPriority(p)
  PROVE  MonitorInv'
<1>1. PICK isStray \in BOOLEAN :
        LET strays == IF ~isStray THEN stray
                      ELSE [stray EXCEPT ![p] = IF timer[p] = "none" THEN @ - 1 ELSE @]
        IN /\ IF isStray THEN stray[p] > 0 ELSE timer[p] = "expired"
           /\ IF changes = {}
                THEN /\ timer' = [timer EXCEPT ![p] = "none"]
                     /\ stray' = strays
                     /\ UNCHANGED changes
                ELSE ClearAll(p, strays)
           /\ UNCHANGED <<hashes, busVars, last>>
  BY DEF FlushPriority
<1>types. /\ stray \in [Priorities -> 0..MaxStray] /\ StrayRoom
          /\ timer \in [Priorities -> {"none", "running", "expired"}]
  BY DEF MonitorInv, MonitorTypeOK
<1>2. PICK strays : strays = IF ~isStray THEN stray
                    ELSE [stray EXCEPT ![p] = IF timer[p] = "none" THEN @ - 1 ELSE @]
  OBVIOUS
<1>3. /\ strays \in [Priorities -> 0..MaxStray]
      /\ \A q \in Priorities \ {p} : strays[q] = stray[q]
  BY <1>1, <1>2, <1>types
<1>4. /\ stray' \in [Priorities -> 0..MaxStray]
      /\ timer' \in [Priorities -> {"none", "running", "expired"}]
      /\ StrayRoom' /\ PendingIsTimed' /\ changes' \subseteq changes
  <2>1. CASE changes = {}
    <3>1. timer' = [timer EXCEPT ![p] = "none"] /\ stray' = strays /\ changes' = {}
      BY <1>1, <1>2, <2>1
    <3> QED
      BY <1>3, <1>types, <3>1 DEF StrayRoom, PendingIsTimed
  <2>2. CASE changes # {}
    <3>1. /\ changes' = {} /\ timer' = [q \in Priorities |-> "none"]
          /\ stray' = [Stopped(strays) EXCEPT ![p] = strays[p]]
      BY <1>1, <1>2, <2>2 DEF ClearAll
    <3>2. ASSUME NEW q \in Priorities \ {p}
          PROVE  strays[q] + (IF timer[q] = "expired" THEN 1 ELSE 0) \in 0..MaxStray
      BY <1>3, <1>types DEF StrayRoom
    <3>3. stray' \in [Priorities -> 0..MaxStray]
      BY <1>3, <3>1, <3>2 DEF Stopped
    <3> QED
      BY <3>1, <3>3 DEF StrayRoom, PendingIsTimed
  <2> QED
    BY <2>1, <2>2
<1>5. UNCHANGED <<hashes, pending, fanOuts, last>>
  BY <1>1 DEF busVars
<1> QED
  BY <1>4, <1>5 DEF MonitorInv, MonitorTypeOK

LEMMA HandleFieldChangeKeeps ==
  ASSUME MonitorInv, NEW f \in fanOuts, HandleFieldChange(f)
  PROVE  MonitorInv'
<1>1. /\ f.hash \in Hashes /\ f.value \in Values
      /\ Priority[f.hash] \in Priorities
  BY DEF MonitorInv, MonitorTypeOK, FanOuts
<1>2. /\ fanOuts' \subseteq FanOuts /\ IsFiniteSet(fanOuts')
      /\ Cardinality(fanOuts') <= MaxFanOuts
  <2>1. /\ fanOuts' = fanOuts \ {f} /\ IsFiniteSet(fanOuts)
        /\ Cardinality(fanOuts) <= MaxFanOuts /\ fanOuts \subseteq FanOuts
    BY DEF HandleFieldChange, MonitorInv, MonitorTypeOK
  <2>2. Cardinality(fanOuts) \in Nat /\ Cardinality(fanOuts') = Cardinality(fanOuts) - 1
    BY <2>1, FS_RemoveElement, FS_CardinalityType
  <2> QED
    BY <2>1, <2>2, FS_RemoveElement
<1>3. UNCHANGED <<hashes, pending>>
  BY DEF HandleFieldChange
<1>4. CASE last[f.hash] = Quantize(f.value)
  <2>1. UNCHANGED priorityVars
    BY <1>4 DEF HandleFieldChange
  <2> QED
    BY <1>2, <1>3, <2>1, BusKeeps DEF MonitorInv, MonitorTypeOK
<1>5. CASE last[f.hash] # Quantize(f.value)
  <2> DEFINE p == Priority[f.hash]
  <2>1. /\ last' = [last EXCEPT ![f.hash] = Quantize(f.value)]
        /\ changes' = changes \cup {f.hash}
        /\ timer' = [timer EXCEPT ![p] = IF @ = "none" THEN "running" ELSE @]
        /\ UNCHANGED stray
    BY <1>5 DEF HandleFieldChange
  <2>2. last' \in [Hashes -> {Quantize(v) : v \in Values}]
    BY <1>1, <2>1 DEF MonitorInv, MonitorTypeOK
  <2>3. /\ timer' \in [Priorities -> {"none", "running", "expired"}]
        /\ timer'[p] # "none"
        /\ \A q \in Priorities : timer[q] # "none" => timer'[q] = timer[q]
        /\ \A q \in Priorities : timer'[q] = "expired" => timer[q] = "expired"
    BY <1>1, <2>1 DEF MonitorInv, MonitorTypeOK
  <2>4. PendingIsTimed'
    <3> SUFFICES ASSUME NEW h \in changes'
                 PROVE  timer'[Priority[h]] # "none"
      BY DEF PendingIsTimed
    <3>1. CASE h = f.hash
      BY <2>3, <3>1
    <3>2. CASE h \in changes
      BY <2>3, <3>2 DEF MonitorInv, MonitorTypeOK, PendingIsTimed
    <3> QED
      BY <2>1, <3>1, <3>2
  <2>5. StrayRoom'
    BY <2>1, <2>3 DEF MonitorInv, StrayRoom
  <2>6. MonitorTypeOK'
    BY <1>1, <1>2, <1>3, <2>1, <2>2, <2>3 DEF MonitorInv, MonitorTypeOK
  <2> QED
    BY <1>2, <2>4, <2>5, <2>6 DEF MonitorInv
<1> QED
  BY <1>4, <1>5

LEMMA MonitorStep == MonitorInv /\ [MonitorNext]_monitorVars => MonitorInv'
<1> SUFFICES ASSUME MonitorInv, [MonitorNext]_monitorVars
             PROVE  MonitorInv'
  OBVIOUS
<1>types. /\ hashes \in [Hashes -> Values] /\ pending \subseteq Hashes
          /\ fanOuts \subseteq FanOuts /\ IsFiniteSet(fanOuts)
          /\ Cardinality(fanOuts) \in Nat /\ Cardinality(fanOuts) <= MaxFanOuts
  BY FS_CardinalityType DEF MonitorInv, MonitorTypeOK
<1>1. ASSUME NEW h \in Hashes, Dispatch(h)
      PROVE  MonitorInv'
  BY <1>1, <1>types, BusKeeps DEF Dispatch
<1>2. ASSUME NEW h \in Hashes, FanOut(h)
      PROVE  MonitorInv'
  <2> DEFINE read == [hash |-> h, value |-> hashes[h]]
  <2>1. fanOuts' = fanOuts \cup {read} /\ Cardinality(fanOuts) < MaxFanOuts
    BY <1>2 DEF FanOut
  <2>2. read \in FanOuts
    BY <1>types DEF FanOuts
  <2> HIDE DEF read
  <2>3. IsFiniteSet(fanOuts') /\ Cardinality(fanOuts') <= Cardinality(fanOuts) + 1
    <3>1. /\ IsFiniteSet(fanOuts \cup {read})
          /\ \/ Cardinality(fanOuts \cup {read}) = Cardinality(fanOuts)
             \/ Cardinality(fanOuts \cup {read}) = Cardinality(fanOuts) + 1
      BY <1>types, FS_AddElement, Zenon
    <3> QED
      BY <1>types, <2>1, <3>1
  <2>4. Cardinality(fanOuts') <= MaxFanOuts
    BY <1>types, <2>1, <2>3, FS_CardinalityType
  <2> QED
    BY <1>2, <1>types, <2>1, <2>2, <2>3, <2>4, BusKeeps DEF FanOut
<1>3. ASSUME NEW h \in Hashes, FanOutFails(h)
      PROVE  MonitorInv'
  BY <1>3, <1>types, BusKeeps DEF FanOutFails
<1>4. ASSUME NEW f \in fanOuts, HandleFieldChange(f)
      PROVE  MonitorInv'
  BY <1>4, HandleFieldChangeKeeps
<1>5. ASSUME NEW p \in Priorities, DeadlinePasses(p)
      PROVE  MonitorInv'
  <2>1. /\ timer' = [timer EXCEPT ![p] = "expired"] /\ stray[p] < MaxStray
        /\ UNCHANGED <<hashes, pending, fanOuts, last, changes, stray>>
    BY <1>5 DEF DeadlinePasses, busVars
  <2> QED
    BY <2>1 DEF MonitorInv, MonitorTypeOK, StrayRoom, PendingIsTimed
<1>6. ASSUME NEW p \in Priorities, FlushPriority(p)
      PROVE  MonitorInv'
  BY <1>6, FlushPriorityKeeps
<1>7. CASE FlushAllPending
  <2>1. /\ changes' = {} /\ timer' = [q \in Priorities |-> "none"] /\ stray' = Stopped(stray)
        /\ UNCHANGED <<hashes, pending, fanOuts, last>>
    BY <1>7 DEF FlushAllPending, busVars
  <2>2. stray' \in [Priorities -> 0..MaxStray]
    BY <2>1, StoppedType
  <2> QED
    BY <2>1, <2>2 DEF MonitorInv, MonitorTypeOK, StrayRoom, PendingIsTimed
<1>8. CASE UNCHANGED monitorVars
  BY <1>8 DEF monitorVars, MonitorInv, MonitorTypeOK, StrayRoom, PendingIsTimed
<1> QED
  BY <1>1, <1>2, <1>3, <1>4, <1>5, <1>6, <1>7, <1>8 DEF MonitorNext

\* The types of the model of the bus and the monitor, and what keeps them.
THEOREM MonitorInvHolds == MonitorSpec => []MonitorInv
<1> QED
  BY MonitorInitial, MonitorStep, PTL DEF MonitorSpec

\* However callbacks, deadlines and flushes cross, a change that waits to be
\* flushed has a timer of its own priority.
THEOREM PendingTimed == MonitorSpec => []PendingIsTimed
<1>1. MonitorInv => PendingIsTimed
  BY DEF MonitorInv
<1> QED
  BY <1>1, MonitorInvHolds, PTL

-----------------------------------------------------------------------------
(* Telemetry: its types, and what the server knows. *)

USE TelemetryAssumption DEF TelemetryAssumption

\* The server gets a full message first.
FullFirst == server = None => lastSent = None /\ late \subseteq Snapshots

\* ServerKnowsLastSent, and what it takes to keep it and the types.
TelemetryInv ==
  /\ TypeOK
  /\ IsFiniteSet(late)
  /\ FullFirst
  /\ ServerKnowsLastSent

LEMMA TelemetryInitial == Init => TelemetryInv
<1> SUFFICES ASSUME Init
             PROVE  TelemetryInv
  OBVIOUS
<1>1. IsFiniteSet(late) /\ Cardinality(late) = 0
  BY FS_EmptySet DEF Init
<1>2. TypeOK
  <2>1. late \subseteq Messages /\ Cardinality(late) <= MaxLate
    BY <1>1 DEF Init
  <2>2. sinceFull \in 0..FullResyncEvery
    BY DEF Init
  <2>3. calls \in [Callers -> Snapshots \cup {None}]
    BY DEF Init
  <2> QED
    BY <2>1, <2>2, <2>3 DEF Init, TypeOK
<1> QED
  BY <1>1, <1>2 DEF Init, TelemetryInv, FullFirst, ServerKnowsLastSent

\* A snapshot is a function of its fields, and is given by their values.
LEMMA SnapshotFields ==
  ASSUME NEW s \in Snapshots
  PROVE  /\ s = [f \in Fields |-> s[f]] /\ DOMAIN s = Fields
         /\ s["state"] \in States /\ s["position"] \in Positions \cup {None}
BY DEF Snapshots, Fields

LEMMA SnapshotsEqual ==
  ASSUME NEW s \in Snapshots, NEW t, t = [f \in Fields |-> t[f]],
         \A f \in Fields : t[f] = s[f]
  PROVE  t = s
BY SnapshotFields

LEMMA SmoothType ==
  ASSUME NEW s \in Snapshots, reported \in Positions \cup {None}
  PROVE  Smooth(s) \in Snapshots
BY DEF Smooth, Snapshots

\* A message is a part of a snapshot; a full one is all of it.
LEMMA FullIsMessage == Snapshots \subseteq Messages
<1> SUFFICES ASSUME NEW s \in Snapshots
             PROVE  s \in Messages
  OBVIOUS
<1>1. s = [f \in Fields |-> s[f]] /\ Fields \in SUBSET Fields
  BY SnapshotFields
<1> QED
  BY <1>1 DEF Messages

LEMMA DeltaIsMessage ==
  ASSUME NEW prev \in Snapshots, NEW curr \in Snapshots
  PROVE  Delta(prev, curr) \in Messages
<1> DEFINE fields == {g \in Fields : prev[g] # curr[g]}
<1>1. Delta(prev, curr) = [f \in fields |-> curr[f]]
  BY DEF Delta
<1>2. fields \in SUBSET Fields
  OBVIOUS
<1> HIDE DEF fields
<1> QED
  BY <1>1, <1>2 DEF Messages

\* What a message leaves the server with: its own leaves, and for the others
\* what the server had.
LEMMA MergedFields ==
  ASSUME NEW message \in Messages, server \in Snapshots
  PROVE  /\ Merged(message) \in Snapshots
         /\ \A f \in Fields : Merged(message)[f] =
                IF f \in DOMAIN message THEN message[f] ELSE server[f]
<1>1. PICK s \in Snapshots, fields \in SUBSET Fields : message = [f \in fields |-> s[f]]
  BY DEF Messages
<1>2. server # None
  BY NoneAssumption
<1>3. Merged(message) = [f \in Fields |-> IF f \in fields THEN s[f] ELSE server[f]]
  BY <1>1, <1>2 DEF Merged
<1>4. /\ Merged(message) = [state |-> IF "state" \in fields THEN s["state"] ELSE server["state"],
                            position |-> IF "position" \in fields THEN s["position"]
                                         ELSE server["position"]]
  BY <1>3 DEF Fields
<1> QED
  BY <1>1, <1>3, <1>4, SnapshotFields DEF Snapshots

\* The message of a publish leaves a server that knows what was sent last with
\* what is sent now, in full or not.
LEMMA MergedIsSent ==
  ASSUME NEW s \in Snapshots, NEW full \in BOOLEAN, server \in Snapshots \cup {None},
         full \/ (server \in Snapshots /\ lastSent \in Snapshots),
         NEW message, message = IF full THEN s ELSE Delta(lastSent, s)
  PROVE  /\ message \in Messages
         /\ server = None => full /\ message \in Snapshots
         /\ Merged(message) \in Snapshots
         /\ full \/ server = lastSent => Merged(message) = s
<1>1. CASE full
  <2>1. message = s /\ message \in Messages
    BY <1>1, FullIsMessage
  <2>2. CASE server = None
    BY <1>1, <2>1, <2>2 DEF Merged
  <2>3. CASE server \in Snapshots
    <3>1. DOMAIN message = Fields
      BY <2>1, SnapshotFields
    <3>2. /\ Merged(message) \in Snapshots
          /\ \A f \in Fields : Merged(message)[f] = s[f]
      BY <2>1, <2>3, <3>1, MergedFields
    <3>3. Merged(message) = s
      BY <3>2, SnapshotFields, SnapshotsEqual
    <3> QED
      BY <2>1, <2>3, <3>2, <3>3, NoneAssumption
  <2> QED
    BY <2>2, <2>3
<1>2. CASE ~full
  <2>1. server \in Snapshots /\ lastSent \in Snapshots /\ server # None
    BY <1>2, NoneAssumption
  <2>2. message = Delta(lastSent, s) /\ message \in Messages
    BY <1>2, <2>1, DeltaIsMessage
  <2>3. /\ DOMAIN message = {g \in Fields : lastSent[g] # s[g]}
        /\ \A f \in DOMAIN message : message[f] = s[f]
    BY <2>2 DEF Delta
  <2>4. /\ Merged(message) \in Snapshots
        /\ \A f \in Fields : Merged(message)[f] = IF f \in DOMAIN message THEN message[f]
                                                   ELSE server[f]
    BY <2>1, <2>2, MergedFields
  <2>5. ASSUME server = lastSent
        PROVE  Merged(message) = s
    <3>1. \A f \in Fields : Merged(message)[f] = s[f]
      BY <2>3, <2>4, <2>5
    <3> QED
      BY <2>4, <3>1, SnapshotFields, SnapshotsEqual
  <2> QED
    BY <1>2, <2>1, <2>2, <2>4, <2>5
<1> QED
  BY <1>1, <1>2

\* What was given up may be under way, or not.
LEMMA GivenUpKeeps ==
  ASSUME TelemetryInv, NEW c \in Callers, NEW s \in Snapshots, NEW message \in Messages,
         server = None => message \in Snapshots,
         GivenUp(s, message), reported' = s.position,
         calls' = [calls EXCEPT ![c] = None], UNCHANGED redis
  PROVE  TelemetryInv'
<1>1. /\ late' \in {late, late \cup {message}} /\ Cardinality(late') <= MaxLate
      /\ UNCHANGED <<lastSent, sinceFull, server, unsure>>
  BY DEF GivenUp, NotSent
<1>2. IsFiniteSet(late') /\ late' \subseteq Messages
  BY <1>1, FS_AddElement DEF TelemetryInv, TypeOK
<1>3. FullFirst'
  BY <1>1 DEF TelemetryInv, FullFirst
<1>4. reported' \in Positions \cup {None}
  BY DEF Snapshots
<1>5. calls' \in [Callers -> Snapshots \cup {None}]
  BY DEF TelemetryInv, TypeOK
<1>6. TypeOK'
  BY <1>1, <1>2, <1>4, <1>5 DEF TelemetryInv, TypeOK
<1> QED
  BY <1>1, <1>2, <1>3, <1>6 DEF TelemetryInv, ServerKnowsLastSent

LEMMA AcknowledgedKeeps ==
  ASSUME TelemetryInv, NEW c \in Callers, NEW s \in Snapshots, NEW full \in BOOLEAN,
         NEW message, Acknowledged(s, full, message),
         ~full => sinceFull < FullResyncEvery,
         Merged(message) \in Snapshots,
         full \/ server = lastSent => Merged(message) = s,
         full \/ lastSent # None,
         reported' = s.position,
         calls' = [calls EXCEPT ![c] = None], UNCHANGED redis
  PROVE  TelemetryInv'
<1>1. /\ server' = Merged(message) /\ lastSent' = s /\ unsure' = (unsure /\ ~full)
      /\ sinceFull' = (IF full THEN 0 ELSE sinceFull + 1) /\ UNCHANGED late
  BY DEF Acknowledged, Sent
<1>2. sinceFull \in 0..FullResyncEvery /\ FullResyncEvery \in Nat
  BY DEF TelemetryInv, TypeOK
<1>3. sinceFull' \in 0..FullResyncEvery
  BY <1>1, <1>2
<1>4. reported' \in Positions \cup {None} /\ s # None /\ Merged(message) # None
  BY NoneAssumption DEF Snapshots
<1>5. calls' \in [Callers -> Snapshots \cup {None}]
  BY DEF TelemetryInv, TypeOK
<1>6. unsure' \in BOOLEAN
  BY <1>1 DEF TelemetryInv, TypeOK
<1>7. TypeOK'
  BY <1>1, <1>3, <1>4, <1>5, <1>6 DEF TelemetryInv, TypeOK
<1>8. ServerKnowsLastSent'
  BY <1>1 DEF TelemetryInv, ServerKnowsLastSent
<1> QED
  BY <1>1, <1>4, <1>7, <1>8 DEF TelemetryInv, FullFirst

LEMMA PublishKeeps ==
  ASSUME TelemetryInv, NEW c \in Callers, NEW delivered \in BOOLEAN, Publish(c, delivered)
  PROVE  TelemetryInv'
<1>1. PICK forced \in MayForce(c) :
        LET s == Smooth(calls[c])
            full == IsFull(forced, s)
            message == IF full THEN s ELSE Delta(lastSent, s)
        IN /\ reported' = s.position
           /\ IF delivered THEN Acknowledged(s, full, message) ELSE GivenUp(s, message)
  BY DEF Publish
<1> DEFINE s == Smooth(calls[c])
<1>2. s \in Snapshots
  <2>1. calls[c] \in Snapshots /\ reported \in Positions \cup {None}
    BY DEF Publish, TelemetryInv, TypeOK
  <2> QED
    BY <2>1, SmoothType
<1>3. PICK full \in BOOLEAN : full = IsFull(forced, s)
  <2>1. forced \in BOOLEAN
    BY DEF MayForce
  <2> QED
    BY <2>1 DEF IsFull
<1>4. PICK message : message = IF full THEN s ELSE Delta(lastSent, s)
  OBVIOUS
<1>5. /\ reported' = s.position
      /\ IF delivered THEN Acknowledged(s, full, message) ELSE GivenUp(s, message)
      /\ calls' = [calls EXCEPT ![c] = None] /\ UNCHANGED redis
  BY <1>1, <1>3, <1>4 DEF Publish
<1>6. ~full => lastSent # None /\ sinceFull < FullResyncEvery
  <2>1. sinceFull \in Nat /\ FullResyncEvery \in Nat
    BY DEF TelemetryInv, TypeOK
  <2> QED
    BY <1>3, <2>1 DEF IsFull
<1>7. full \/ (server \in Snapshots /\ lastSent \in Snapshots)
  BY <1>6 DEF TelemetryInv, TypeOK, FullFirst
<1>8. server \in Snapshots \cup {None}
  BY DEF TelemetryInv, TypeOK
<1> HIDE DEF s
<1>9. /\ message \in Messages
      /\ server = None => message \in Snapshots
      /\ Merged(message) \in Snapshots
      /\ full \/ server = lastSent => Merged(message) = s
  BY <1>2, <1>4, <1>7, <1>8, MergedIsSent
<1>10. CASE delivered
  BY <1>2, <1>5, <1>6, <1>9, <1>10, AcknowledgedKeeps
<1>11. CASE ~delivered
  BY <1>2, <1>5, <1>9, <1>11, GivenUpKeeps
<1> QED
  BY <1>10, <1>11

\* A message that comes late is merged like any other, into what the server
\* knows by then.
LEMMA ArriveKeeps ==
  ASSUME TelemetryInv, NEW message \in late, Arrive(message)
  PROVE  TelemetryInv'
<1>1. /\ late' = late \ {message} /\ server' = Merged(message) /\ unsure' = TRUE
      /\ UNCHANGED <<redis, calls, lastSent, sinceFull, reported>>
  BY DEF Arrive
<1>2. message \in Messages /\ IsFiniteSet(late) /\ Cardinality(late) <= MaxLate
  BY DEF TelemetryInv, TypeOK
<1>3. IsFiniteSet(late') /\ Cardinality(late') <= MaxLate
  <2>1. Cardinality(late) \in Nat /\ Cardinality(late') = Cardinality(late) - 1
    BY <1>1, <1>2, FS_RemoveElement, FS_CardinalityType
  <2> QED
    BY <1>1, <1>2, <2>1, FS_RemoveElement
<1>4. Merged(message) \in Snapshots
  <2>1. CASE server = None
    BY <2>1 DEF Merged, TelemetryInv, FullFirst
  <2>2. CASE server # None
    BY <1>2, <2>2, MergedFields DEF TelemetryInv, TypeOK
  <2> QED
    BY <2>1, <2>2
<1>5. Merged(message) # None
  BY <1>4, NoneAssumption
<1> QED
  BY <1>1, <1>3, <1>4, <1>5 DEF TelemetryInv, TypeOK, FullFirst, ServerKnowsLastSent

LEMMA TelemetryStep == TelemetryInv /\ [Next]_vars => TelemetryInv'
<1> SUFFICES ASSUME TelemetryInv, [Next]_vars
             PROVE  TelemetryInv'
  OBVIOUS
<1>1. CASE Change
  BY <1>1 DEF Change, TelemetryInv, TypeOK, FullFirst, ServerKnowsLastSent
<1>2. ASSUME NEW c \in Callers, Read(c)
      PROVE  TelemetryInv'
  BY <1>2 DEF Read, TelemetryInv, TypeOK, FullFirst, ServerKnowsLastSent
<1>3. ASSUME NEW c \in Callers, NEW delivered \in BOOLEAN, Publish(c, delivered)
      PROVE  TelemetryInv'
  BY <1>3, PublishKeeps
<1>4. ASSUME NEW message \in late, Arrive(message)
      PROVE  TelemetryInv'
  BY <1>4, ArriveKeeps
<1>5. ASSUME NEW message \in late, Lose(message)
      PROVE  TelemetryInv'
  <2>1. /\ late' = late \ {message}
        /\ UNCHANGED <<redis, calls, lastSent, sinceFull, reported, server, unsure>>
    BY <1>5 DEF Lose
  <2>2. IsFiniteSet(late) /\ Cardinality(late) <= MaxLate
    BY DEF TelemetryInv, TypeOK
  <2>3. IsFiniteSet(late') /\ Cardinality(late') <= MaxLate
    <3>1. Cardinality(late) \in Nat /\ Cardinality(late') = Cardinality(late) - 1
      BY <2>1, <2>2, FS_RemoveElement, FS_CardinalityType
    <3> QED
      BY <2>1, <2>2, <3>1, FS_RemoveElement
  <2> QED
    BY <2>1, <2>3 DEF TelemetryInv, TypeOK, FullFirst, ServerKnowsLastSent
<1>6. CASE UNCHANGED vars
  BY <1>6 DEF vars, TelemetryInv, TypeOK, FullFirst, ServerKnowsLastSent
<1> QED
  BY <1>1, <1>2, <1>3, <1>4, <1>5, <1>6 DEF Next

\* The types of the model of telemetry publishing, and what keeps them.
THEOREM TelemetryInvHolds == Spec => []TelemetryInv
<1> QED
  BY TelemetryInitial, TelemetryStep, PTL DEF Spec

\* Unless a message that was given up has arrived since the last full one, the
\* server knows what was sent last, however goroutines, failures and late
\* messages cross.
THEOREM LastSentIsKnown == Spec => []ServerKnowsLastSent
<1>1. TelemetryInv => ServerKnowsLastSent
  BY DEF TelemetryInv
<1> QED
  BY <1>1, TelemetryInvHolds, PTL
=============================================================================
