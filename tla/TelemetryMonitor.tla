-------------------------- MODULE TelemetryMonitor --------------------------
(***************************************************************************)
(* How a change in Redis leads to a flush of the telemetry: the redisbus    *)
(* waits a moment after the first notification of a hash, reads the hash    *)
(* and hands it to the monitor, which waits for the deadline of the field's *)
(* priority, and then flushes what is pending at every priority.            *)
(*                                                                          *)
(* Callbacks of timers run in goroutines of their own: two of them may hand *)
(* over a hash in any order, and one that was started before its timer was  *)
(* stopped still runs.  Every hash has one field here.  The subscription is *)
(* up, nothing shuts down, and the flush itself is in Telemetry.            *)
(***************************************************************************)
EXTENDS Integers, FiniteSets

CONSTANTS
  Hashes,      \* watchedHashes
  Priorities,  \* of Priority
  Priority,    \* GetFieldPriority of the field of each hash; those that are
               \* filtered as noisy are left out
  Values,      \* what it may be
  Bucket,      \* of quantizationBuckets
  ReadsFail,   \* whether Redis may fail to answer the bus
  MaxFanOuts,  \* a bound on the fan-outs that overlap
  MaxStray     \* a bound on the callbacks of a priority that overlap

ASSUME MonitorAssumption ==
  /\ Priority \in [Hashes -> Priorities]
  /\ Values \subseteq Nat /\ Bucket \in Nat \ {0}
  /\ ReadsFail \in BOOLEAN
  /\ {MaxFanOuts, MaxStray} \subseteq Nat

VARIABLES
  hashes,   \* the hashes (external)
  pending,  \* Bus.pending: the hashes whose timer is running
  fanOuts,  \* what was read and is not handed over yet
  last,     \* lastValues
  changes,  \* priorityPending: the hashes that are to be flushed
  timer,    \* priorityTimers, and whether its callback has started
  stray     \* the callbacks still to come of timers that are no longer there

monitorVars == <<hashes, pending, fanOuts, last, changes, timer, stray>>
busVars == <<pending, fanOuts>>
priorityVars == <<last, changes, timer, stray>>

\* QuantizeForChangeDetection: rounded to the bucket.
Quantize(value) == (value + Bucket \div 2) \div Bucket

FanOuts == [hash: Hashes, value: Values]

MonitorTypeOK ==
  /\ hashes \in [Hashes -> Values]
  /\ pending \subseteq Hashes
  /\ fanOuts \subseteq FanOuts /\ Cardinality(fanOuts) <= MaxFanOuts
  /\ last \in [Hashes -> {Quantize(v) : v \in Values}]
  /\ changes \subseteq Hashes
  /\ timer \in [Priorities -> {"none", "running", "expired"}]
  /\ stray \in [Priorities -> 0..MaxStray]

-----------------------------------------------------------------------------
(* Bus *)

\* A service writes a hash and publishes that it did; dispatch starts the
\* timer at the first notification.
Dispatch(h) ==
  /\ \E value \in Values : hashes' = [hashes EXCEPT ![h] = value]
  /\ pending' = pending \cup {h}
  /\ UNCHANGED <<fanOuts, priorityVars>>

\* Its callback: the hash is no longer pending, and is read.
FanOut(h) ==
  /\ h \in pending
  /\ Cardinality(fanOuts) < MaxFanOuts
  /\ pending' = pending \ {h}
  /\ fanOuts' = fanOuts \cup {[hash |-> h, value |-> hashes[h]]}
  /\ UNCHANGED <<hashes, priorityVars>>

\* HGetAll fails: the notification is lost.
FanOutFails(h) ==
  /\ ReadsFail /\ h \in pending
  /\ pending' = pending \ {h}
  /\ UNCHANGED <<hashes, fanOuts, priorityVars>>

-----------------------------------------------------------------------------
(* Monitor.  A step is a critical section under Monitor.mu. *)

\* handleFieldChange: a timer that is there already is not reset.
HandleFieldChange(f) ==
  LET value == Quantize(f.value)
      p == Priority[f.hash]
  IN /\ fanOuts' = fanOuts \ {f}
     /\ IF last[f.hash] = value
          THEN UNCHANGED priorityVars
          ELSE /\ last' = [last EXCEPT ![f.hash] = value]
               /\ changes' = changes \cup {f.hash}
               /\ timer' = [timer EXCEPT ![p] = IF @ = "none" THEN "running" ELSE @]
               /\ UNCHANGED stray
     /\ UNCHANGED <<hashes, pending>>

\* The deadline passes: the callback starts, and waits for Monitor.mu.
DeadlinePasses(p) ==
  /\ timer[p] = "running" /\ stray[p] < MaxStray
  /\ timer' = [timer EXCEPT ![p] = "expired"]
  /\ UNCHANGED <<hashes, busVars, last, changes, stray>>

\* Mutant: the timers are forgotten, but not stopped.
NotStopped(strays) ==
  [p \in Priorities |-> strays[p] + IF timer[p] # "none" THEN 1 ELSE 0]

\* Stopping a timer does not stop its callback once that has started.
Stopped(strays) ==
  [p \in Priorities |-> strays[p] + IF timer[p] = "expired" THEN 1 ELSE 0]

\* Mutant: what waits for another priority stays pending, without its timer.
ClearsOwn(p, strays) ==
  /\ changes' = {h \in changes : Priority[h] # p}
  /\ timer' = [q \in Priorities |-> "none"]
  /\ stray' = strays

\* Mutant: the timers stay where they are, so that no new one is started.
KeepsTimers(p, strays) ==
  /\ changes' = {}
  /\ timer' = [q \in Priorities |-> IF timer[q] = "none" THEN "none" ELSE "stopped"]
  /\ stray' = strays

\* Nothing pending is left, at any priority, and no timer.
ClearAll(p, strays) ==
  /\ changes' = {}
  /\ timer' = [q \in Priorities |-> "none"]
  /\ stray' = [Stopped(strays) EXCEPT ![p] = strays[p]]

\* flushPriority(p), called back by a timer: by the one the monitor knows, or
\* by a stray one.  Then the timer the monitor knows is forgotten and becomes
\* stray in its turn.
FlushPriority(p) ==
  \E isStray \in BOOLEAN :
    LET strays ==
          IF ~isStray THEN stray
          ELSE [stray EXCEPT ![p] = IF timer[p] = "none" THEN @ - 1 ELSE @]
    IN /\ IF isStray THEN stray[p] > 0 ELSE timer[p] = "expired"
       /\ IF changes = {}
            THEN /\ timer' = [timer EXCEPT ![p] = "none"]
                 /\ stray' = strays
                 /\ UNCHANGED changes
            ELSE ClearAll(p, strays)
       /\ UNCHANGED <<hashes, busVars, last>>

\* FlushAllPending: the detector has seen an important event.
FlushAllPending ==
  /\ changes # {}
  /\ changes' = {}
  /\ timer' = [q \in Priorities |-> "none"]
  /\ stray' = Stopped(stray)
  /\ UNCHANGED <<hashes, busVars, last>>

-----------------------------------------------------------------------------
\* InitializeBaseline has read the hashes.
MonitorInit ==
  /\ hashes \in [Hashes -> Values]
  /\ pending = {} /\ fanOuts = {}
  /\ last = [h \in Hashes |-> Quantize(hashes[h])]
  /\ changes = {}
  /\ timer = [p \in Priorities |-> "none"]
  /\ stray = [p \in Priorities |-> 0]

MonitorNext ==
  \/ \E h \in Hashes : Dispatch(h) \/ FanOut(h) \/ FanOutFails(h)
  \/ \E f \in fanOuts : HandleFieldChange(f)
  \/ \E p \in Priorities : DeadlinePasses(p) \/ FlushPriority(p)
  \/ FlushAllPending

\* Timers fire, and their callbacks run.
MonitorFairness ==
  /\ \A h \in Hashes : WF_monitorVars(FanOut(h) \/ FanOutFails(h))
  /\ \A f \in FanOuts : WF_monitorVars(f \in fanOuts /\ HandleFieldChange(f))
  /\ \A p \in Priorities : WF_monitorVars(DeadlinePasses(p)) /\ WF_monitorVars(FlushPriority(p))

MonitorSpec == MonitorInit /\ [][MonitorNext]_monitorVars /\ MonitorFairness

-----------------------------------------------------------------------------
(* Properties *)

\* Whatever is pending has a timer of its own priority, so that it waits no
\* longer than that allows, however the callbacks and the flushes cross.
PendingIsTimed == \A h \in changes : timer[Priority[h]] # "none"

\* A change the monitor has seen does not stay pending.
ChangeIsFlushed == \A h \in Hashes : h \in changes ~> h \notin changes

\* "OnHash registers a handler that fires once per debounce window after the
\* hash changes, with the current full hash contents": so what the monitor was
\* given last is the current value, once the hashes do not change any more.
HandlersAreCurrent ==
  <>[][FALSE]_hashes => <>[](\A h \in Hashes : last[h] = Quantize(hashes[h]))
=============================================================================
