--------------------------- MODULE Notifications ---------------------------
(***************************************************************************)
(* Who is told what: a change of a hash in Redis is checked by the event    *)
(* detector, then the notification rules are evaluated, and what comes of   *)
(* both waits in the queue of a notifier, which sends at a limited rate.    *)
(* The faults of the vehicle arrive in a stream that is read beside this.   *)
(*                                                                          *)
(* The bus hands over each hash in a goroutine of its own, so that two of   *)
(* them check and evaluate at the same time, and each may block in          *)
(* publishing an event (Events) before it evaluates its rules.  A hash has  *)
(* one field, of which one thing is asked: it is met or not.                *)
(***************************************************************************)
EXTENDS Naturals, Sequences, FiniteSets

CONSTANTS
  Hashes,      \* the detector is registered for them
  Reread,      \* of which its check reads the field once more (alarm)
  Levels,      \* of which it checks a threshold, not for a change
  Rules,       \* Notifications.Rules
  Needs,       \* their conditions: what a rule wants each of some hashes to be
  Channel,     \* that of a rule's message condition, or None
  Cooldown,    \* of all rules, in ticks of the clock
  Fault,       \* the kind of event a fault is
  Notifiers,   \* the listeners
  Routes,      \* the events each of them takes
  QueueSize, RateLimit,
  Day,         \* in ticks
  Handlers,    \* the callbacks of the bus that run at the same time
  Setups,      \* the daily limit, whether the stream of faults exists, and bounds
               \* on the changes in Redis and on the faults
  None         \* no rule, no channel, no entry of the stream yet

Kinds == Hashes \cup Rules \cup {Fault}

ASSUME NotificationsAssumption ==
  /\ Reread \subseteq Hashes /\ Levels \subseteq Hashes
  /\ \A r \in Rules : DOMAIN Needs[r] \subseteq Hashes /\ Needs[r] \in [DOMAIN Needs[r] -> BOOLEAN]
  /\ Channel \in [Rules -> Hashes \cup {None}]
  /\ Routes \in [Notifiers -> SUBSET Kinds]
  /\ {QueueSize, RateLimit, Cooldown, Day} \subseteq Nat \ {0}
  /\ None \notin Rules /\ None \notin Nat
  /\ Setups \subseteq [limit : Nat, watched : BOOLEAN, changes : Nat, faults : Nat]

VARIABLES
  redis,      \* the hashes (external)
  setup,      \* one of Setups, with the changes and faults still to come
  notified,   \* the hashes whose timer in the bus is running
  lastState,  \* Detector.lastState
  handlers,   \* the callbacks of the bus
  cooling,    \* RuleEvaluator.cooldowns, as the ticks to go
  stream,     \* events:faults: the entries so far (external)
  watch,      \* watchFaultStream
  notifiers,  \* the queues and the goroutines that empty them
  clock,      \* within the day (external)
  phase,      \* the ticks since the tickers fired last
  fired,      \* history: how long ago each rule fired last, up to its cooldown
  reported    \* history: the faults handed to the listeners

notificationVars == <<redis, setup, notified, lastState, handlers, cooling, stream, watch,
                      notifiers, clock, phase, fired, reported>>
world == <<redis, setup, notified, clock, phase>>
rules == <<cooling, fired>>
faults == <<stream, watch, reported>>

Idle == [stage |-> "idle"]
Handling ==
  [stage : {"check", "hash", "message", "done"}, hash : Hashes, value : BOOLEAN,
   events : Seq(Kinds),       \* to be sent before it goes on
   left : SUBSET Rules,       \* the rules it still has to evaluate,
   rule : Rules \cup {None},  \* the one it evaluates,
   reads : SUBSET Hashes,     \* the conditions it has not looked at yet,
   found : Seq(Rules),        \* and the rules that fired
   seen : SUBSET (Hashes \X BOOLEAN),  \* history: what Redis held meanwhile,
   crossed : SUBSET Rules]             \* and the rules that fired meanwhile

Notifier ==
  [queue : Seq(Kinds), waiting : BOOLEAN, tick : BOOLEAN,
   limit : Nat, count : Nat, today : BOOLEAN,
   sent : [1..4 -> 0..RateLimit],  \* history: how long ago it sent the last four
   sentToday : Nat]                \* messages, up to its rate; and how many today

NotificationTypeOK ==
  /\ redis \in [Hashes -> BOOLEAN] /\ setup \in [limit : Nat, watched : BOOLEAN, changes : Nat, faults : Nat]
  /\ notified \subseteq Hashes
  /\ lastState \in [Hashes -> BOOLEAN]
  /\ handlers \in [Handlers -> {Idle} \cup Handling]
  /\ cooling \in [Rules -> 0..Cooldown]
  /\ stream \in Nat
  /\ watch \in [at : {"off", "between", "blocked", "handling"},
                lastID : Nat \cup {None}, from : Nat, to : Nat]
  /\ notifiers \in [Notifiers -> Notifier]
  /\ \A n \in Notifiers : Len(notifiers[n].queue) <= QueueSize
  /\ clock \in 0..(Day - 1) /\ phase \in 0..(RateLimit - 1)
  /\ fired \in [Rules -> 0..Cooldown]
  /\ reported \subseteq 1..stream

\* A tick later, and one message later.
Later(n, bound) == IF n + 1 = bound THEN 0 ELSE n + 1
Older(s) == [i \in 1..4 |-> IF s[i] = RateLimit THEN RateLimit ELSE s[i] + 1]
OneSent(s) == [i \in 1..4 |-> IF i = 1 THEN 0 ELSE s[i - 1]]

Active == {h \in Handlers : handlers[h].stage # "idle"}

-----------------------------------------------------------------------------
(* The scooter and the clock *)

\* The value is another one, or the same thing is published once more.
Change(hash) ==
  /\ setup.changes > 0 /\ setup' = [setup EXCEPT !.changes = @ - 1]
  /\ \E value \in BOOLEAN :
       /\ redis' = [redis EXCEPT ![hash] = value]
       /\ handlers' = [h \in Handlers |-> IF h \notin Active THEN Idle
                         ELSE [handlers[h] EXCEPT !.seen = @ \cup {<<hash, value>>}]]
  /\ notified' = notified \cup {hash}
  /\ UNCHANGED <<lastState, clock, phase, rules, faults, notifiers>>

\* A ticker keeps one tick nobody has waited for.  The day turns between two.
Tick ==
  /\ clock' = Later(clock, Day) /\ phase' = Later(phase, RateLimit)
  /\ cooling' = [r \in Rules |-> IF cooling[r] = 0 THEN 0 ELSE cooling[r] - 1]
  /\ fired' = [r \in Rules |-> IF fired[r] = Cooldown THEN Cooldown ELSE fired[r] + 1]
  /\ notifiers' = [n \in Notifiers |->
       [notifiers[n] EXCEPT
          !.tick = @ \/ phase' = 0,
          !.today = @ /\ clock' # 1,
          !.sent = Older(@),
          !.sentToday = IF clock' = 1 THEN 0 ELSE @]]
  /\ UNCHANGED <<redis, setup, notified, lastState, handlers, faults>>

-----------------------------------------------------------------------------
(* Notifier *)

\* Notify, of each listener that takes the event: a full queue drops it.
Notified(event) ==
  [n \in Notifiers |->
     IF event \in Routes[n] /\ Len(notifiers[n].queue) < QueueSize
       THEN [notifiers[n] EXCEPT !.queue = Append(@, event)]
       ELSE notifiers[n]]

\* Mutant: one message more than the limit.
OneMore(n) == n.limit = 0 \/ ~n.today \/ n.count <= n.limit

\* checkDailyLimit; the count is of today's, or of an earlier day's messages.
BelowLimit(n) == n.limit = 0 \/ ~n.today \/ n.count < n.limit

CountedToday(n) ==
  IF n.limit = 0 THEN n ELSE [n EXCEPT !.today = TRUE, !.count = IF n.today THEN @ + 1 ELSE 1]

\* sendToTelegram, sendSMS: counted before it is sent, and not taken back.
Send(n) ==
  IF BelowLimit(n)
    THEN [CountedToday(n) EXCEPT !.sent = OneSent(@),
                                 !.sentToday = IF n.limit = 0 THEN 0 ELSE @ + 1]
    ELSE n

\* processQueue takes an event, and then waits for the ticker.
ProcessQueue(n) ==
  /\ ~notifiers[n].waiting /\ notifiers[n].queue # <<>>
  /\ LET m == Send(notifiers[n])
     IN notifiers' = [notifiers EXCEPT ![n] = [m EXCEPT !.queue = Tail(m.queue), !.waiting = TRUE]]
  /\ UNCHANGED <<world, lastState, handlers, rules, faults>>

Waited(n) ==
  /\ notifiers[n].waiting /\ notifiers[n].tick
  /\ notifiers' = [notifiers EXCEPT ![n].waiting = FALSE, ![n].tick = FALSE]
  /\ UNCHANGED <<world, lastState, handlers, rules, faults>>

-----------------------------------------------------------------------------
(* Detector *)

\* The callback of the bus reads the hash.
FanOut(h, hash) ==
  /\ h \notin Active /\ hash \in notified
  /\ notified' = notified \ {hash}
  /\ handlers' = [handlers EXCEPT ![h] =
       [stage |-> "check", hash |-> hash, value |-> redis[hash], events |-> <<>>, left |-> {},
        rule |-> None, reads |-> {}, found |-> <<>>, seen |-> {<<k, redis[k]>> : k \in Hashes},
        crossed |-> {}]]
  /\ UNCHANGED <<redis, setup, clock, phase, lastState, rules, faults, notifiers>>

\* checkAlarmEvents and the like: whether there is an event.  A number below
\* its threshold may have changed and still be below.
IsEvent(hash, value, moved) ==
  IF hash \in Levels THEN value /\ (lastState[hash] # value \/ moved)
  ELSE lastState[hash] # value

\* EvaluateHash looks at the rules with a condition on the hash; a message
\* condition is never met here.
HashRules(hash) == {r \in Rules : Channel[r] = None /\ hash \in DOMAIN Needs[r]}

\* EvaluateMessage looks at those with a condition on the channel.
ChannelRules(hash) == {r \in Rules : Channel[r] = hash}

\* dispatchHash up to the rules.  A check that reads the alarm again may fail.
Check(h) ==
  LET g == handlers[h]
      rereads == g.hash \in Reread
      value == IF rereads THEN redis[g.hash] ELSE g.value
  IN /\ g.stage = "check"
     /\ \E moved \in BOOLEAN, works \in {TRUE} \cup (IF rereads THEN {FALSE} ELSE {}) :
          /\ lastState' = IF works THEN [lastState EXCEPT ![g.hash] = value] ELSE lastState
          /\ handlers' = [handlers EXCEPT ![h] =
               [g EXCEPT !.stage = "hash", !.left = HashRules(g.hash),
                         !.events = IF works /\ IsEvent(g.hash, value, moved) THEN <<g.hash>> ELSE <<>>]]
     /\ UNCHANGED <<world, rules, faults, notifiers>>

\* sendEvent: the listeners first, then it is published.
SendEvent(h) ==
  /\ h \in Active /\ handlers[h].events # <<>>
  /\ notifiers' = Notified(Head(handlers[h].events))
  /\ handlers' = [handlers EXCEPT ![h].events = Tail(@)]
  /\ UNCHANGED <<world, lastState, rules, faults>>

-----------------------------------------------------------------------------
(* RuleEvaluator *)

\* Mutant: a cooldown that never starts.
NotRecorded(r) == cooling

\* recordFired
RecordFired(r) == [cooling EXCEPT ![r] = Cooldown]

Evaluating(h) == handlers[h].stage \in {"hash", "message"} /\ handlers[h].events = <<>>

CooldownOK(r) == cooling[r] = 0

\* The rules one after the other.
NextRule(h) ==
  LET g == handlers[h]
  IN /\ h \in Active /\ Evaluating(h) /\ g.rule = None
     /\ \E r \in g.left :
          handlers' = [handlers EXCEPT ![h] =
            [g EXCEPT !.left = @ \ {r},
                      !.rule = IF CooldownOK(r) THEN r ELSE None,
                      !.reads = IF CooldownOK(r) THEN DOMAIN Needs[r] ELSE {}]]
     /\ UNCHANGED <<world, lastState, rules, faults, notifiers>>

\* Mutant: a value that cannot be read does not stop the evaluation.
MetUnlessRead(g, c, works) ==
  \/ ~works
  \/ (IF g.stage = "hash" /\ c = g.hash THEN g.value ELSE redis[c]) = Needs[g.rule][c]

\* evaluateAllConditions has the fields of the hash that was changed, and
\* reads the others; evaluateAllConditionsForMessage reads them all.
Met(g, c, works) ==
  IF g.stage = "hash" /\ c = g.hash
    THEN g.value = Needs[g.rule][c]
    ELSE works /\ redis[c] = Needs[g.rule][c]

\* One condition after the other, until one is not met.
ReadCondition(h) ==
  LET g == handlers[h]
  IN /\ h \in Active /\ Evaluating(h) /\ g.rule # None
     /\ \E c \in g.reads, works \in BOOLEAN :
          handlers' = [handlers EXCEPT ![h] =
            IF Met(g, c, works) THEN [g EXCEPT !.reads = @ \ {c}]
            ELSE [g EXCEPT !.rule = None, !.reads = {}]]
     /\ UNCHANGED <<world, lastState, rules, faults, notifiers>>

\* All of them are.
Fire(h) ==
  /\ h \in Active /\ Evaluating(h) /\ handlers[h].rule # None /\ handlers[h].reads = {}
  /\ LET r == handlers[h].rule
     IN /\ handlers' = [k \in Handlers |->
             IF k = h THEN [handlers[k] EXCEPT !.rule = None, !.found = Append(@, r)]
             ELSE IF k \notin Active THEN Idle
             ELSE [handlers[k] EXCEPT !.crossed = @ \cup {r}]]
        /\ cooling' = RecordFired(r)
        /\ fired' = [fired EXCEPT ![r] = 0]
  /\ UNCHANGED <<world, lastState, faults, notifiers>>

\* The matches become events.  After the hash comes what was published, which
\* may or may not be what a rule waits for.
Evaluated(h) ==
  LET g == handlers[h]
      next == [g EXCEPT !.events = g.found, !.found = <<>>]
  IN /\ h \in Active /\ Evaluating(h) /\ g.rule = None /\ g.left = {}
     /\ IF g.stage = "hash"
          THEN \E waiting \in {{}, ChannelRules(g.hash)} :
                 handlers' = [handlers EXCEPT ![h] = [next EXCEPT !.stage = "message", !.left = waiting]]
          ELSE handlers' = [handlers EXCEPT ![h] = [next EXCEPT !.stage = "done"]]
     /\ UNCHANGED <<world, lastState, rules, faults, notifiers>>

Handled(h) ==
  /\ handlers[h].stage = "done" /\ handlers[h].events = <<>>
  /\ handlers' = [handlers EXCEPT ![h] = Idle]
  /\ UNCHANGED <<world, lastState, rules, faults, notifiers>>

-----------------------------------------------------------------------------
(* Faults *)

AddFault ==
  /\ setup.faults > 0 /\ setup' = [setup EXCEPT !.faults = @ - 1]
  /\ stream' = stream + 1
  /\ UNCHANGED <<redis, notified, clock, phase, lastState, handlers, rules, watch, reported,
                 notifiers>>

\* XRead after the last entry that was read, or, as long as there is none,
\* after the last one there is at this moment.
XRead ==
  /\ watch.at = "between"
  /\ watch' = [watch EXCEPT !.at = "blocked", !.from = IF watch.lastID = None THEN stream ELSE watch.lastID]
  /\ UNCHANGED <<world, lastState, handlers, rules, stream, reported, notifiers>>

\* Mutant: an error starts the watch over.
StartsOver(w) == [w EXCEPT !.at = "between", !.from = 0, !.lastID = None]

\* It takes too long, or fails.
NothingRead(w) == [w EXCEPT !.at = "between", !.from = 0]

XReadReturns ==
  /\ watch.at = "blocked"
  /\ \/ /\ stream > watch.from
        /\ watch' = [watch EXCEPT !.at = "handling", !.to = stream]
     \/ watch' = NothingRead(watch)
  /\ UNCHANGED <<world, lastState, handlers, rules, stream, reported, notifiers>>

HandleFaultMessage ==
  /\ watch.at = "handling"
  /\ LET id == watch.from + 1
     IN /\ watch' = IF id = watch.to
                      THEN [at |-> "between", lastID |-> id, from |-> 0, to |-> 0]
                      ELSE [watch EXCEPT !.lastID = id, !.from = id]
        /\ reported' = reported \cup {id}
        /\ notifiers' = Notified(Fault)
  /\ UNCHANGED <<world, lastState, handlers, rules, stream>>

-----------------------------------------------------------------------------
\* InitializeBaseline has read the hashes.  The faults are not watched if there
\* is no stream when the detector starts.
NotificationInit ==
  /\ redis \in [Hashes -> BOOLEAN] /\ setup \in Setups /\ notified = {}
  /\ lastState = redis
  /\ handlers = [h \in Handlers |-> Idle]
  /\ cooling = [r \in Rules |-> 0] /\ fired = [r \in Rules |-> Cooldown]
  /\ stream = 0 /\ reported = {}
  /\ watch = [at |-> IF setup.watched THEN "between" ELSE "off", lastID |-> None, from |-> 0, to |-> 0]
  /\ notifiers = [n \in Notifiers |->
       [queue |-> <<>>, waiting |-> FALSE, tick |-> FALSE, limit |-> setup.limit, count |-> 0,
        today |-> FALSE, sent |-> [i \in 1..4 |-> RateLimit], sentToday |-> 0]]
  /\ clock = 0 /\ phase = 0

NotificationNext ==
  \/ \E hash \in Hashes : Change(hash) \/ \E h \in Handlers : FanOut(h, hash)
  \/ \E h \in Handlers :
       Check(h) \/ SendEvent(h) \/ NextRule(h) \/ ReadCondition(h) \/ Fire(h)
       \/ Evaluated(h) \/ Handled(h)
  \/ Tick
  \/ \E n \in Notifiers : ProcessQueue(n) \/ Waited(n)
  \/ AddFault \/ XRead \/ XReadReturns \/ HandleFaultMessage

NotificationSpec == NotificationInit /\ [][NotificationNext]_notificationVars

-----------------------------------------------------------------------------
(* Properties *)

\* Each condition of a rule that fires was met at some moment since the hash
\* was read that led to its evaluation, whatever changes and fails meanwhile.
ConditionsHeld ==
  \A h \in Active : \A i \in DOMAIN handlers[h].found :
    LET r == handlers[h].found[i]
    IN \A c \in DOMAIN Needs[r] : <<c, Needs[r][c]>> \in handlers[h].seen

Fires(h, r) ==
  /\ h \in Active /\ handlers'[h] # Idle
  /\ handlers'[h].found = Append(handlers[h].found, r)

\* The cooldown is looked at and recorded under two locks: a rule fires again
\* within it only in a callback that was already running when it fired first.
CooldownKept ==
  [][\A h \in Handlers, r \in Rules :
       Fires(h, r) => fired[r] = Cooldown \/ r \in handlers[h].crossed]_notificationVars

\* README.md has "a 30-min cooldown": what one expects of it.
FiresOnce ==
  [][\A h \in Handlers, r \in Rules : Fires(h, r) => fired[r] = Cooldown]_notificationVars

\* The ticker of an idle notifier has a tick to spare, so that there may be
\* three messages within one period; a fourth has to wait.  A day has no more
\* than its limit, whether or not the messages could be sent.
RateIsLimited ==
  \A n \in Notifiers :
    /\ notifiers[n].sent[4] = RateLimit
    /\ notifiers[n].limit > 0 => notifiers[n].sentToday <= notifiers[n].limit

\* "minimum gap between messages" (radio-gaga.example.yml)
MinimumGap == \A n \in Notifiers : notifiers[n].sent[2] = RateLimit

\* From the first fault that is read on, none is left out, whatever fails.
NoFaultSkipped == \A first, last \in reported : (first..last) \subseteq reported
=============================================================================
