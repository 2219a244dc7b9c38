------------------------- MODULE CommandSubscription -------------------------
(***************************************************************************)
(* When is the scooter reachable?  The MQTT service of radio-gaga          *)
(* (internal/client) says so, in Redis and with a retained message, once   *)
(* the broker has acknowledged the command subscription of the current     *)
(* connection.  Five kinds of goroutine work on that: the OnConnect        *)
(* callbacks, which subscribe; the connection-lost and reconnecting        *)
(* callbacks; the telemetry publishers, which count failures; the power    *)
(* manager's listener; and rebuildClient, which replaces the client.       *)
(*                                                                         *)
(* A client is a paho client, reused once nothing refers to it; a handler  *)
(* is a slot for a running OnConnect callback.  Only the equality of two   *)
(* generations is ever looked at, so the generation is here the handler    *)
(* whose attempt took the latest one, if any.  The readiness in Redis is   *)
(* written with ready, under the same lock, and is not a state of its own. *)
(***************************************************************************)
EXTENDS Naturals, FiniteSets

CONSTANTS Client,      \* paho clients
          Handler,     \* OnConnect callbacks running at the same time
          NoClient, NoHandler,
          Attempts,    \* commandSubscriptionAttempts
          MaxFailures, \* MaxConsecutivePublishFailures
          Requests,    \* the outside requests to consider, and slow connections
          MaxFaults    \* bound on what goes wrong or is asked for in a behaviour

ASSUME SubscriptionAssumption ==
  /\ NoClient \notin Client /\ NoHandler \notin Handler
  /\ Client # {} /\ Handler # {}
  /\ Requests \subseteq {"reconnect", "suspend", "resume", "slow"}
  /\ Attempts \in Nat \ {0} /\ MaxFailures \in Nat \ {0} /\ MaxFaults \in Nat

Reason == {"publish", "subscription", "config", "power"}

VARIABLES
  active,    \* mqttClient
  conn,      \* each client's connection
  answers,   \* the broker's SUBACKs on that connection
  hooked,    \* clients built with a reconnecting handler: not the first one
  lostDue,   \* connection-lost callbacks scheduled and not yet run
  subClient, \* commandSubscriptionClient
  owner,     \* whose attempt has the current generation
  ready,     \* commandSubscriptionReady
  stage,     \* where each OnConnect callback is
  of,        \* its client
  tries,     \* its attempts
  rebuild,   \* where rebuildClient is
  waiting,   \* who waits for reconnectMu
  failures,  \* consecutivePublishFailures
  power,     \* the power manager's listener; the client it will disconnect
  status,    \* the retained status message
  faults     \* at most MaxFaults

mqtt == <<active, conn, answers, hooked, lostDue>>
subscription == <<subClient, owner, ready>>
handlers == <<stage, of, tries>>
rebuilding == <<rebuild, waiting, failures>>
vars == <<active, conn, answers, hooked, lostDue, subClient, owner, ready,
          stage, of, tries, rebuild, waiting, failures, power, status, faults>>

TypeOK ==
  /\ active \in Client
  /\ conn \in [Client -> {"dead", "failed", "connecting", "up", "lost", "retrying"}]
  /\ answers \in [Client -> SUBSET {"granted", "refused"}]
  /\ hooked \subseteq Client
  /\ lostDue \in [Client -> Nat]
  /\ subClient \in Client \cup {NoClient}
  /\ owner \in Handler \cup {NoHandler}
  /\ ready \in BOOLEAN
  /\ stage \in [Handler -> {"none", "begin", "sent", "granted", "advertise",
                            "failed", "delay", "decide", "queue"}]
  /\ of \in [Handler -> Client \cup {NoClient}]
  /\ tries \in [Handler -> 0..Attempts]
  /\ rebuild \in {"idle", "disconnect", "create", "connect", "again", "insecure"}
  /\ waiting \subseteq Reason
  /\ failures \in 0..(MaxFailures - 1)
  /\ power \in {"no", "publish", "reconnect", "rebuild"} \cup Client
  /\ status \in {"connected", "disconnected"}
  /\ faults \in 0..MaxFaults

\* The first client is connected, its OnConnect callback scheduled.
Init ==
  /\ active = CHOOSE c \in Client : TRUE
  /\ conn = [c \in Client |-> IF c = active THEN "up" ELSE "dead"]
  /\ answers = [c \in Client |-> {}]
  /\ hooked = {}
  /\ lostDue = [c \in Client |-> 0]
  /\ subClient = NoClient /\ owner = NoHandler /\ ready = FALSE
  /\ LET h == CHOOSE h \in Handler : TRUE IN
       /\ stage = [g \in Handler |-> IF g = h THEN "begin" ELSE "none"]
       /\ of = [g \in Handler |-> IF g = h THEN active ELSE NoClient]
  /\ tries = [h \in Handler |-> 0]
  /\ rebuild = "idle" /\ waiting = {} /\ failures = 0
  /\ power = "no"
  /\ status = "disconnected"
  /\ faults = 0

----------------------------------------------------------------------------
\* Helpers.

Open(c) == conn[c] = "up"
Alive(c) == conn[c] \notin {"dead", "failed"}

\* Something goes wrong, or is asked for from outside.
Fault == faults < MaxFaults /\ faults' = faults + 1
NoFault == UNCHANGED faults
FaultUnless(p) == IF p THEN NoFault ELSE Fault

\* clearCommandSubscriptionReadiness
Clear == subClient' = NoClient /\ owner' = NoHandler /\ ready' = FALSE

\* Mutant: the attempt that is under way may still complete.
ClearReadyForClient(c) ==
  IF subClient \notin {NoClient, c} \/ Open(c)
  THEN UNCHANGED subscription
  ELSE subClient' = c /\ ready' = FALSE /\ UNCHANGED owner

\* clearCommandSubscriptionReadinessForClient: a callback of a client that is
\* not the subscribed one, or that is connected again, changes nothing.
ClearForClient(c) ==
  IF subClient \notin {NoClient, c} \/ Open(c)
  THEN UNCHANGED subscription
  ELSE subClient' = c /\ owner' = NoHandler /\ ready' = FALSE

\* Paho runs OnConnect in a goroutine of its own.
Schedule(c) ==
  \E h \in Handler :
    /\ stage[h] = "none"
    /\ stage' = [stage EXCEPT ![h] = "begin"]
    /\ of' = [of EXCEPT ![h] = c]
    /\ UNCHANGED tries

At(h, s) == stage[h] = s
Goto(h, s) == stage' = [stage EXCEPT ![h] = s] /\ UNCHANGED <<of, tries>>

\* The callback returns, its slot is free.
End(h) == /\ stage' = [stage EXCEPT ![h] = "none"]
          /\ of' = [of EXCEPT ![h] = NoClient]
          /\ tries' = [tries EXCEPT ![h] = 0]

\* Another goroutine waits for reconnectMu; at most one of a reason at a time.
Ask(why) == why \notin waiting /\ waiting' = waiting \cup {why}

\* Nothing can tell a client that has been torn down from a new one.
Unused(c) ==
  /\ ~Alive(c) /\ lostDue[c] = 0
  /\ c \notin {active, power} /\ (c = subClient => ~ready)
  /\ \A h \in Handler : of[h] # c

----------------------------------------------------------------------------
\* The library and the broker.

\* Unclean: the broker publishes the will, and the callback is scheduled.
Lose(c) ==
  /\ Open(c) /\ Fault
  /\ conn' = [conn EXCEPT ![c] = "lost"]
  /\ answers' = [answers EXCEPT ![c] = {}]
  /\ lostDue' = [lostDue EXCEPT ![c] = @ + 1]
  /\ status' = "disconnected"
  /\ UNCHANGED <<active, hooked, subscription, handlers, rebuilding, power>>

\* handleMQTTReconnectStart runs before every attempt to reconnect.
ReconnectStart(c) ==
  /\ conn[c] = "lost" /\ NoFault
  /\ conn' = [conn EXCEPT ![c] = "retrying"]
  /\ IF c \in hooked THEN ClearForClient(c) ELSE UNCHANGED subscription
  /\ UNCHANGED <<active, answers, hooked, lostDue, handlers, rebuilding, power, status>>

\* A connection is established, by paho's reconnect or by createMQTTClient's.
ConnectSucceeds(c) ==
  /\ conn[c] \in {"retrying", "connecting"} /\ NoFault
  /\ conn' = [conn EXCEPT ![c] = "up"]
  /\ Schedule(c)
  /\ UNCHANGED <<active, answers, hooked, lostDue, subscription, rebuilding, power, status>>

\* Paho tries again; a client that has never been connected is given up.
ConnectFails(c) ==
  /\ conn[c] \in {"retrying", "connecting"} /\ Fault
  /\ conn' = [conn EXCEPT ![c] = IF @ = "retrying" THEN "lost" ELSE "failed"]
  /\ UNCHANGED <<active, answers, hooked, lostDue, subscription, handlers, rebuilding,
                 power, status>>

\* handleMQTTConnectionLost
ConnectionLost(c) ==
  /\ lostDue[c] > 0 /\ NoFault
  /\ lostDue' = [lostDue EXCEPT ![c] = @ - 1]
  /\ ClearForClient(c)
  /\ UNCHANGED <<active, conn, answers, hooked, handlers, rebuilding, power, status>>

----------------------------------------------------------------------------
\* handleMQTTConnected, the OnConnect callback h.

\* beginCommandSubscription, under both locks; a client that has been replaced
\* gives up.
Begin(h) ==
  /\ At(h, "begin") /\ NoFault
  /\ IF of[h] # active
     THEN End(h) /\ UNCHANGED subscription
     ELSE /\ stage' = [stage EXCEPT ![h] = "sent"]
          /\ tries' = [tries EXCEPT ![h] = @ + 1]
          /\ subClient' = of[h] /\ owner' = h /\ ready' = FALSE
          /\ UNCHANGED of
  /\ UNCHANGED <<mqtt, rebuilding, power, status>>

\* SUBACK, on this connection or, sent late, on the client's next one.
Grant(h) ==
  /\ At(h, "sent") /\ Open(of[h]) /\ NoFault
  /\ answers' = [answers EXCEPT ![of[h]] = @ \cup {"granted"}]
  /\ Goto(h, "granted")
  /\ UNCHANGED <<active, conn, hooked, lostDue, subscription, rebuilding, power, status>>

\* A refusal is final: no retry, no reconnect.
Refuse(h) ==
  /\ At(h, "sent") /\ Open(of[h]) /\ Fault
  /\ answers' = [answers EXCEPT ![of[h]] = @ \cup {"refused"}]
  /\ ready' = (ready /\ owner # h) /\ UNCHANGED <<subClient, owner>>
  /\ End(h)
  /\ UNCHANGED <<active, conn, hooked, lostDue, rebuilding, power, status>>

\* A timeout, or the error of a connection that is not there.
SubscribeFails(h) ==
  /\ At(h, "sent") /\ FaultUnless(~Open(of[h]))
  /\ ready' = (ready /\ owner # h) /\ UNCHANGED <<subClient, owner>>
  /\ Goto(h, "failed")
  /\ UNCHANGED <<mqtt, rebuilding, power, status>>

\* Mutant: completeCommandSubscription looks at the client only.
CompleteStale(h) ==
  /\ At(h, "granted") /\ NoFault
  /\ IF subClient = of[h]
     THEN ready' = TRUE /\ Goto(h, "advertise")
     ELSE UNCHANGED ready /\ Goto(h, "failed")
  /\ UNCHANGED <<mqtt, subClient, owner, rebuilding, power, status>>

\* completeCommandSubscription: only the latest generation becomes ready.
Complete(h) ==
  /\ At(h, "granted") /\ NoFault
  /\ IF subClient = of[h] /\ owner = h
     THEN ready' = TRUE /\ Goto(h, "advertise")
     ELSE UNCHANGED ready /\ Goto(h, "failed")
  /\ UNCHANGED <<mqtt, subClient, owner, rebuilding, power, status>>

\* publishConnectedStatus, which looks again.
Advertise(h) ==
  /\ At(h, "advertise") /\ NoFault
  /\ status' = IF ready /\ subClient = of[h] /\ Open(of[h]) THEN "connected" ELSE status
  /\ End(h)
  /\ UNCHANGED <<mqtt, subscription, rebuilding, power>>

\* Mutant: one attempt too many.
AfterFailureTooMany(h) ==
  /\ At(h, "failed") /\ NoFault
  /\ Goto(h, IF tries[h] <= Attempts /\ Open(of[h]) THEN "delay" ELSE "decide")
  /\ UNCHANGED <<mqtt, subscription, rebuilding, power, status>>

\* subscribeCommandsWithRetry, after a failed attempt.
AfterFailure(h) ==
  /\ At(h, "failed") /\ NoFault
  /\ Goto(h, IF tries[h] < Attempts /\ Open(of[h]) THEN "delay" ELSE "decide")
  /\ UNCHANGED <<mqtt, subscription, rebuilding, power, status>>

\* The delay is over: commandSubscriptionAttemptCurrent.
AfterDelay(h) ==
  /\ At(h, "delay") /\ NoFault
  /\ Goto(h, IF subClient = of[h] /\ owner = h /\ ~ready THEN "begin" ELSE "decide")
  /\ UNCHANGED <<mqtt, subscription, rebuilding, power, status>>

\* commandSubscriptionNeedsReconnect
NeedsReconnect(c) == c = subClient /\ ~ready /\ Open(c) /\ active = c

\* Mutant: the callback ends without asking for a new client.
DecideNothing(h) ==
  /\ At(h, "decide") /\ NoFault
  /\ End(h)
  /\ UNCHANGED <<mqtt, subscription, rebuilding, power, status>>

\* reconnectAfterCommandSubscriptionFailure looks twice, the second time in a
\* goroutine of its own, which then waits for the lock.
Decide(h) ==
  /\ At(h, "decide") /\ NoFault
  /\ IF NeedsReconnect(of[h]) THEN Goto(h, "queue") ELSE End(h)
  /\ UNCHANGED <<mqtt, subscription, rebuilding, power, status>>

Queue(h) ==
  /\ At(h, "queue") /\ NoFault
  /\ IF NeedsReconnect(of[h]) THEN Ask("subscription") ELSE UNCHANGED waiting
  /\ End(h)
  /\ UNCHANGED <<mqtt, subscription, rebuild, failures, power, status>>

----------------------------------------------------------------------------
\* rebuildClient, under reconnectMu.

RebuildBegins(why) ==
  /\ rebuild = "idle" /\ why \in waiting /\ NoFault
  /\ rebuild' = "disconnect" /\ waiting' = waiting \ {why}
  /\ power' = IF why = "power" THEN "rebuild" ELSE power
  /\ Clear
  /\ UNCHANGED <<mqtt, handlers, failures, status>>

Disconnect(c) ==
  /\ conn' = [conn EXCEPT ![c] = "dead"]
  /\ answers' = [answers EXCEPT ![c] = {}]

\* Mutant: a client that is only reconnecting is left alone.
RebuildDisconnectsOpen ==
  /\ rebuild = "disconnect" /\ NoFault
  /\ IF Open(active) THEN Disconnect(active) ELSE UNCHANGED <<conn, answers>>
  /\ rebuild' = "create"
  /\ UNCHANGED <<active, hooked, lostDue, subscription, handlers, waiting, failures,
                 power, status>>

\* A clean disconnect, whatever the old client is doing: no callback, no will.
RebuildDisconnects ==
  /\ rebuild = "disconnect" /\ NoFault
  /\ Disconnect(active)
  /\ rebuild' = "create"
  /\ UNCHANGED <<active, hooked, lostDue, subscription, handlers, waiting, failures,
                 power, status>>

\* rebuildClient returns to whoever waited for it.
Rebuilt ==
  /\ rebuild' = "idle"
  /\ power' = IF power = "rebuild" THEN "no" ELSE power
  /\ UNCHANGED waiting

\* createMQTTClient gives up before it has a client: the old one stays active.
CreateFails ==
  /\ rebuild = "create" /\ Fault
  /\ Rebuilt
  /\ UNCHANGED <<mqtt, subscription, handlers, failures, status>>

\* A new client is active before it connects.
NewClient(c) ==
  /\ Unused(c) /\ c = CHOOSE d \in Client : Unused(d)
  /\ active' = c /\ hooked' = hooked \cup {c}
  /\ conn' = [conn EXCEPT ![c] = "connecting"]
  /\ UNCHANGED <<answers, lostDue, subscription, handlers, waiting, failures, power, status>>

Create(c) ==
  /\ rebuild = "create" /\ NoFault
  /\ NewClient(c)
  /\ rebuild' = "connect"

\* The certificate has expired: once the clock is set the same client connects
\* again.
ConnectAgain ==
  /\ rebuild = "connect" /\ conn[active] = "failed" /\ NoFault
  /\ conn' = [conn EXCEPT ![active] = "connecting"]
  /\ rebuild' = "again"
  /\ UNCHANGED <<active, answers, hooked, lostDue, subscription, handlers, waiting,
                 failures, power, status>>

\* Still no connection: a client that does not verify the certificate takes
\* over.  Nothing stops the other one, should it only have been slow.
FallBack(c) ==
  /\ \/ rebuild \in {"connect", "again"} /\ conn[active] = "failed" /\ NoFault
     \/ rebuild = "again" /\ conn[active] = "connecting" /\ "slow" \in Requests /\ Fault
  /\ NewClient(c)
  /\ rebuild' = "insecure"

\* waitForMQTTConnect ends: connected, refused or, a fault, timed out.  (By
\* then the connection may be gone again.)
CreateReturns ==
  /\ rebuild \in {"connect", "again", "insecure"}
  /\ FaultUnless(conn[active] # "connecting")
  /\ Rebuilt
  /\ failures' = IF conn[active] \in {"connecting", "failed"} THEN failures ELSE 0
  /\ UNCHANGED <<mqtt, subscription, handlers, status>>

\* RequestReconnect: a CA certificate or a broker has been configured.
RequestReconnect ==
  /\ "reconnect" \in Requests /\ Fault
  /\ Ask("config")
  /\ UNCHANGED <<mqtt, subscription, handlers, rebuild, failures, power, status>>

----------------------------------------------------------------------------
\* The telemetry publishers.

PublishSucceeds ==
  /\ Open(active) /\ NoFault
  /\ failures' = 0
  /\ UNCHANGED <<mqtt, subscription, handlers, rebuild, waiting, power, status>>

\* MaxFailures in a row ask for a new client.  A publish that fails on an open
\* connection, or while a rebuild is under way, is a fault.
PublishFails ==
  /\ FaultUnless(~Open(active) /\ rebuild = "idle")
  /\ IF failures + 1 >= MaxFailures
     THEN failures' = 0 /\ Ask("publish")
     ELSE failures' = failures + 1 /\ UNCHANGED waiting
  /\ UNCHANGED <<mqtt, subscription, handlers, rebuild, power, status>>

----------------------------------------------------------------------------
\* The power manager's listener, one message at a time.

\* About to suspend, hibernate or reboot.
SuspendBegins ==
  /\ power = "no" /\ "suspend" \in Requests /\ Fault
  /\ Clear
  /\ power' = "publish"
  /\ UNCHANGED <<mqtt, handlers, rebuilding, status>>

\* IsConnected is true of a client that is reconnecting.
SuspendPublishes ==
  /\ power = "publish" /\ NoFault
  /\ power' = IF conn[active] \in {"up", "lost", "retrying"} THEN active ELSE "no"
  /\ status' = IF Open(active) THEN "disconnected" ELSE status
  /\ UNCHANGED <<mqtt, subscription, handlers, rebuilding>>

SuspendDisconnects ==
  /\ power \in Client /\ NoFault
  /\ Disconnect(power)
  /\ power' = "no"
  /\ UNCHANGED <<active, hooked, lostDue, subscription, handlers, rebuilding, status>>

\* Running again without a connection: forceReconnect.
Resume ==
  /\ power = "no" /\ ~Open(active) /\ "resume" \in Requests /\ Fault
  /\ Ask("power") /\ power' = "reconnect"
  /\ UNCHANGED <<mqtt, subscription, handlers, rebuild, failures, status>>

----------------------------------------------------------------------------
ClientNext(c) == Lose(c) \/ ReconnectStart(c) \/ ConnectSucceeds(c) \/ ConnectFails(c)
                 \/ ConnectionLost(c)

HandlerNext(h) == Begin(h) \/ Grant(h) \/ Refuse(h) \/ SubscribeFails(h) \/ Complete(h)
                  \/ Advertise(h) \/ AfterFailure(h) \/ AfterDelay(h) \/ Decide(h) \/ Queue(h)

RebuildNext == (\E why \in Reason : RebuildBegins(why)) \/ RebuildDisconnects
               \/ CreateFails \/ (\E c \in Client : Create(c) \/ FallBack(c))
               \/ ConnectAgain \/ CreateReturns

PowerNext == SuspendBegins \/ SuspendPublishes \/ SuspendDisconnects \/ Resume

Next ==
  \/ \E c \in Client : ClientNext(c)
  \/ \E h \in Handler : HandlerNext(h)
  \/ RebuildNext
  \/ RequestReconnect
  \/ PublishSucceeds \/ PublishFails
  \/ PowerNext

Spec == Init /\ [][Next]_vars

\* Every goroutine and callback runs, the library keeps reconnecting, and
\* telemetry is published again and again.
Fairness ==
  /\ \A c \in Client : /\ WF_vars(ReconnectStart(c) \/ ConnectSucceeds(c))
                       /\ WF_vars(ConnectionLost(c))
  /\ \A h \in Handler : WF_vars(HandlerNext(h))
  /\ WF_vars(RebuildNext)
  /\ WF_vars(PublishSucceeds \/ PublishFails)
  /\ WF_vars(SuspendPublishes \/ SuspendDisconnects)

FairSpec == Spec /\ Fairness

----------------------------------------------------------------------------
\* Readiness is that of a connection that has its SUBACK, or it is about to be
\* withdrawn by a callback that is already due; a completion left over from an
\* earlier connection never restores it (client.go:108-110).  The exception is
\* a client that has been torn down, see the README.
ReadyIsCurrent ==
  ready => \/ Open(subClient) /\ "granted" \in answers[subClient]
           \/ lostDue[subClient] > 0
           \/ \E h \in Handler : of[h] = subClient /\ At(h, "begin")
           \/ conn[subClient] = "dead"

\* A client that has been replaced never connects again: no orphan is left to
\* take the session over from the active client (client.go:1285-1292).
NoOrphan == \A c \in Client : Alive(c) => c = active

\* However slow a connection is: two clients that are connected take the one
\* session over from each other forever (client.go:1285-1292).
OneConnection == \A c, d \in Client : Open(c) /\ Open(d) => c = d

\* The inductive invariant behind them.  A callback that runs has a client, and
\* attempts left when it begins; the latest attempt is for the subscribed client.
HandlerInv ==
  \A h \in Handler :
    /\ stage[h] # "none" => of[h] \in Client
    /\ stage[h] = "none" => tries[h] = 0
    /\ stage[h] \in {"begin", "delay"} => tries[h] < Attempts
    /\ owner = h /\ stage[h] \notin {"none", "begin"} => subClient = of[h]

Due(c) == \E h \in Handler : At(h, "begin") /\ of[h] = c

\* What may be ready: a client that has its SUBACK, or one of which a callback
\* is due that will take the readiness away again.
MayBeReady(c) ==
  /\ c \in Client
  /\ \/ conn[c] = "dead"
     \/ conn[c] \in {"lost", "retrying"} /\ lostDue[c] > 0
     \/ Open(c) /\ ("granted" \in answers[c] \/ Due(c))

ReadyInv ==
  /\ ready => MayBeReady(subClient)
  /\ \A h \in Handler : owner = h /\ At(h, "granted") => MayBeReady(of[h])

\* A new client is made when the old one is gone.
ActiveInv == NoOrphan /\ (rebuild = "create" => ~Alive(active))

SubscriptionInv == HandlerInv /\ ReadyInv /\ ActiveInv

Reachable == /\ ready /\ subClient = active
             /\ Open(active) /\ "granted" \in answers[active]

\* When nothing goes wrong any more the scooter becomes and stays reachable,
\* through the retries, the callbacks, the rebuilds or the publish failures,
\* unless the broker has refused the subscription (client.go:721-722).
Recovers == <>[](Reachable \/ "refused" \in answers[active])

Quiet == /\ rebuild = "idle" /\ waiting = {} /\ power = "no"
         /\ \A c \in Client : lostDue[c] = 0 /\ (Open(c) \/ ~Alive(c))
         /\ \A h \in Handler : At(h, "none")

\* The retained message says connected only of a scooter that is: before a
\* clean disconnect it is withdrawn, the will being sent on unclean ones only
\* (client.go:1475-1476 and 1089-1090).
StatusIsWithdrawn == Quiet /\ status = "connected" => Open(active)
=============================================================================
