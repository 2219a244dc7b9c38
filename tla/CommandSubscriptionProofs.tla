--------------------- MODULE CommandSubscriptionProofs ---------------------
(***************************************************************************)
(* Proofs about CommandSubscription, for any number of clients, callbacks, *)
(* attempts, failures and requests: its types, that readiness is that of   *)
(* the current connection, and that no replaced client lives on, as long   *)
(* as no connection outlasts its wait (no "slow" request).                 *)
(***************************************************************************)
EXTENDS CommandSubscription, TLAPS

USE SubscriptionAssumption DEF SubscriptionAssumption

\* The parts of TypeOK that actions change together.
Stages == {"none", "begin", "sent", "granted", "advertise", "failed", "delay", "decide", "queue"}
Conns == {"dead", "failed", "connecting", "up", "lost", "retrying"}

HandlersOK ==
  /\ stage \in [Handler -> Stages]
  /\ of \in [Handler -> Client \cup {NoClient}]
  /\ tries \in [Handler -> 0..Attempts]

MqttOK ==
  /\ active \in Client
  /\ conn \in [Client -> Conns]
  /\ answers \in [Client -> SUBSET {"granted", "refused"}]
  /\ hooked \subseteq Client
  /\ lostDue \in [Client -> Nat]

SubscriptionOK ==
  /\ subClient \in Client \cup {NoClient}
  /\ owner \in Handler \cup {NoHandler}
  /\ ready \in BOOLEAN

RebuildOK ==
  /\ rebuild \in {"idle", "disconnect", "create", "connect", "again", "insecure"}
  /\ waiting \subseteq Reason
  /\ failures \in 0..(MaxFailures - 1)

PowerOK == power \in {"no", "publish", "reconnect", "rebuild"} \cup Client
StatusOK == status \in {"connected", "disconnected"}
FaultsOK == faults \in 0..MaxFaults

Typed == /\ HandlersOK /\ MqttOK /\ SubscriptionOK /\ RebuildOK /\ PowerOK /\ StatusOK
         /\ FaultsOK

LEMMA TypedIsTypeOK == Typed <=> TypeOK
BY DEF Typed, TypeOK, HandlersOK, MqttOK, SubscriptionOK, RebuildOK, PowerOK, StatusOK, FaultsOK,
       Stages, Conns

----------------------------------------------------------------------------
\* What actions leave alone keeps its type.

LEMMA MqttKept == MqttOK /\ UNCHANGED mqtt => MqttOK'
BY DEF MqttOK, mqtt

LEMMA SubscriptionKept == SubscriptionOK /\ UNCHANGED subscription => SubscriptionOK'
BY DEF SubscriptionOK, subscription

LEMMA HandlersKept == HandlersOK /\ UNCHANGED handlers => HandlersOK'
BY DEF HandlersOK, handlers

LEMMA RebuildKept == RebuildOK /\ UNCHANGED rebuilding => RebuildOK'
BY DEF RebuildOK, rebuilding

LEMMA RestKept ==
  /\ PowerOK /\ UNCHANGED power => PowerOK'
  /\ StatusOK /\ UNCHANGED status => StatusOK'
BY DEF PowerOK, StatusOK

LEMMA FaultsKept == FaultsOK /\ (Fault \/ NoFault) => FaultsOK'
BY DEF FaultsOK, Fault, NoFault

LEMMA Unless == ASSUME NEW p, FaultUnless(p) PROVE Fault \/ NoFault
BY DEF FaultUnless

LEMMA ClearTyped ==
  /\ Clear => SubscriptionOK'
  /\ \A c \in Client : SubscriptionOK /\ ClearForClient(c) => SubscriptionOK'
BY DEF Clear, ClearForClient, SubscriptionOK, subscription

LEMMA HandlerTyped ==
  ASSUME HandlersOK, NEW h \in Handler
  PROVE  /\ End(h) => HandlersOK'
         /\ \A s \in Stages : Goto(h, s) => HandlersOK'
BY DEF HandlersOK, End, Goto, Stages

LEMMA ScheduleTyped ==
  ASSUME HandlersOK, NEW c \in Client, Schedule(c)
  PROVE  HandlersOK'
BY DEF HandlersOK, Schedule, Stages

LEMMA DisconnectTyped ==
  ASSUME MqttOK, NEW c \in Client, Disconnect(c), UNCHANGED <<active, hooked, lostDue>>
  PROVE  MqttOK'
BY DEF MqttOK, Disconnect, Conns

LEMMA TypedInit == Init => Typed /\ SubscriptionInv
<1> SUFFICES ASSUME Init
             PROVE  Typed /\ SubscriptionInv
  OBVIOUS
<1>1. active \in Client
  BY DEF Init
<1>2. PICK h \in Handler :
        /\ stage = [g \in Handler |-> IF g = h THEN "begin" ELSE "none"]
        /\ of = [g \in Handler |-> IF g = h THEN active ELSE NoClient]
  <2>1. (CHOOSE h \in Handler : TRUE) \in Handler
    OBVIOUS
  <2> QED
    BY <2>1 DEF Init
<1>3. HandlersOK
  BY <1>1, <1>2 DEF Init, HandlersOK, Stages
<1>4. MqttOK
  BY <1>1 DEF Init, MqttOK, Conns
<1>5. SubscriptionOK /\ RebuildOK /\ PowerOK /\ StatusOK /\ FaultsOK
  <2>1. /\ subClient = NoClient /\ owner = NoHandler /\ ready = FALSE
        /\ rebuild = "idle" /\ waiting = {} /\ failures = 0
        /\ power = "no" /\ status = "disconnected" /\ faults = 0
    BY DEF Init
  <2>2. SubscriptionOK
    BY <2>1 DEF SubscriptionOK
  <2>3. RebuildOK
    BY <2>1 DEF RebuildOK
  <2>4. PowerOK
    BY <2>1 DEF PowerOK
  <2>5. StatusOK /\ FaultsOK
    BY <2>1 DEF StatusOK, FaultsOK
  <2> QED
    BY <2>2, <2>3, <2>4, <2>5
<1>6. HandlerInv
  BY <1>1, <1>2 DEF Init, HandlerInv
<1>7. ReadyInv
  BY DEF Init, ReadyInv
<1>8. ActiveInv
  <2>1. conn = [c \in Client |-> IF c = active THEN "up" ELSE "dead"] /\ rebuild = "idle"
    BY DEF Init
  <2> QED
    BY <2>1 DEF ActiveInv, NoOrphan, Alive
<1> QED
  BY <1>3, <1>4, <1>5, <1>6, <1>7, <1>8 DEF Typed, SubscriptionInv

----------------------------------------------------------------------------
\* Every action keeps the types.  Of the handlers' invariant it needs that a
\* callback has a client, and attempts left when it begins.

LEMMA TypedClient ==
  ASSUME Typed, NEW c \in Client, ClientNext(c)
  PROVE  Typed'
<1>1. /\ Fault \/ NoFault
      /\ UNCHANGED <<rebuilding, power>>
  BY DEF ClientNext, Lose, ReconnectStart, ConnectSucceeds, ConnectFails, ConnectionLost
<1>2. FaultsOK' /\ RebuildOK' /\ PowerOK'
  BY <1>1, FaultsKept, RebuildKept, RestKept DEF Typed
<1>3. StatusOK'
  BY DEF Typed, StatusOK, ClientNext, Lose, ReconnectStart, ConnectSucceeds, ConnectFails,
         ConnectionLost
<1>4. HandlersOK'
  BY HandlersKept, ScheduleTyped
     DEF Typed, ClientNext, Lose, ReconnectStart, ConnectSucceeds, ConnectFails, ConnectionLost
<1>5. SubscriptionOK'
  BY SubscriptionKept, ClearTyped
     DEF Typed, ClientNext, Lose, ReconnectStart, ConnectSucceeds, ConnectFails, ConnectionLost
<1>6. MqttOK'
  BY DEF Typed, MqttOK, Conns, ClientNext, Lose, ReconnectStart, ConnectSucceeds, ConnectFails,
         ConnectionLost, Open
<1> QED
  BY <1>2, <1>3, <1>4, <1>5, <1>6 DEF Typed

LEMMA TypedHandler ==
  ASSUME Typed, HandlerInv, NEW h \in Handler, HandlerNext(h)
  PROVE  Typed'
<1>1. PowerOK' /\ StatusOK' /\ FaultsOK' /\ RebuildOK'
  <2>1. Fault \/ NoFault
    BY Unless DEF HandlerNext, Begin, Grant, Refuse, SubscribeFails, Complete, Advertise,
                  AfterFailure, AfterDelay, Decide, Queue
  <2>2. power' = power /\ status' \in {status, "connected"}
    BY DEF HandlerNext, Begin, Grant, Refuse, SubscribeFails, Complete, Advertise,
           AfterFailure, AfterDelay, Decide, Queue
  <2>3. rebuild' = rebuild /\ failures' = failures
    BY DEF HandlerNext, Begin, Grant, Refuse, SubscribeFails, Complete, Advertise,
           AfterFailure, AfterDelay, Decide, Queue, rebuilding
  <2>4. waiting' \subseteq waiting \cup {"subscription"}
    BY DEF HandlerNext, Begin, Grant, Refuse, SubscribeFails, Complete, Advertise,
           AfterFailure, AfterDelay, Decide, Queue, rebuilding, Ask
  <2> QED
    BY <2>1, <2>2, <2>3, <2>4, FaultsKept DEF Typed, RebuildOK, Reason, PowerOK, StatusOK
<1>2. CASE Begin(h)
  <2>1. MqttOK'
    BY <1>2, MqttKept DEF Begin, Typed
  <2>2. CASE End(h) /\ UNCHANGED subscription
    BY <1>1, <2>1, <2>2, HandlerTyped, SubscriptionKept DEF Typed
  <2>3. CASE /\ stage' = [stage EXCEPT ![h] = "sent"]
             /\ tries' = [tries EXCEPT ![h] = @ + 1]
             /\ subClient' = of[h] /\ owner' = h /\ ready' = FALSE
             /\ UNCHANGED of
    <3>1. tries[h] + 1 \in 0..Attempts
      BY <1>2 DEF Begin, At, HandlerInv, Typed, HandlersOK
    <3>2. HandlersOK'
      BY <2>3, <3>1 DEF Typed, HandlersOK, Stages
    <3>3. SubscriptionOK'
      BY <2>3 DEF Typed, HandlersOK, SubscriptionOK
    <3> QED
      BY <1>1, <2>1, <3>2, <3>3 DEF Typed
  <2> QED
    BY <1>2, <2>2, <2>3 DEF Begin
<1>3. CASE ~Begin(h)
  <2>1. HandlersOK'
    <3>1. End(h) \/ \E s \in Stages : Goto(h, s)
      BY <1>3
         DEF HandlerNext, Grant, Refuse, SubscribeFails, Complete, Advertise, AfterFailure,
             AfterDelay, Decide, Queue, Stages
    <3> QED
      BY <3>1, HandlerTyped DEF Typed
  <2>2. SubscriptionOK'
    <3>1. subClient' = subClient /\ owner' = owner /\ ready' \in BOOLEAN
      BY <1>3
         DEF HandlerNext, Grant, Refuse, SubscribeFails, Complete, Advertise, AfterFailure,
             AfterDelay, Decide, Queue, Typed, SubscriptionOK, subscription
    <3> QED
      BY <3>1 DEF Typed, SubscriptionOK
  <2>3. MqttOK'
    <3>1. /\ UNCHANGED <<active, conn, hooked, lostDue>>
          /\ \/ UNCHANGED answers
             \/ \E s \in {"granted", "refused"} :
                  answers' = [answers EXCEPT ![of[h]] = @ \cup {s}]
      BY <1>3
         DEF HandlerNext, Grant, Refuse, SubscribeFails, Complete, Advertise, AfterFailure,
             AfterDelay, Decide, Queue, mqtt
    <3>2. answers' \in [Client -> SUBSET {"granted", "refused"}]
      BY <3>1 DEF Typed, MqttOK
    <3> QED
      BY <3>1, <3>2 DEF Typed, MqttOK
  <2> QED
    BY <1>1, <2>1, <2>2, <2>3 DEF Typed
<1> QED
  BY <1>2, <1>3

LEMMA TypedNewClient ==
  ASSUME MqttOK, NEW c \in Client, NewClient(c)
  PROVE  MqttOK'
BY DEF MqttOK, NewClient, Conns

LEMMA TypedRebuild == ASSUME Typed, RebuildNext PROVE Typed'
<1>1. CASE \E why \in Reason : RebuildBegins(why)
  <2>1. PICK why \in Reason : RebuildBegins(why)
    BY <1>1
  <2>2. RebuildOK' /\ PowerOK' /\ StatusOK'
    BY <2>1 DEF RebuildBegins, Typed, RebuildOK, PowerOK, StatusOK
  <2> QED
    BY <2>1, <2>2, MqttKept, ClearTyped, HandlersKept, FaultsKept DEF RebuildBegins, Typed
<1>2. CASE RebuildDisconnects
  <2>1. MqttOK'
    BY <1>2, DisconnectTyped DEF RebuildDisconnects, Typed, MqttOK
  <2>2. RebuildOK'
    BY <1>2 DEF RebuildDisconnects, Typed, RebuildOK
  <2> QED
    BY <1>2, <2>1, <2>2, SubscriptionKept, HandlersKept, RestKept, FaultsKept
       DEF RebuildDisconnects, Typed
<1>3. CASE CreateFails
  <2>1. RebuildOK' /\ PowerOK'
    BY <1>3 DEF CreateFails, Rebuilt, Typed, RebuildOK, PowerOK
  <2> QED
    BY <1>3, <2>1, MqttKept, SubscriptionKept, HandlersKept, RestKept, FaultsKept
       DEF CreateFails, Typed
<1>4. CASE \E c \in Client : Create(c) \/ FallBack(c)
  <2>1. PICK c \in Client : Create(c) \/ FallBack(c)
    BY <1>4
  <2>2. NewClient(c) /\ (Fault \/ NoFault) /\ rebuild' \in {"connect", "insecure"}
    BY <2>1 DEF Create, FallBack
  <2>3. MqttOK'
    BY <2>2, TypedNewClient DEF Typed
  <2>4. RebuildOK'
    BY <2>2 DEF NewClient, Typed, RebuildOK
  <2> QED
    BY <2>2, <2>3, <2>4, SubscriptionKept, HandlersKept, RestKept, FaultsKept DEF NewClient, Typed
<1>5. CASE ConnectAgain
  <2>1. MqttOK'
    BY <1>5 DEF ConnectAgain, Typed, MqttOK, Conns
  <2>2. RebuildOK'
    BY <1>5 DEF ConnectAgain, Typed, RebuildOK
  <2> QED
    BY <1>5, <2>1, <2>2, SubscriptionKept, HandlersKept, RestKept, FaultsKept
       DEF ConnectAgain, Typed
<1>6. CASE CreateReturns
  <2>1. RebuildOK'
    BY <1>6 DEF CreateReturns, Rebuilt, Typed, RebuildOK
  <2>2. PowerOK'
    BY <1>6 DEF CreateReturns, Rebuilt, Typed, PowerOK
  <2>3. Fault \/ NoFault
    BY <1>6, Unless DEF CreateReturns
  <2> QED
    BY <1>6, <2>1, <2>2, <2>3, MqttKept, SubscriptionKept, HandlersKept, RestKept, FaultsKept
       DEF CreateReturns, Typed
<1> QED
  BY <1>1, <1>2, <1>3, <1>4, <1>5, <1>6 DEF RebuildNext

LEMMA TypedRest ==
  ASSUME Typed, RequestReconnect \/ PublishSucceeds \/ PublishFails \/ PowerNext
  PROVE  Typed'
<1>1. CASE RequestReconnect \/ PublishSucceeds \/ PublishFails
  <2>1. /\ UNCHANGED <<mqtt, subscription, handlers, rebuild, power, status>>
        /\ waiting' \subseteq waiting \cup {"config", "publish"}
    BY <1>1 DEF RequestReconnect, PublishSucceeds, PublishFails, Ask
  <2>2. failures' \in 0..(MaxFailures - 1)
    BY <1>1 DEF RequestReconnect, PublishSucceeds, PublishFails, Typed, RebuildOK
  <2>3. RebuildOK'
    BY <2>1, <2>2 DEF Typed, RebuildOK, Reason
  <2>4. Fault \/ NoFault
    BY <1>1, Unless DEF RequestReconnect, PublishSucceeds, PublishFails
  <2> QED
    BY <2>1, <2>3, <2>4, MqttKept, SubscriptionKept, HandlersKept, RestKept, FaultsKept DEF Typed
<1>2. CASE SuspendBegins
  <2>1. PowerOK'
    BY <1>2 DEF SuspendBegins, PowerOK
  <2> QED
    BY <1>2, <2>1, MqttKept, ClearTyped, HandlersKept, RebuildKept, RestKept, FaultsKept
       DEF SuspendBegins, Typed
<1>3. CASE SuspendPublishes
  <2>1. PowerOK' /\ StatusOK'
    BY <1>3 DEF SuspendPublishes, Typed, PowerOK, StatusOK, MqttOK
  <2> QED
    BY <1>3, <2>1, MqttKept, SubscriptionKept, HandlersKept, RebuildKept, FaultsKept
       DEF SuspendPublishes, Typed
<1>4. CASE SuspendDisconnects
  <2>1. MqttOK'
    BY <1>4, DisconnectTyped DEF SuspendDisconnects, Typed
  <2>2. PowerOK'
    BY <1>4 DEF SuspendDisconnects, PowerOK
  <2> QED
    BY <1>4, <2>1, <2>2, SubscriptionKept, HandlersKept, RebuildKept, RestKept, FaultsKept
       DEF SuspendDisconnects, Typed
<1>5. CASE Resume
  <2>1. PowerOK' /\ RebuildOK'
    BY <1>5 DEF Resume, Ask, Typed, PowerOK, RebuildOK, Reason
  <2> QED
    BY <1>5, <2>1, MqttKept, SubscriptionKept, HandlersKept, RestKept, FaultsKept
       DEF Resume, Typed
<1> QED
  BY <1>1, <1>2, <1>3, <1>4, <1>5 DEF PowerNext

LEMMA TypedStep == ASSUME Typed, HandlerInv, [Next]_vars PROVE Typed'
<1>1. CASE UNCHANGED vars
  <2>1. UNCHANGED <<mqtt, subscription, handlers, rebuilding, power, status, faults>>
    BY <1>1 DEF vars, mqtt, subscription, handlers, rebuilding
  <2> QED
    BY <2>1, MqttKept, SubscriptionKept, HandlersKept, RebuildKept, RestKept
       DEF Typed, FaultsOK
<1> QED
  BY <1>1, TypedClient, TypedHandler, TypedRebuild, TypedRest DEF Next

----------------------------------------------------------------------------
\* The handlers' invariant.

\* What is not a callback's own step starts callbacks at most, and withdraws
\* the readiness at most.
Withdrawn == owner' = NoHandler /\ ready' = FALSE

LEMMA OthersKeepHandlers ==
  ASSUME \/ \E c \in Client : ClientNext(c)
         \/ RebuildNext \/ RequestReconnect \/ PublishSucceeds \/ PublishFails \/ PowerNext
         \/ UNCHANGED vars
  PROVE  /\ UNCHANGED handlers \/ \E c \in Client : Schedule(c)
         /\ UNCHANGED subscription \/ Withdrawn
<1>1. CASE \E c \in Client : ClientNext(c)
  BY <1>1 DEF ClientNext, Lose, ReconnectStart, ConnectSucceeds, ConnectFails, ConnectionLost,
              ClearForClient, Withdrawn
<1>2. CASE RebuildNext
  BY <1>2 DEF RebuildNext, RebuildBegins, RebuildDisconnects, CreateFails, Create, FallBack,
              NewClient, ConnectAgain, CreateReturns, Clear, Withdrawn
<1>3. CASE RequestReconnect \/ PublishSucceeds \/ PublishFails \/ PowerNext
  BY <1>3 DEF RequestReconnect, PublishSucceeds, PublishFails, PowerNext, SuspendBegins,
              SuspendPublishes, SuspendDisconnects, Resume, Clear, Withdrawn
<1>4. CASE UNCHANGED vars
  BY <1>4 DEF vars, handlers, subscription
<1> QED
  BY <1>1, <1>2, <1>3, <1>4

LEMMA HandlerInvOthers ==
  ASSUME Typed, HandlerInv,
         UNCHANGED handlers \/ \E c \in Client : Schedule(c),
         UNCHANGED subscription \/ Withdrawn
  PROVE  HandlerInv'
<1>1. (owner' = owner /\ subClient' = subClient) \/ owner' = NoHandler
  BY DEF subscription, Withdrawn
<1>2. CASE UNCHANGED handlers
  BY <1>1, <1>2 DEF HandlerInv, handlers
<1>3. CASE \E c \in Client : Schedule(c)
  <2>1. PICK c \in Client, h \in Handler :
          /\ stage[h] = "none"
          /\ stage' = [stage EXCEPT ![h] = "begin"]
          /\ of' = [of EXCEPT ![h] = c]
          /\ UNCHANGED tries
    BY <1>3 DEF Schedule
  <2> QED
    BY <1>1, <2>1 DEF HandlerInv, Typed, HandlersOK
<1> QED
  BY <1>2, <1>3

LEMMA HandlerInvHandlers ==
  ASSUME Typed, HandlerInv, NEW h \in Handler, HandlerNext(h)
  PROVE  HandlerInv'
<1>1. CASE End(h) /\ UNCHANGED <<subClient, owner>>
  BY <1>1 DEF End, HandlerInv, Typed, HandlersOK
<1>2. CASE \E s \in Stages : /\ s # "none" /\ Goto(h, s) /\ UNCHANGED <<subClient, owner>>
                             /\ stage[h] \notin {"none", "begin"}
                             /\ s \in {"begin", "delay"} => tries[h] < Attempts
  BY <1>2 DEF Goto, HandlerInv, Typed, HandlersOK, Stages
<1>3. CASE /\ At(h, "begin")
           /\ stage' = [stage EXCEPT ![h] = "sent"]
           /\ tries' = [tries EXCEPT ![h] = @ + 1]
           /\ subClient' = of[h] /\ owner' = h
           /\ UNCHANGED of
  BY <1>3 DEF At, HandlerInv, Typed, HandlersOK
<1>4. CASE Begin(h)
  BY <1>1, <1>3, <1>4 DEF Begin, subscription
<1>5. CASE Grant(h) \/ SubscribeFails(h) \/ Complete(h)
  BY <1>2, <1>5 DEF Grant, SubscribeFails, Complete, At, subscription, Stages
<1>6. CASE AfterFailure(h) \/ AfterDelay(h)
  BY <1>2, <1>6 DEF AfterFailure, AfterDelay, At, HandlerInv, subscription, Stages
<1>7. CASE Refuse(h) \/ Advertise(h) \/ Queue(h)
  BY <1>1, <1>7 DEF Refuse, Advertise, Queue, subscription
<1>8. CASE Decide(h)
  BY <1>1, <1>2, <1>8 DEF Decide, At, subscription, Stages
<1> QED
  BY <1>4, <1>5, <1>6, <1>7, <1>8 DEF HandlerNext

LEMMA HandlerInvStep == ASSUME Typed, HandlerInv, [Next]_vars PROVE HandlerInv'
<1>1. CASE \E h \in Handler : HandlerNext(h)
  BY <1>1, HandlerInvHandlers
<1>2. CASE ~ \E h \in Handler : HandlerNext(h)
  <2>1. /\ UNCHANGED handlers \/ \E c \in Client : Schedule(c)
        /\ UNCHANGED subscription \/ Withdrawn
    BY <1>2, OthersKeepHandlers DEF Next
  <2> QED
    BY <2>1, HandlerInvOthers
<1> QED
  BY <1>1, <1>2

\* Types are right whatever is lost, asked for or late.
THEOREM TypeCorrect == Spec => []TypeOK
<1>1. Init => Typed /\ HandlerInv
  BY TypedInit DEF SubscriptionInv
<1>2. Typed /\ HandlerInv /\ [Next]_vars => (Typed /\ HandlerInv)'
  BY TypedStep, HandlerInvStep
<1>3. Typed => TypeOK
  BY TypedIsTypeOK
<1> QED
  BY <1>1, <1>2, <1>3, PTL DEF Spec

----------------------------------------------------------------------------
\* One client lives, unless a slow connection has been left behind.

LEMMA ActiveInvStep ==
  ASSUME Typed, ActiveInv, "slow" \notin Requests, [Next]_vars
  PROVE  ActiveInv'
<1>1. CASE UNCHANGED <<active, conn>> /\ (rebuild' = "create" => rebuild = "create")
  BY <1>1 DEF ActiveInv, NoOrphan, Alive
\* A client comes or stays alive only if it was, or as the active one.
<1>2. CASE /\ UNCHANGED active
           /\ rebuild' = "create" => rebuild = "create"
           /\ \A c \in Client : Alive(c)' => Alive(c)
  BY <1>2 DEF ActiveInv, NoOrphan, Typed, MqttOK
<1>3. CASE \E c \in Client : ClientNext(c)
  <2>1. PICK d \in Client : ClientNext(d)
    BY <1>3
  <2>2. UNCHANGED <<active, rebuild>>
    BY <2>1 DEF ClientNext, Lose, ReconnectStart, ConnectSucceeds, ConnectFails, ConnectionLost,
                rebuilding
  <2>3. \A c \in Client : Alive(c)' => Alive(c)
    BY <2>1 DEF ClientNext, Lose, ReconnectStart, ConnectSucceeds, ConnectFails, ConnectionLost,
                Alive, Open, Typed, MqttOK
  <2> QED
    BY <1>2, <2>2, <2>3
<1>4. CASE \E h \in Handler : HandlerNext(h)
  <2>1. UNCHANGED <<active, conn, rebuild>>
    BY <1>4 DEF HandlerNext, Begin, Grant, Refuse, SubscribeFails, Complete, Advertise,
                AfterFailure, AfterDelay, Decide, Queue, mqtt, rebuilding
  <2> QED
    BY <1>1, <2>1
<1>5. CASE RebuildDisconnects
  <2>1. conn' = [conn EXCEPT ![active] = "dead"] /\ UNCHANGED active
    BY <1>5 DEF RebuildDisconnects, Disconnect
  <2> QED
    BY <2>1 DEF ActiveInv, NoOrphan, Alive, Typed, MqttOK
<1>6. CASE \E c \in Client : Create(c) \/ FallBack(c)
  <2>1. PICK c \in Client : Create(c) \/ FallBack(c)
    BY <1>6
  <2>2. /\ active' = c /\ conn' = [conn EXCEPT ![c] = "connecting"]
        /\ rebuild' # "create"
    BY <2>1 DEF Create, FallBack, NewClient
  <2>3. ~Alive(active)
    BY <2>1 DEF Create, FallBack, ActiveInv, Alive
  <2>4. \A d \in Client : ~Alive(d)
    BY <2>3 DEF ActiveInv, NoOrphan
  <2> QED
    BY <2>2, <2>4 DEF ActiveInv, NoOrphan, Alive, Typed, MqttOK
<1>7. CASE ConnectAgain
  <2>1. conn' = [conn EXCEPT ![active] = "connecting"] /\ active' = active /\ rebuild' # "create"
    BY <1>7 DEF ConnectAgain
  <2> QED
    BY <2>1 DEF ActiveInv, NoOrphan, Alive, Typed, MqttOK
<1>8. CASE (\E why \in Reason : RebuildBegins(why)) \/ CreateFails \/ CreateReturns
  BY <1>1, <1>8 DEF RebuildBegins, CreateFails, CreateReturns, Rebuilt, mqtt
<1>9. CASE RequestReconnect \/ PublishSucceeds \/ PublishFails \/ SuspendBegins \/ SuspendPublishes
           \/ Resume
  BY <1>1, <1>9
     DEF RequestReconnect, PublishSucceeds, PublishFails, SuspendBegins, SuspendPublishes, Resume,
         mqtt, rebuilding
<1>10. CASE SuspendDisconnects
  <2>1. \A c \in Client : Alive(c)' => Alive(c)
    BY <1>10 DEF SuspendDisconnects, Disconnect, Alive, Typed, MqttOK
  <2> QED
    BY <1>2, <1>10, <2>1 DEF SuspendDisconnects, rebuilding
<1>11. CASE UNCHANGED vars
  BY <1>1, <1>11 DEF vars
<1> QED
  BY <1>3, <1>4, <1>5, <1>6, <1>7, <1>8, <1>9, <1>10, <1>11 DEF Next, RebuildNext, PowerNext

----------------------------------------------------------------------------
\* What is ready, or about to be, may be ready.

\* The subscribed client is ready, or its latest attempt has been granted.
Held == ready \/ \E h \in Handler : owner = h /\ At(h, "granted")

LEMMA ReadyInvIsHeld ==
  ASSUME HandlerInv
  PROVE  ReadyInv <=> (Held => MayBeReady(subClient))
BY DEF HandlerInv, ReadyInv, Held, At

LEMMA HeldOthers ==
  ASSUME Typed, UNCHANGED handlers \/ \E c \in Client : Schedule(c),
         UNCHANGED subscription \/ Withdrawn, Held'
  PROVE  /\ Held /\ UNCHANGED subscription
         /\ \A c \in Client : Due(c) => Due(c)'
<1>1. UNCHANGED subscription
  BY DEF Held, Withdrawn
<1>2. CASE UNCHANGED handlers
  BY <1>1, <1>2 DEF Held, At, Due, handlers, subscription
<1>3. CASE \E c \in Client : Schedule(c)
  <2>1. PICK c \in Client, h \in Handler :
          /\ stage[h] = "none"
          /\ stage' = [stage EXCEPT ![h] = "begin"]
          /\ of' = [of EXCEPT ![h] = c]
    BY <1>3 DEF Schedule
  <2> QED
    BY <1>1, <2>1 DEF Held, At, Due, subscription, Typed, HandlersOK
<1> QED
  BY <1>1, <1>2, <1>3

LEMMA MayBeReadyKept ==
  ASSUME NEW c \in Client, MayBeReady(c),
         conn'[c] = conn[c], lostDue'[c] >= lostDue[c], lostDue \in [Client -> Nat],
         lostDue'[c] \in Nat,
         "granted" \in answers[c] => "granted" \in answers'[c],
         Open(c) /\ Due(c) => Due(c)'
  PROVE  MayBeReady(c)'
BY DEF MayBeReady, Open

LEMMA MayBeReadyClients ==
  ASSUME Typed, NEW c \in Client, c = subClient, MayBeReady(c), NEW d \in Client, ClientNext(d),
         \A e \in Client : Due(e) => Due(e)'
  PROVE  MayBeReady(c)' \/ Withdrawn
<1>1. CASE Lose(d)
  BY <1>1 DEF Lose, MayBeReady, Open, Typed, MqttOK
<1>2. CASE ReconnectStart(d)
  BY <1>2 DEF ReconnectStart, MayBeReady, Open, Typed, MqttOK
<1>3. CASE ConnectSucceeds(d)
  <2>1. Due(d)'
    BY <1>3 DEF ConnectSucceeds, Schedule, Due, At, Typed, HandlersOK
  <2> QED
    BY <1>3, <2>1 DEF ConnectSucceeds, MayBeReady, Open, Typed, MqttOK
<1>4. CASE ConnectFails(d)
  BY <1>4 DEF ConnectFails, MayBeReady, Open, Typed, MqttOK
<1>5. CASE ConnectionLost(d)
  BY <1>5 DEF ConnectionLost, ClearForClient, Withdrawn, MayBeReady, Open, Typed, MqttOK
<1> QED
  BY <1>1, <1>2, <1>3, <1>4, <1>5 DEF ClientNext

LEMMA MayBeReadyOthers ==
  ASSUME Typed, NEW c \in Client, c = subClient, Held, HandlerInv, MayBeReady(c),
         RebuildNext \/ RequestReconnect \/ PublishSucceeds \/ PublishFails \/ PowerNext
           \/ UNCHANGED vars,
         \A e \in Client : Due(e) => Due(e)'
  PROVE  MayBeReady(c)'
<1>1. CASE UNCHANGED <<conn, lostDue, answers>>
  BY <1>1, MayBeReadyKept DEF Typed, MqttOK
<1>2. CASE \E d \in Client : Disconnect(d) /\ UNCHANGED lostDue
  BY <1>2 DEF Disconnect, MayBeReady, Open, Typed, MqttOK
<1>3. CASE \E d \in Client : NewClient(d)
  <2>1. PICK d \in Client : NewClient(d)
    BY <1>3
  <2>2. d # c
    BY <2>1 DEF NewClient, Unused, Held, HandlerInv, At
  <2>3. conn' = [conn EXCEPT ![d] = "connecting"] /\ UNCHANGED <<lostDue, answers>>
    BY <2>1 DEF NewClient
  <2> QED
    BY <2>2, <2>3, MayBeReadyKept DEF Typed, MqttOK
<1>4. CASE ConnectAgain
  <2>1. /\ conn[active] = "failed" /\ conn' = [conn EXCEPT ![active] = "connecting"]
        /\ UNCHANGED <<lostDue, answers>>
    BY <1>4 DEF ConnectAgain
  <2>2. active # c
    BY <2>1 DEF MayBeReady, Open
  <2> QED
    BY <2>1, <2>2, MayBeReadyKept DEF Typed, MqttOK
<1>5. CASE RebuildNext
  <2>1. CASE (\E why \in Reason : RebuildBegins(why)) \/ CreateFails \/ CreateReturns
    BY <1>1, <2>1 DEF RebuildBegins, CreateFails, CreateReturns, mqtt
  <2>2. CASE RebuildDisconnects
    BY <1>2, <2>2 DEF RebuildDisconnects, Typed, MqttOK
  <2>3. CASE \E d \in Client : Create(d) \/ FallBack(d)
    BY <1>3, <2>3 DEF Create, FallBack
  <2> QED
    BY <1>4, <1>5, <2>1, <2>2, <2>3 DEF RebuildNext
<1>6. CASE RequestReconnect \/ PublishSucceeds \/ PublishFails
  BY <1>1, <1>6 DEF RequestReconnect, PublishSucceeds, PublishFails, mqtt
<1>7. CASE PowerNext
  <2>1. CASE SuspendDisconnects
    BY <1>2, <2>1 DEF SuspendDisconnects
  <2>2. CASE SuspendBegins \/ SuspendPublishes \/ Resume
    BY <1>1, <2>2 DEF SuspendBegins, SuspendPublishes, Resume, mqtt
  <2> QED
    BY <1>7, <2>1, <2>2 DEF PowerNext
<1>8. CASE UNCHANGED vars
  BY <1>1, <1>8 DEF vars
<1> QED
  BY <1>5, <1>6, <1>7, <1>8

\* A callback that begins takes the readiness away; only the attempt of the
\* latest generation, which has its SUBACK, gives it back.
LEMMA HeldHandlers ==
  ASSUME Typed, HandlerInv, ActiveInv, Held => MayBeReady(subClient),
         NEW h \in Handler, HandlerNext(h), Held'
  PROVE  MayBeReady(subClient)'
<1>1. CASE Begin(h)
  <2>1. CASE of[h] = active
    <3>1. /\ stage' = [stage EXCEPT ![h] = "sent"] /\ owner' = h /\ ready' = FALSE
      BY <1>1, <2>1 DEF Begin
    <3> QED
      BY <3>1 DEF Held, At, Typed, HandlersOK
  <2>2. CASE of[h] # active
    <3>1. /\ stage' = [stage EXCEPT ![h] = "none"] /\ of' = [of EXCEPT ![h] = NoClient]
          /\ UNCHANGED <<subClient, owner, ready, conn, lostDue, answers, active>>
      BY <1>1, <2>2 DEF Begin, End, subscription, mqtt
    <3>2. Held
      BY <3>1 DEF Held, At, Typed, HandlersOK
    <3>3. MayBeReady(subClient) /\ subClient \in Client
      BY <3>2 DEF MayBeReady
    <3>4. Open(subClient) => subClient = active
      BY <3>3 DEF ActiveInv, NoOrphan, Alive, Open
    <3>5. Open(subClient) /\ Due(subClient) => Due(subClient)'
      BY <2>2, <3>1, <3>4 DEF Due, At, Typed, HandlersOK
    <3> QED
      BY <3>1, <3>3, <3>5 DEF MayBeReady, Open, Due
  <2> QED
    BY <2>1, <2>2
<1>2. CASE ~Begin(h)
  <2>1. /\ UNCHANGED <<conn, lostDue, subClient, owner>>
        /\ \A c \in Client : answers[c] \subseteq answers'[c]
    BY <1>2
       DEF HandlerNext, Grant, Refuse, SubscribeFails, Complete, Advertise, AfterFailure,
           AfterDelay, Decide, Queue, subscription, mqtt, Typed, MqttOK
  <2>2. stage[h] \notin {"none", "begin"}
    BY <1>2
       DEF HandlerNext, Grant, Refuse, SubscribeFails, Complete, Advertise, AfterFailure,
           AfterDelay, Decide, Queue, At
  <2>3. End(h) \/ \E s \in Stages : Goto(h, s)
    BY <1>2
       DEF HandlerNext, Grant, Refuse, SubscribeFails, Complete, Advertise, AfterFailure,
           AfterDelay, Decide, Queue, Stages
  <2>4. \A c \in Client : Due(c) => Due(c)'
    BY <2>2, <2>3 DEF End, Goto, Due, At, Typed, HandlersOK
  <2>5. ASSUME Held
        PROVE  MayBeReady(subClient)'
    <3>1. MayBeReady(subClient) /\ subClient \in Client
      BY <2>5 DEF MayBeReady
    <3> QED
      BY <2>1, <2>4, <3>1 DEF MayBeReady, Open
  <2>6. CASE Grant(h)
    <3>1. CASE Held
      BY <2>5, <3>1
    <3>2. CASE ~Held
      <4>1. owner = h /\ subClient = of[h] /\ of[h] \in Client
        BY <2>6, <3>2 DEF Grant, Goto, Held, At, HandlerInv, subscription, Typed, HandlersOK
      <4>2. Open(of[h]) /\ "granted" \in answers'[of[h]]
        BY <2>6, <4>1 DEF Grant, Typed, MqttOK
      <4> QED
        BY <2>1, <4>1, <4>2 DEF MayBeReady, Open
    <3> QED
      BY <3>1, <3>2
  <2>7. CASE ~Grant(h)
    <3>1. ready' => Held
      BY <1>2, <2>7
         DEF HandlerNext, Refuse, SubscribeFails, Complete, Advertise, AfterFailure, AfterDelay,
             Decide, Queue, subscription, Held
    <3>2. stage'[h] # "granted"
      BY <1>2, <2>7
         DEF HandlerNext, Refuse, SubscribeFails, Complete, Advertise, AfterFailure, AfterDelay,
             Decide, Queue, End, Goto, Typed, HandlersOK
    <3>3. \A g \in Handler : g # h => stage'[g] = stage[g]
      BY <2>3 DEF End, Goto, Typed, HandlersOK
    <3>4. Held
      BY <2>1, <3>1, <3>2, <3>3 DEF Held, At
    <3> QED
      BY <2>5, <3>4
  <2> QED
    BY <2>6, <2>7
<1> QED
  BY <1>1, <1>2

LEMMA ReadyInvStep ==
  ASSUME Typed, SubscriptionInv, [Next]_vars
  PROVE  ReadyInv'
<1>1. HandlerInv' /\ HandlerInv /\ ActiveInv
  BY HandlerInvStep DEF SubscriptionInv
<1>2. Held => MayBeReady(subClient)
  BY <1>1, ReadyInvIsHeld DEF SubscriptionInv
<1>3. ASSUME Held'
      PROVE  MayBeReady(subClient)'
  <2>1. CASE \E h \in Handler : HandlerNext(h)
    BY <1>1, <1>2, <1>3, <2>1, HeldHandlers
  <2>2. CASE ~ \E h \in Handler : HandlerNext(h)
    <3>1. /\ UNCHANGED handlers \/ \E c \in Client : Schedule(c)
          /\ UNCHANGED subscription \/ Withdrawn
      BY <2>2, OthersKeepHandlers DEF Next
    <3>2. Held /\ UNCHANGED subscription /\ \A c \in Client : Due(c) => Due(c)'
      BY <1>3, <3>1, HeldOthers
    <3>3. ~Withdrawn
      BY <1>3 DEF Withdrawn, Held
    <3>4. PICK c \in Client : c = subClient /\ c = subClient' /\ MayBeReady(c)
      BY <1>2, <3>2 DEF MayBeReady, subscription
    <3>5. MayBeReady(c)'
      BY <1>1, <2>2, <3>2, <3>3, <3>4, MayBeReadyClients, MayBeReadyOthers DEF Next
    <3> QED
      BY <3>4, <3>5 DEF MayBeReady, Open, Due, At
  <2> QED
    BY <2>1, <2>2
<1> QED
  BY <1>1, <1>3 DEF HandlerInv, ReadyInv, Held, At

----------------------------------------------------------------------------
\* The invariant holds in every behaviour without slow connections.
THEOREM InvariantHolds == ASSUME "slow" \notin Requests PROVE Spec => [](TypeOK /\ SubscriptionInv)
<1>1. Init => Typed /\ SubscriptionInv
  BY TypedInit
<1>2. Typed /\ SubscriptionInv /\ [Next]_vars => (Typed /\ SubscriptionInv)'
  <2> SUFFICES ASSUME Typed, SubscriptionInv, [Next]_vars
               PROVE  Typed' /\ SubscriptionInv'
    OBVIOUS
  <2>1. HandlerInv /\ ActiveInv
    BY DEF SubscriptionInv
  <2>2. Typed'
    BY <2>1, TypedStep
  <2>3. HandlerInv'
    BY <2>1, HandlerInvStep
  <2>4. ReadyInv'
    BY ReadyInvStep
  <2>5. ActiveInv'
    BY <2>1, ActiveInvStep
  <2> QED
    BY <2>2, <2>3, <2>4, <2>5 DEF SubscriptionInv
<1>3. Typed => TypeOK
  BY TypedIsTypeOK
<1> QED
  BY <1>1, <1>2, <1>3, PTL DEF Spec

\* Readiness is that of a connection that has its SUBACK, or it is about to be
\* withdrawn, or its client has been torn down.
THEOREM ReadinessIsCurrent == ASSUME "slow" \notin Requests PROVE Spec => []ReadyIsCurrent
<1>1. TypeOK /\ SubscriptionInv => ReadyIsCurrent
  <2> SUFFICES ASSUME TypeOK, SubscriptionInv, ready
               PROVE  ReadyIsCurrent
    BY DEF ReadyIsCurrent
  <2>1. MayBeReady(subClient)
    BY DEF SubscriptionInv, ReadyInv
  <2> QED
    BY <2>1 DEF MayBeReady, ReadyIsCurrent, Due, TypeOK
<1> QED
  BY <1>1, InvariantHolds, PTL

\* A client that has been replaced never connects again.
THEOREM NoOrphanLives == ASSUME "slow" \notin Requests PROVE Spec => []NoOrphan
<1>1. TypeOK /\ SubscriptionInv => NoOrphan
  BY DEF SubscriptionInv, ActiveInv
<1> QED
  BY <1>1, InvariantHolds, PTL
=============================================================================
