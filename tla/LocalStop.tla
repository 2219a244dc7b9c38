------------------------------ MODULE LocalStop ------------------------------
(***************************************************************************)
(* The local stop of a ride group (version 2 of internal/ridegroup).  The   *)
(* dashboard keeps a journal of the rider's wish to stop sharing.  The      *)
(* adapter has none: it probes the journal over Redis, asks the server over *)
(* MQTT whether the operation is known, and has it applied only after the   *)
(* server said not_found and a second probe found the journal unchanged.    *)
(* Sharing is possible only while the journal is known to be idle.          *)
(*                                                                          *)
(* A step is one critical section under Adapter.mu, or one message handled  *)
(* by the dashboard or the server, which are external.  There is no clock:  *)
(* a deadline may pass at any step.  Everything that journalIPCEpochV2      *)
(* outdates is also forgotten when it is counted up, so it is left out, and *)
(* so are the hello and the activity, and the limits of ten challenges,     *)
(* attempts and probes in ten seconds.                                      *)
(***************************************************************************)
EXTENDS Integers, Sequences, FiniteSets

CONSTANTS
  None,            \* nothing
  MaxStops,        \* a bound on the operations of the dashboard
  MaxRevision,     \* a bound on the revisions of its journal
  MaxProbes,       \* a bound on the probes
  MaxConnections,  \* a bound on the connections
  MaxGeneration,   \* a bound on the consent generations
  QueueSize        \* redisEgressQueueSize

ASSUME LocalStopAssumption ==
  /\ {MaxProbes, MaxConnections} \subseteq Nat
  /\ {MaxStops, MaxRevision, MaxGeneration, QueueSize} \subseteq Nat \ {0}

VARIABLES
  connected, connections,
  adapter,      \* what Adapter.mu guards, and its two egress queues
  journal,      \* the dashboard's journal (external)
  stops,        \* the operations it has begun
  lastProbe,    \* the challenge it was last probed with
  snapshots,    \* what it has sent to the adapter
  generation,   \* the server's consent generation (external)
  committed,    \* the stops it has committed, with their generations
  requests,     \* stop requests on their way to it
  answers,      \* what it has sent on this connection
  \* History
  notFound,     \* operations the server did not find, on this connection
  reconfirmed,  \* journals the dashboard has shown after that
  lastHeard,    \* the phase in the last snapshot that was handled
  applied,      \* the apply that was sent last
  delivered     \* the result that was delivered last

environmentVars == <<journal, stops, lastProbe, generation, committed, requests>>
historyVars == <<notFound, reconfirmed, lastHeard, applied, delivered>>
vars == <<connected, connections, adapter, environmentVars, snapshots, answers, historyVars>>

Operations == 1..MaxStops
Revisions == 1..MaxRevision
Challenges == 0..MaxProbes
Generations == 0..MaxGeneration

\* What ParseLocalStopV2 accepts: a journal blocks unless it is idle, and has a
\* fence (expected_generation) from prepared on.
Journals ==
  [phase: {"idle"}, operation: {None}, revision: Revisions, fence: {None}]
  \cup
  [phase: {"preparing"}, operation: Operations, revision: Revisions, fence: {None}]
  \cup
  [phase: {"prepared", "confirmed", "uncertain"}, operation: Operations,
   revision: Revisions, fence: Generations \cup {None}]

\* An empty journal.
Idle == [phase |-> "idle", operation |-> None, revision |-> 1, fence |-> None]

Snapshots == [challenge: Challenges, journal: Journals]

\* localProbeV2, localStopAttemptV2, preparedQueryV2 and the permit for an offer.
Probes == [challenge: Challenges, purpose: {"reconcile", "confirm"}]
Attempts == [challenge: Challenges, mode: {"query", "apply"}, journal: Journals]
Queries == [challenge: Challenges, journal: Journals]

\* LocalStopProbeV2 and LocalStopResultV2; what matters of a result is what it
\* is about and the generation it names.
Messages ==
  [type: {"probe"}, challenge: Challenges]
  \cup
  [type: {"offer", "committed", "not_found", "superseded", "error"},
   operation: Operations, revision: Revisions, fence: Generations \cup {None}]

TypeOK ==
  /\ connected \in BOOLEAN /\ connections \in 0..MaxConnections
  /\ {adapter.settingsReady, adapter.blocked, adapter.ready, adapter.inhibited}
       \subseteq BOOLEAN
  /\ adapter.journal \in Journals \cup {None}
  /\ adapter.probe \in Probes \cup {None} /\ adapter.probes \in 0..MaxProbes
  /\ adapter.used \subseteq Snapshots
  /\ {adapter.attempt, adapter.stop} \subseteq Attempts \cup {None}
  /\ {adapter.query, adapter.permit} \subseteq Queries \cup {None}
  /\ adapter.queue \in Seq(Messages) /\ Len(adapter.queue) <= QueueSize
  /\ journal \in Journals /\ stops \in 0..MaxStops
  /\ snapshots \in Seq(Snapshots)

-----------------------------------------------------------------------------
(* What the handlers are made of: functions of the adapter's state *)

\* invalidateLocalAttemptsV2Locked
Forget(a) == [a EXCEPT !.probe = None, !.attempt = None, !.used = {}, !.query = None]

\* inhibitJournalV2Locked
Inhibited(a) ==
  [Forget(a) EXCEPT !.ready = FALSE, !.inhibited = TRUE, !.permit = None]

\* Mutant: a full queue grows.
QueueGrows(a, message) == [a EXCEPT !.queue = Append(@, message)]

\* queueRedisPublication: a full queue loses its oldest entry.
Queued(a, message) ==
  [a EXCEPT !.queue =
     LET longer == Append(@, message)
     IN IF Len(longer) > QueueSize THEN Tail(longer) ELSE longer]

CanProbe(a) == a.settingsReady /\ a.probe = None /\ a.probes < MaxProbes

\* issueLocalProbeV2Locked
Probing(a, purpose) ==
  IF CanProbe(a)
  THEN Queued([a EXCEPT !.probe = [challenge |-> a.probes + 1, purpose |-> purpose],
                        !.probes = @ + 1],
              [type |-> "probe", challenge |-> a.probes + 1])
  ELSE a

\* maybeIssueReconciliationProbeV2Locked
Reconciling(a) == Probing(a, "reconcile")

\* sendStopV2Locked: at most one attempt is under way.
CanSend(a) == a.attempt = None

Sending(a, challenge, mode, record) ==
  IF CanSend(a)
  THEN LET attempt == [challenge |-> challenge, mode |-> mode, journal |-> record]
       IN [a EXCEPT !.attempt = attempt, !.stop = attempt]
  ELSE a

\* resetConnectionLocked
Reset(a) ==
  [Forget(a) EXCEPT !.permit = None, !.ready = FALSE, !.inhibited = FALSE,
                    !.journal = None, !.stop = None, !.queue = <<>>]

\* Whether positions may be published as far as the journal is concerned: the
\* gate of RideSharing.
GateOpen ==
  /\ adapter.settingsReady /\ ~adapter.blocked
  /\ adapter.ready /\ ~adapter.inhibited
  /\ adapter.journal # None /\ adapter.journal.phase = "idle"

-----------------------------------------------------------------------------
(* Connections and settings *)

\* What was said on an earlier connection is ignored; a request may still
\* reach the server.
ForgetAnswers ==
  answers' = {} /\ notFound' = {} /\ reconfirmed' = {} /\ delivered' = None

\* OnConnected, when its subscription is answered.
OnConnected ==
  /\ ~connected
  /\ connections < MaxConnections
  /\ connected' = TRUE
  /\ connections' = connections + 1
  /\ adapter' = Reconciling(Reset(adapter))
  /\ ForgetAnswers
  /\ UNCHANGED <<environmentVars, snapshots, lastHeard, applied>>

OnDisconnected ==
  /\ connected
  /\ connected' = FALSE
  /\ adapter' = Reset(adapter)
  /\ ForgetAnswers
  /\ UNCHANGED <<connections, environmentVars, snapshots, lastHeard, applied>>

\* refreshBlocked reads the setting; after a recovery of Redis,
\* completeRedisRecovery probes once more, if no probe is out.
RefreshBlocked(value) ==
  /\ LET read == [adapter EXCEPT !.settingsReady = TRUE, !.blocked = value]
         probed == IF connected /\ ~adapter.settingsReady THEN Reconciling(read) ELSE read
     IN adapter' =
          IF value \/ adapter.blocked
          THEN IF connected THEN Reconciling(Inhibited(probed)) ELSE Inhibited(probed)
          ELSE probed
  /\ UNCHANGED <<connected, connections, environmentVars, snapshots, answers, historyVars>>

\* failClosed: the Redis subscription is lost, or the setting cannot be read.
FailClosed ==
  /\ adapter.settingsReady
  /\ adapter' = [Inhibited(adapter) EXCEPT !.settingsReady = FALSE, !.journal = None]
  /\ UNCHANGED <<connected, connections, environmentVars, snapshots, answers, historyVars>>

\* A deadline passes: of a reconciliation probe, or of a query and of the
\* attempt, the permit or the second probe that have its deadline.
DeadlinePasses ==
  /\ \/ /\ adapter.probe # None /\ adapter.probe.purpose = "reconcile"
        /\ adapter' = [adapter EXCEPT !.probe = None]
     \/ /\ {adapter.attempt, adapter.query, adapter.permit} # {None}
        /\ adapter' = [adapter EXCEPT !.attempt = None, !.query = None, !.permit = None,
             !.probe = IF @ # None /\ @.purpose = "confirm" THEN None ELSE @]
  /\ UNCHANGED <<connected, connections, environmentVars, snapshots, answers, historyVars>>

-----------------------------------------------------------------------------
(* handleLocalStopSnapshotV2 *)

\* acceptJournalRevisionV2Locked
AcceptsRevision(a, new) ==
  \/ a.journal = None
  \/ new.revision > a.journal.revision
  \/ new = a.journal

\* Mutant: the second probe is believed whatever it shows.
AlwaysUnchanged(a, s) == a.query # None

\* finalizeApplyConfirmationV2Locked: the journal is what was queried.
Unchanged(a, s) ==
  /\ a.query # None
  /\ a.query.journal = s.journal
  /\ s.journal.phase = "prepared"

\* An apply that was sent leaves no query; one that could not be keeps it.
Confirmed(a, s) ==
  IF Unchanged(a, s)
  THEN [Sending(a, s.challenge, "apply", s.journal)
          EXCEPT !.query = IF CanSend(a) THEN None ELSE @]
  ELSE [a EXCEPT !.query = None]

\* What an accepted journal leads to.
Following(a, s) ==
  LET query == [challenge |-> s.challenge, journal |-> s.journal]
  IN CASE s.journal.phase = "preparing" -> [a EXCEPT !.permit = query]
       [] s.journal.phase = "prepared" ->
            Sending([a EXCEPT !.query = query], s.challenge, "query", s.journal)
       [] s.journal.phase = "uncertain" -> Sending(a, s.challenge, "query", s.journal)
       [] OTHER -> a

Accepted(a, s) ==
  [a EXCEPT !.used = @ \cup {s}, !.probe = None, !.journal = s.journal,
            !.inhibited = s.journal.phase # "idle", !.ready = s.journal.phase = "idle"]

\* A snapshot nobody asked for, or that is late, can only stop the sharing.
Unasked(a, s) ==
  Reconciling(IF s.journal.phase # "idle" THEN Inhibited(a) ELSE a)

\* Mutant: whatever comes under a challenge that was answered is a repetition.
RepeatIgnored(a, s) == a

\* A second answer to a challenge is a repetition, or stops the sharing.
Repeated(a, s) == IF s \in a.used THEN a ELSE Reconciling(Inhibited(a))

AfterSnapshot(a, s) ==
  IF \E u \in a.used : u.challenge = s.challenge
  THEN Repeated(a, s)
  ELSE IF ~connected
  THEN IF s.journal.phase # "idle" THEN Inhibited(a) ELSE a
  ELSE IF a.probe = None \/ a.probe.challenge # s.challenge
  THEN Unasked(a, s)
  ELSE IF ~AcceptsRevision(a, s.journal)
  THEN Reconciling([Inhibited(a) EXCEPT !.used = {s}])
  ELSE IF a.probe.purpose = "confirm"
  THEN Confirmed(Accepted(a, s), s)
  ELSE Following(Accepted(a, s), s)

\* Redis is only listened to while the settings are known.
HandleSnapshot ==
  /\ snapshots # <<>>
  /\ snapshots' = Tail(snapshots)
  /\ IF adapter.settingsReady
       THEN /\ adapter' = AfterSnapshot(adapter, Head(snapshots))
            /\ lastHeard' = Head(snapshots).journal.phase
       ELSE UNCHANGED <<adapter, lastHeard>>
  /\ UNCHANGED <<connected, connections, environmentVars, answers, notFound, reconfirmed,
                 applied, delivered>>

-----------------------------------------------------------------------------
(* handleControlV2, the action status *)

Result(type, about, fence) ==
  [type |-> type, operation |-> about.operation, revision |-> about.revision,
   fence |-> fence]

\* maybeSendOfferV2Locked: an answer without a stop result.
AfterOffer(a, answer) ==
  IF /\ a.permit # None /\ a.permit.challenge = answer.challenge
     /\ a.journal = a.permit.journal
  THEN Queued([a EXCEPT !.permit = None], Result("offer", a.journal, answer.fence))
  ELSE a

\* Mutant: an answer is taken for that of any operation.
AnswersAny(a, answer) == a.attempt # None

Answers(a, answer) ==
  /\ a.attempt # None
  /\ a.attempt.challenge = answer.challenge
  /\ a.attempt.journal.operation = answer.operation

\* Whether the journal is still the one the attempt was made for.
StillMeant(a, answer) ==
  LET meant == a.attempt.journal
  IN /\ a.journal # None
     /\ a.journal.operation = meant.operation /\ a.journal.revision = meant.revision
     /\ a.attempt.mode = "apply" => a.journal.phase = "prepared"
     /\ (answer.result = "committed" /\ meant.fence # None) => answer.fence = meant.fence

\* Mutant: the apply follows the query without a second probe.
AppliesAtOnce(a, attempt) ==
  Sending([a EXCEPT !.query = None], attempt.challenge, "apply", attempt.journal)

\* The query found nothing: the journal is probed again before the apply.
AfterNotFound(a, attempt) ==
  IF CanProbe(a) THEN Probing(a, "confirm") ELSE [a EXCEPT !.query = None]

\* handleStopStatusV2Locked
AfterStopStatus(a, answer) ==
  IF ~Answers(a, answer) THEN a
  ELSE IF ~StillMeant(a, answer) THEN Inhibited(a)
  ELSE
    LET attempt == a.attempt
        told == Queued([a EXCEPT !.attempt = None],
                       Result(answer.result, attempt.journal, answer.fence))
    IN IF attempt.mode = "apply" THEN [told EXCEPT !.query = None]
       ELSE IF /\ answer.result = "not_found"
               /\ a.query = [challenge |-> attempt.challenge, journal |-> attempt.journal]
               /\ a.journal = attempt.journal
            THEN AfterNotFound(told, attempt)
       ELSE told

HandleStatus ==
  /\ connected
  /\ \E answer \in answers :
       adapter' = IF answer.result = "none" THEN AfterOffer(adapter, answer)
                  ELSE AfterStopStatus(adapter, answer)
  /\ UNCHANGED <<connected, connections, environmentVars, snapshots, answers, historyVars>>

-----------------------------------------------------------------------------
(* The egress.  Each publication is checked again before it is handed over. *)

\* mqttPublicationAuthorizedLocked, for v2_stop
StopAuthorized(a) ==
  LET attempt == a.stop
  IN /\ a.attempt = attempt
     /\ a.journal # None
     /\ a.journal.operation = attempt.journal.operation
     /\ a.journal.revision = attempt.journal.revision
     /\ IF attempt.mode = "apply" THEN a.journal.phase = "prepared"
        ELSE a.journal.phase \in {"prepared", "uncertain"}

\* The MQTT worker: the publication may also be dropped, or lost.
PublishStop ==
  /\ adapter.stop # None
  /\ adapter' = [adapter EXCEPT !.stop = None]
  /\ \/ /\ connected /\ StopAuthorized(adapter)
        /\ requests' = requests \cup {adapter.stop}
        /\ applied' = IF adapter.stop.mode = "apply" THEN adapter.stop.journal ELSE applied
     \/ UNCHANGED <<requests, applied>>
  /\ UNCHANGED <<connected, connections, journal, stops, lastProbe, generation, committed,
                 snapshots, answers, notFound, reconfirmed, lastHeard, delivered>>

\* finalRedisPayloadV2Locked
Deliverable(a, message) ==
  /\ a.settingsReady /\ connected
  /\ IF message.type = "probe"
       THEN a.probe # None /\ a.probe.challenge = message.challenge
       ELSE /\ a.journal # None
            /\ a.journal.operation = message.operation
            /\ a.journal.revision = message.revision
            /\ a.journal.phase \in
                 IF message.type = "offer" THEN {"preparing"} ELSE {"prepared", "uncertain"}

\* The journal moves on (external).
Move(phase, fence) ==
  /\ journal.revision < MaxRevision
  /\ journal' = [journal EXCEPT !.phase = phase, !.fence = fence, !.revision = @ + 1]

\* It announces a change under the challenge it was probed with last.
Announces ==
  snapshots' \in {snapshots, Append(snapshots, [challenge |-> lastProbe, journal |-> journal'])}

\* What the dashboard does with a result for its operation (external): an
\* offer gives the fence, a commitment confirms the stop, and what is neither
\* found nor committed leaves it uncertain.
TakeResult(message) ==
  IF message.operation # journal.operation \/ message.revision # journal.revision
  THEN UNCHANGED journal
  ELSE CASE message.type = "offer" -> Move("prepared", message.fence)
         [] message.type \in {"committed", "superseded"} -> Move("confirmed", journal.fence)
         [] message.type = "error" /\ journal.phase = "prepared" ->
              Move("uncertain", journal.fence)
         [] OTHER -> UNCHANGED journal

\* The Redis worker hands the oldest entry to the dashboard, which answers a
\* probe and keeps a result.  The entry may also be lost.
DeliverToDashboard ==
  /\ adapter.queue # <<>>
  /\ adapter' = [adapter EXCEPT !.queue = Tail(@)]
  /\ LET message == Head(adapter.queue)
     IN \/ /\ Deliverable(adapter, message)
           /\ message.type = "probe"
           /\ lastProbe' = message.challenge
           /\ snapshots' = Append(snapshots,
                [challenge |-> message.challenge, journal |-> journal])
           /\ reconfirmed' =
                IF journal.operation \in notFound THEN reconfirmed \cup {journal}
                ELSE reconfirmed
           /\ UNCHANGED <<journal, delivered>>
        \/ /\ Deliverable(adapter, message)
           /\ message.type # "probe"
           /\ delivered' = message
           /\ TakeResult(message)
           /\ IF journal' # journal THEN Announces ELSE UNCHANGED snapshots
           /\ UNCHANGED <<lastProbe, reconfirmed>>
        \/ UNCHANGED <<journal, lastProbe, snapshots, reconfirmed, delivered>>
  /\ UNCHANGED <<connected, connections, stops, generation, committed, requests, answers,
                 notFound, lastHeard, applied>>

-----------------------------------------------------------------------------
(* The dashboard (external) *)

\* The rider stops sharing; the dashboard may give an offer up, is not sure of
\* a prepared stop after a restart, and is idle after a confirmation.
MoveJournal ==
  \/ /\ journal.phase = "idle"
     /\ stops < MaxStops /\ journal.revision < MaxRevision
     /\ stops' = stops + 1
     /\ journal' = [phase |-> "preparing", operation |-> stops + 1, fence |-> None,
                    revision |-> journal.revision + 1]
  \/ journal.phase = "prepared" /\ Move("uncertain", journal.fence) /\ UNCHANGED stops
  \/ /\ journal.phase \in {"preparing", "confirmed", "uncertain"}
     /\ journal.revision < MaxRevision
     /\ journal' = [Idle EXCEPT !.revision = journal.revision + 1]
     /\ UNCHANGED stops

Dashboard ==
  /\ MoveJournal
  /\ Announces
  /\ UNCHANGED <<connected, connections, adapter, lastProbe, generation, committed, requests,
                 answers, historyVars>>

-----------------------------------------------------------------------------
(* The server (external) *)

Answer(challenge, operation, result, fence) ==
  answers' = answers \cup {[challenge |-> challenge, operation |-> operation,
                            result |-> result, fence |-> fence]}

Commitments(operation) == {c \in committed : c.operation = operation}

\* A hello is answered with the consent generation.
AnswerHello ==
  /\ adapter.permit # None
  /\ Answer(adapter.permit.challenge, None, "none", generation)
  /\ UNCHANGED <<generation, committed, notFound>>

\* The generation changes otherwise: another member gave or withdrew consent.
ConsentChanges ==
  /\ generation < MaxGeneration
  /\ generation' = generation + 1
  /\ UNCHANGED <<committed, answers, notFound>>

\* A query finds the receipt, or that the fence was overtaken, or nothing; an
\* apply commits at its fence.
AnswerStop(request) ==
  LET stop == request.journal
      known == Commitments(stop.operation)
  IN \/ /\ known # {}
        /\ \E c \in known : Answer(request.challenge, stop.operation, "committed", c.fence)
        /\ UNCHANGED <<generation, committed, notFound>>
     \/ /\ known = {} /\ request.mode = "query"
        /\ Answer(request.challenge, stop.operation, "not_found", None)
        /\ notFound' = notFound \cup {stop.operation}
        /\ UNCHANGED <<generation, committed>>
     \/ /\ known = {} /\ request.mode = "apply" /\ stop.fence = generation
        /\ generation < MaxGeneration
        /\ generation' = generation + 1
        /\ committed' = committed \cup {[operation |-> stop.operation, fence |-> stop.fence]}
        /\ Answer(request.challenge, stop.operation, "committed", stop.fence)
        /\ UNCHANGED notFound
     \/ /\ known = {} /\ request.mode = "apply" /\ stop.fence # generation
        /\ Answer(request.challenge, stop.operation, "superseded", stop.fence)
        /\ UNCHANGED <<generation, committed, notFound>>
     \/ /\ Answer(request.challenge, stop.operation, "error", None)
        /\ UNCHANGED <<generation, committed, notFound>>

Server ==
  /\ \/ /\ AnswerHello \/ ConsentChanges
        /\ UNCHANGED requests
     \/ \E request \in requests :
          /\ requests' = requests \ {request}
          /\ AnswerStop(request)
  /\ UNCHANGED <<connected, connections, adapter, journal, stops, lastProbe, snapshots,
                 reconfirmed, lastHeard, applied, delivered>>

-----------------------------------------------------------------------------
\* The dashboard keeps its journal, the adapter nothing: a stop may be left
\* from before the adapter was started, committed or not.
Init ==
  /\ connected = FALSE /\ connections = 0
  /\ adapter = [settingsReady |-> FALSE, blocked |-> FALSE, ready |-> FALSE,
                inhibited |-> FALSE, journal |-> None, probe |-> None, probes |-> 0,
                used |-> {}, attempt |-> None, query |-> None, permit |-> None,
                stop |-> None, queue |-> <<>>]
  /\ lastProbe = 0 /\ snapshots = <<>>
  /\ \/ journal = Idle /\ stops = 0 /\ committed = {}
     \/ /\ journal = [phase |-> "uncertain", operation |-> 1, revision |-> 1, fence |-> 0]
        /\ stops = 1
        /\ committed \in {{}, {[operation |-> 1, fence |-> 0]}}
  /\ generation = Cardinality(committed) /\ requests = {} /\ answers = {}
  /\ notFound = {} /\ reconfirmed = {}
  /\ lastHeard = None /\ applied = None /\ delivered = None

Next ==
  \/ OnConnected \/ OnDisconnected
  \/ \E value \in BOOLEAN : RefreshBlocked(value)
  \/ FailClosed \/ DeadlinePasses
  \/ HandleSnapshot \/ HandleStatus
  \/ PublishStop \/ DeliverToDashboard
  \/ Dashboard \/ Server

Spec == Init /\ [][Next]_vars

-----------------------------------------------------------------------------
(* Properties *)

\* An apply is sent only for a journal the dashboard has shown, as it is,
\* after the server did not find the operation on the same connection.
ApplyIsConfirmed ==
  [][applied' # applied => applied' \in reconfirmed]_vars

\* What the dashboard is told of an operation is what the server answered for
\* that operation, on the same connection.
ResultIsTrue ==
  (delivered # None /\ delivered.type # "offer")
    => \E answer \in answers :
         answer.operation = delivered.operation /\ answer.result = delivered.type

\* Sharing is possible only while the last thing heard of the journal is that
\* it is idle.
GateFollowsJournal == GateOpen => lastHeard = "idle"
=============================================================================
