----------------------------- MODULE RideSharing -----------------------------
(***************************************************************************)
(* What a scooter in a ride group publishes about itself: the version 2     *)
(* adapter of internal/ridegroup.  A position is published only under a     *)
(* grant of the server that answers the dashboard's latest activity; a      *)
(* clear, a local stop, a lost connection, a lapsed lease or a lost GPS fix *)
(* takes the authority away, whatever was staged.                           *)
(*                                                                          *)
(* A step is one critical section under Adapter.mu, or one step of the MQTT *)
(* worker, which takes a publication, checks it under mu and only then      *)
(* hands it to the MQTT client.  There is no clock: a lease may lapse at    *)
(* any step, and a publication may be found too old.  The setting that      *)
(* blocks sharing and the journal of local stops are here only their common *)
(* verdict, the gate; LocalStop models them.  The server gives   *)
(* each transport epoch one stream of one session, so a stream is a number. *)
(* Member ids and consent generations, which are compared like sessions and *)
(* revisions, are left out, as are the publications that only tell the      *)
(* server a challenge, and a link that is lost but not yet noticed: it only *)
(* stops what needs it.                                                     *)
(***************************************************************************)
EXTENDS Integers

CONSTANTS
  Sessions,       \* ride group sessions
  None,           \* no session, no activity, no control, nothing in the worker's hands
  MaxActivities,  \* a bound on the activities of the dashboard
  MaxStreams,     \* a bound on the streams the server opens
  MaxRevision,    \* a bound on its revisions
  MaxChanges,     \* a bound on the streams and the revisions after the first, together
  MaxSequence,    \* a bound on the sequence numbers of one stream
  MaxConnections, \* a bound on the connections
  Regrants        \* whether a grant may name a stream the adapter has dropped

ASSUME RideSharingAssumption ==
  /\ None \notin Sessions
  /\ {MaxActivities, MaxStreams, MaxRevision, MaxChanges, MaxSequence, MaxConnections} \subseteq Nat
  /\ MaxRevision # 0
  /\ Regrants \in BOOLEAN

VARIABLES
  connected,      \* mqtt and connection are set
  connections,    \* how many connections have been set up
  gate,           \* "open" when the settings are read and say nothing against it and the
                  \* journal is accepted as idle; else "unknown" or (journalBlockedV2) "blocked"
  activity,       \* activityV2: its sequence number and session
  activitySequence,
  challenges,     \* the activities a control may answer
  grant,          \* grantV2
  grantActive,
  grantFresh,     \* grantAt is less than grantTTL ago
  lastCleared, lastAuthority,
  noFixClosed, fixAvailablePending, lastSourceStatus, sourceSequence,
  pending,        \* mqttPending: at most one of each kind
  positionFirst,  \* its order: there are two, and the position is the older one
  worker,         \* the publication in the MQTT worker's hands
  \* The server, and what it may have sent on this connection
  owner,          \* the session of each stream
  stream,         \* its latest stream, 0 before the first
  revision,
  cleared,        \* it has cleared the latest stream
  offers,         \* the grants it may have sent, by challenge
  clears,         \* the clears it has sent
  \* History
  dropped,        \* the streams whose grant the adapter gave up on its own
  handledClears,  \* the streams whose clear it handled on this connection
  published       \* the last publication on each stream

linkVars == <<connected, connections>>
activityVars == <<activity, activitySequence, challenges>>
grantVars == <<grant, grantActive, grantFresh>>
replayVars == <<lastCleared, lastAuthority>>
sourceVars == <<noFixClosed, fixAvailablePending, lastSourceStatus, sourceSequence>>
egressVars == <<pending, positionFirst, worker>>
serverVars == <<owner, stream, revision, cleared, offers, clears>>
historyVars == <<dropped, handledClears, published>>
vars == <<linkVars, gate, activityVars, grantVars, replayVars, sourceVars,
          egressVars, serverVars, historyVars>>

Streams == 1..MaxStreams
ActivitySequences == 1..MaxActivities

\* What ParseActivityV2 accepts; an inactive one names no session here.
Activity == [sequence: ActivitySequences, active: BOOLEAN, session: Sessions \cup {None}]

\* What validateControlV2 accepts of the actions grant, renew and clear, as
\* far as it is kept: the adapter treats a renew as a grant.
Control == [stream: Streams, revision: 1..MaxRevision]

\* PositionV2 and SourceStatusV2, as far as they are compared.
Publication == [kind: {"position", "no_fix", "fix_available"}, stream: Streams,
                revision: 1..MaxRevision, sequence: 1..MaxSequence]

\* A publication in the worker's hands.
Handed == [step: {"taken", "checked"}, publication: Publication]

ASSUME NoneAssumption == None \notin Control \cup Publication \cup Handed

IsPosition(p) == p.kind = "position"

TypeOK ==
  /\ {connected, grantActive, grantFresh, noFixClosed, fixAvailablePending, positionFirst,
      cleared} \subseteq BOOLEAN
  /\ connections \in 0..MaxConnections
  /\ gate \in {"unknown", "open", "blocked"}
  /\ activity \in Activity \cup {None}
  /\ activitySequence \in 0..MaxActivities
  /\ challenges \subseteq ActivitySequences
  /\ {grant, lastCleared, lastAuthority} \subseteq Control \cup {None}
  /\ lastSourceStatus \in Publication \cup {None}
  /\ sourceSequence \in 0..MaxSequence
  /\ pending \subseteq Publication
  /\ \A p, q \in pending : IsPosition(p) = IsPosition(q) => p = q
  /\ worker \in Handed \cup {None}
  /\ owner \in [Streams -> Sessions]
  /\ stream \in 0..MaxStreams
  /\ revision \in 1..MaxRevision
  /\ offers \subseteq [challenge: ActivitySequences, grant: Control]
  /\ clears \subseteq Control
  /\ dropped \subseteq Streams
  /\ handledClears \subseteq Streams
  /\ published \in [Streams -> [kind: {"nothing", "position", "no_fix", "fix_available"},
                             sequence: 0..MaxSequence]]

-----------------------------------------------------------------------------
(* What several handlers share *)

\* dropPendingPosition and dropPendingV2Source
PositionsDropped(staged) == {q \in staged : ~IsPosition(q)}
StatusesDropped(staged) == {q \in staged : IsPosition(q)}

\* Only what is staged is left of what was pending.
Leave(staged) ==
  /\ pending' = staged
  /\ positionFirst' = (positionFirst /\ staged = pending)

\* queueMQTTPublication: a publication replaces the pending one of its kind and
\* goes behind the other.
Queue(staged, p) ==
  /\ pending' = {q \in staged : IsPosition(q) # IsPosition(p)} \cup {p}
  /\ positionFirst' = (~IsPosition(p) /\ \E q \in staged : IsPosition(q))

\* positionGeneration is counted up: a position taken before will not be
\* authorised, so the worker is as if it had already forgotten it.
Outdated ==
  IF worker # None /\ worker.step = "taken" /\ IsPosition(worker.publication)
  THEN None
  ELSE worker

DropGrant ==
  /\ grant' = None
  /\ grantActive' = FALSE
  /\ grantFresh' = FALSE

\* clearGrantV2Locked.  The sequence number is not touched.
ClearGrant ==
  /\ Leave({})
  /\ worker' = Outdated
  /\ DropGrant

\* The challenges are forgotten: no grant that answers one will be accepted, so
\* those are forgotten too.
ForgetChallenges == challenges' = {} /\ offers' = {}

\* History: the grant that is given up.
GaveUp == dropped' = dropped \cup (IF grant = None THEN {} ELSE {grant.stream})

\* grantableV2Locked
Grantable ==
  /\ gate = "open"
  /\ activity # None /\ activity.active

\* grantCurrentV2Locked
GrantCurrent ==
  /\ Grantable
  /\ connected
  /\ grant # None /\ grantActive /\ grantFresh

\* activityMatchesGrantV2Locked
ActivityMatchesGrant ==
  /\ activity # None /\ grant # None
  /\ activity.session = owner[grant.stream]

\* The position or status that is next in the stream of the grant g.
NextPublication(kind, g, sequence) ==
  [kind |-> kind, stream |-> g.stream, revision |-> g.revision,
   sequence |-> sequence]

\* publishSourceStatusValueV2Locked
PublishSourceStatus(status, staged) ==
  /\ lastSourceStatus' = status
  /\ sourceSequence' = status.sequence
  /\ Queue(StatusesDropped(staged), status)

-----------------------------------------------------------------------------
(* Connections: OnConnected, OnDisconnected, resetConnectionLocked *)

\* resetConnectionLocked.  The state of the GPS stays.  What is still to be
\* checked is of another connection.
ResetConnection ==
  /\ activity' = None
  /\ ForgetChallenges
  /\ gate' = "unknown"
  /\ lastCleared' = None
  /\ lastAuthority' = None
  /\ DropGrant
  /\ Leave({})
  /\ worker' = IF worker # None /\ worker.step = "taken" THEN None ELSE worker
  /\ GaveUp
  /\ clears' = {}        \* controls of an earlier nonce are ignored
  /\ handledClears' = {}
  /\ UNCHANGED <<activitySequence, sourceVars, owner, stream, revision, cleared, published>>

\* OnConnected, when its subscription is answered: nothing else is running.
OnConnected ==
  /\ ~connected
  /\ connections < MaxConnections
  /\ connected' = TRUE
  /\ connections' = connections + 1
  /\ ResetConnection

\* Called by the connection-lost and by the reconnecting callback; the first
\* may run when the client is connected again.
OnDisconnected ==
  /\ connected
  /\ connected' = FALSE
  /\ ResetConnection
  /\ UNCHANGED connections

-----------------------------------------------------------------------------
(* The gate *)

\* A local stop snapshot that says idle is accepted.
GateOpens ==
  /\ connected
  /\ gate # "open"
  /\ gate' = "open"
  /\ UNCHANGED <<linkVars, activityVars, grantVars, replayVars, sourceVars, egressVars,
                 serverVars, historyVars>>

\* inhibitJournalV2Locked: sharing is blocked, or the journal has another
\* verdict; failClosed does the same when Redis is lost.
GateCloses ==
  /\ gate # "blocked"
  /\ gate' = "blocked"
  /\ activity' = None
  /\ ForgetChallenges
  /\ ClearGrant
  /\ GaveUp
  /\ UNCHANGED <<linkVars, activitySequence, replayVars, sourceVars, owner, stream, revision,
                 cleared, clears, handledClears, published>>

-----------------------------------------------------------------------------
(* The server (external).  It may answer every challenge it was told with a   *)
(* grant of what is live; a control may arrive at any time, more than once and *)
(* out of order.                                                               *)

LiveStream == IF stream = 0 \/ cleared THEN {} ELSE {stream}

Offer(answered, streams, rev) ==
  {[challenge |-> c, grant |-> [stream |-> s, revision |-> rev]] : c \in answered, s \in streams}

OpenStream ==
  /\ stream < MaxStreams /\ stream + revision <= MaxChanges
  /\ stream' = stream + 1
  /\ cleared' = FALSE
  /\ offers' = offers \cup Offer(challenges, {stream + 1}, revision)
  /\ UNCHANGED <<revision, clears>>

Revise ==
  /\ revision < MaxRevision /\ stream + revision <= MaxChanges
  /\ revision' = revision + 1
  /\ offers' = offers \cup Offer(challenges, LiveStream, revision + 1)
  /\ UNCHANGED <<stream, cleared, clears>>

SendClear ==
  /\ LiveStream # {}
  /\ cleared' = TRUE
  /\ clears' = clears \cup {[stream |-> stream, revision |-> revision]}
  /\ UNCHANGED <<stream, revision, offers>>

Server ==
  /\ connected
  /\ OpenStream \/ Revise \/ SendClear
  /\ UNCHANGED <<linkVars, gate, activityVars, grantVars, replayVars, sourceVars,
                 egressVars, owner, historyVars>>

-----------------------------------------------------------------------------
(* The dashboard's activity *)

\* Whether acceptActivityV2 takes it: an active one may not change the session.
AcceptsActivity(new) ==
  /\ gate = "open" /\ connected
  /\ (new.active /\ activity # None /\ activity.session # None) =>
       new.session = activity.session

\* acceptActivityV2
AcceptActivity(new) ==
  /\ AcceptsActivity(new)
  /\ activity' = new
  /\ activitySequence' = new.sequence
  /\ challenges' = challenges \cup {new.sequence}
  /\ offers' = offers \cup Offer({new.sequence}, LiveStream, revision)
  /\ IF new.active
       THEN /\ grantActive' = (grantActive \/ (grant # None /\ owner[grant.stream] = new.session))
            /\ UNCHANGED <<grant, grantFresh, egressVars, dropped>>
       ELSE ClearGrant /\ GaveUp
  /\ UNCHANGED <<linkVars, gate, replayVars, sourceVars, owner, stream, revision,
                 cleared, clears, handledClears, published>>

\* The dashboard counts its activities up; Redis delivers them in order.
ReceiveActivity ==
  /\ activitySequence < MaxActivities
  /\ \E active \in BOOLEAN, session \in Sessions \cup {None} :
       /\ active \/ session = None
       /\ AcceptActivity([sequence |-> activitySequence + 1, active |-> active,
                          session |-> session])

-----------------------------------------------------------------------------
(* handleControlV2 *)

\* The control is not older than what it is compared with.
NotOlder(control, than) ==
  /\ control.stream >= than.stream
  /\ control.revision >= than.revision

\* Mutant: what is staged is dropped, but the grant is kept.
KeepsGrant ==
  /\ Leave({})
  /\ worker' = Outdated
  /\ UNCHANGED grantVars

\* What a clear does to the grant it names.
ClearNamedGrant == ClearGrant

HandleClear(control) ==
  /\ connected
  /\ IF grant # None
       THEN /\ owner[control.stream] = owner[grant.stream] /\ NotOlder(control, grant)
            /\ lastCleared' = control
            /\ activity' = None
            /\ ClearNamedGrant
       ELSE /\ gate # "blocked"
            /\ UNCHANGED <<lastCleared, activity, grantVars, egressVars>>
  /\ ForgetChallenges
  /\ handledClears' = handledClears \cup {control.stream}
  /\ UNCHANGED <<linkVars, gate, activitySequence, lastAuthority, sourceVars,
                 owner, stream, revision, cleared, clears, dropped, published>>

SameSession(control, other) == owner[control.stream] = owner[other.stream]

\* The checks before a grant is taken.
AcceptsGrant(challenge, control) ==
  /\ challenge \in challenges
  /\ Grantable
  /\ activity.session \in {None, owner[control.stream]}
  /\ (lastCleared # None /\ SameSession(control, lastCleared)) =>
       control.stream > lastCleared.stream /\ control.revision >= lastCleared.revision
  /\ (lastAuthority # None /\ SameSession(control, lastAuthority)) =>
       NotOlder(control, lastAuthority)
  /\ grant # None => SameSession(control, grant) /\ NotOlder(control, grant)

\* Mutant: every renewal starts the sequence again.
RenewalRestarts(control) == TRUE

\* Whether the sequence starts again.
NewStream(control) == grant = None \/ control.stream # grant.stream

\* Mutant: a renewal of the stream reopens the source as well.
RenewalReopens(control) == fixAvailablePending

\* A new stream reopens the source when a newer fix was announced.
ReopensSource(control) == NewStream(control) /\ fixAvailablePending

HandleGrant(challenge, control) ==
  /\ connected
  /\ AcceptsGrant(challenge, control)
  /\ Regrants \/ control.stream \notin dropped   \* what the server is assumed to do
  /\ LET new == NewStream(control)
         closed == noFixClosed /\ ~ReopensSource(control)
         last == IF new THEN 0 ELSE sourceSequence
         kept == IF new THEN {} ELSE pending
     IN /\ noFixClosed' = closed
        /\ fixAvailablePending' = (fixAvailablePending /\ ~new)
        /\ worker' = IF new THEN Outdated ELSE worker
        /\ IF closed
             THEN /\ last < MaxSequence
                  /\ PublishSourceStatus(NextPublication("no_fix", control, last + 1), kept)
             ELSE /\ sourceSequence' = last
                  /\ Leave(kept)
                  /\ UNCHANGED lastSourceStatus
  /\ grant' = control
  /\ grantFresh' = TRUE
  /\ grantActive' = (activity.session = owner[control.stream])
  /\ lastAuthority' = control
  /\ lastCleared' = None
  /\ UNCHANGED <<linkVars, gate, activityVars, serverVars, historyVars>>

HandleControl ==
  \/ \E control \in clears : HandleClear(control)
  \/ \E offer \in offers : HandleGrant(offer.challenge, offer.grant)

-----------------------------------------------------------------------------
(* handleGPSV2 *)

\* publishSourceStatusV2Locked: the status is sent if there is someone to tell.
CanTell == GrantCurrent /\ ActivityMatchesGrant

\* A source status is sent again, retryNoFixStatusV2Locked.
Retry ==
  /\ CanTell
  /\ lastSourceStatus # None
  /\ Queue(pending, lastSourceStatus)

\* A newer fix, fresh and coherent.  While the source is closed it is only
\* announced; otherwise it is published, unless the cadence says to wait.
NewFix ==
  /\ IF noFixClosed
       THEN /\ \/ /\ CanTell /\ sourceSequence < MaxSequence
                  /\ fixAvailablePending' = TRUE
                  /\ PublishSourceStatus(
                       NextPublication("fix_available", grant, sourceSequence + 1), pending)
               \/ /\ fixAvailablePending /\ lastSourceStatus.kind = "fix_available"
                  /\ Retry
                  /\ UNCHANGED <<fixAvailablePending, lastSourceStatus, sourceSequence>>
       ELSE /\ CanTell /\ sourceSequence < MaxSequence
            /\ sourceSequence' = sourceSequence + 1
            /\ Queue(pending, NextPublication("position", grant, sourceSequence + 1))
            /\ UNCHANGED <<fixAvailablePending, lastSourceStatus>>
  /\ UNCHANGED <<linkVars, gate, activityVars, grantVars, replayVars, noFixClosed,
                 worker, serverVars, historyVars>>

\* closeSourceFixV2Locked: no fix, a fix from the future, or one too old.
CloseSourceFix ==
  /\ worker' = Outdated
  /\ IF noFixClosed /\ (lastSourceStatus = None \/ lastSourceStatus.kind # "fix_available")
       THEN /\ \/ Leave(PositionsDropped(pending))
               \/ Retry
            /\ UNCHANGED sourceVars
       ELSE /\ noFixClosed' = TRUE
            /\ fixAvailablePending' = FALSE
            /\ IF CanTell
                 THEN /\ sourceSequence < MaxSequence
                      /\ PublishSourceStatus(
                           NextPublication("no_fix", grant, sourceSequence + 1),
                           PositionsDropped(pending))
                 ELSE /\ Leave(PositionsDropped(pending))
                      /\ UNCHANGED <<lastSourceStatus, sourceSequence>>
  /\ UNCHANGED <<linkVars, gate, activityVars, grantVars, replayVars, serverVars,
                 historyVars>>

-----------------------------------------------------------------------------
(* The ticker: expireLease.  Leases lapse before it notices. *)

GrantLapses ==
  /\ grant # None /\ grantFresh
  /\ grantFresh' = FALSE
  /\ UNCHANGED <<linkVars, gate, activityVars, grant, grantActive, replayVars,
                 sourceVars, egressVars, serverVars, historyVars>>

\* expireV2LeaseLocked, then retryNoFixStatusV2Locked.
ExpireLease ==
  /\ \/ /\ activity # None          \* it has lapsed
        /\ activity' = None
        /\ ForgetChallenges
        /\ ClearGrant /\ GaveUp
     \/ /\ grant # None /\ ~grantFresh
        /\ ClearGrant /\ GaveUp
        /\ UNCHANGED <<activity, challenges, offers>>
     \/ /\ Retry
        /\ UNCHANGED <<activity, challenges, offers, grantVars, worker, dropped>>
  /\ UNCHANGED <<linkVars, gate, activitySequence, replayVars,
                 sourceVars, owner, stream, revision, cleared, clears, handledClears,
                 published>>

-----------------------------------------------------------------------------
(* runMQTTWorker *)

\* nextMQTTPublicationLocked
Take ==
  /\ worker = None
  /\ \E p \in pending :
       /\ \A q \in pending : q = p \/ IsPosition(p) = positionFirst
       /\ worker' = [step |-> "taken", publication |-> p]
       /\ Leave(pending \ {p})
  /\ UNCHANGED <<linkVars, gate, activityVars, grantVars, replayVars, sourceVars,
                 serverVars, historyVars>>

\* mqttPublicationAuthorizedLocked
Authorized(p) ==
  /\ GrantCurrent /\ ActivityMatchesGrant
  /\ p.stream = grant.stream /\ p.revision = grant.revision
  /\ IF IsPosition(p)
       THEN ~noFixClosed
       ELSE p = lastSourceStatus /\ (p.kind = "no_fix" => noFixClosed)

\* A publication that is not authorised, or too old, is forgotten.
Check ==
  /\ worker # None /\ worker.step = "taken"
  /\ \/ /\ Authorized(worker.publication)
        /\ worker' = [worker EXCEPT !.step = "checked"]
     \/ worker' = None
  /\ UNCHANGED <<linkVars, gate, activityVars, grantVars, replayVars, sourceVars,
                 pending, positionFirst, serverVars, historyVars>>

\* Publish of the MQTT client.  The world may have changed since the check.
Publish ==
  /\ worker # None /\ worker.step = "checked"
  /\ worker' = None
  /\ published' = [published EXCEPT ![worker.publication.stream] =
                    [kind |-> worker.publication.kind,
                     sequence |-> worker.publication.sequence]]
  /\ UNCHANGED <<linkVars, gate, activityVars, grantVars, replayVars, sourceVars,
                 pending, positionFirst, serverVars, dropped, handledClears>>

-----------------------------------------------------------------------------
Init ==
  /\ connected = FALSE /\ connections = 0
  /\ gate = "unknown"
  /\ activity = None /\ activitySequence = 0
  /\ challenges = {}
  /\ grant = None /\ grantActive = FALSE /\ grantFresh = FALSE
  /\ lastCleared = None /\ lastAuthority = None
  /\ noFixClosed = FALSE /\ fixAvailablePending = FALSE
  /\ lastSourceStatus = None /\ sourceSequence = 0
  /\ pending = {} /\ positionFirst = FALSE /\ worker = None
  /\ owner \in [Streams -> Sessions]
  /\ stream = 0 /\ revision = 1 /\ cleared = FALSE
  /\ offers = {} /\ clears = {}
  /\ dropped = {} /\ handledClears = {}
  /\ published = [s \in Streams |-> [kind |-> "nothing", sequence |-> 0]]

Next ==
  \/ OnConnected \/ OnDisconnected
  \/ GateOpens \/ GateCloses
  \/ ReceiveActivity
  \/ Server \/ HandleControl
  \/ NewFix \/ CloseSourceFix
  \/ GrantLapses \/ ExpireLease
  \/ Take \/ Check \/ Publish

Spec == Init /\ [][Next]_vars

-----------------------------------------------------------------------------
(* Properties *)

\* The publication that this step hands to the MQTT client.
Publishes == worker # None /\ worker.step = "checked" /\ worker' = None

\* Positions and source statuses share one sequence on each stream, across
\* replaced and dropped publications, renewals and reconnects: a number is
\* used again only to send the same source status again.
SequenceIncreases ==
  [][Publishes =>
       LET p == worker.publication
           last == published[p.stream]
       IN \/ p.sequence > last.sequence
          \/ p.sequence = last.sequence /\ p.kind = last.kind /\ ~IsPosition(p)]_vars

\* Once the server has been told no_fix on a stream, no position follows on it:
\* neither one staged before the loss nor one measured after it.
NoPositionAfterLoss ==
  [][Publishes =>
       LET p == worker.publication
           last == published[p.stream]
       IN IsPosition(p) => last.kind \in {"nothing", "position"}]_vars

\* On a connection, no publication is let through on a stream whose clear the
\* adapter has handled, whatever grant of it is delivered late or again.
ClearIsFinal ==
  [][(worker # None /\ worker.step = "taken" /\ worker' # None /\ worker'.step = "checked")
       => worker.publication.stream \notin handledClears]_vars
=============================================================================
