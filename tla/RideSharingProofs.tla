------------------------- MODULE RideSharingProofs -------------------------
(***************************************************************************)
(* Proofs about RideSharing, for any number of activities, streams,         *)
(* revisions and connections: the types; a clear is final; and, if every     *)
(* stream that is entered is new, as it is with one session, numbers        *)
(* increase on each stream and a loss of the fix is final.                  *)
(***************************************************************************)
EXTENDS RideSharing, TLAPS

LEMMA Bounds ==
  /\ MaxActivities \in Nat /\ MaxStreams \in Nat /\ MaxRevision \in Nat \ {0}
  /\ MaxSequence \in Nat /\ MaxConnections \in Nat
  /\ None \notin Control \cup Publication \cup Handed /\ Regrants \in BOOLEAN
BY RideSharingAssumption, NoneAssumption DEF RideSharingAssumption, NoneAssumption

(***************************************************************************)
(* The invariant                                                           *)
(***************************************************************************)

\* The server clears the streams it has opened, and is done with them: the
\* latest one is not live when it was cleared.
ClearsAreSent ==
  /\ stream \in Nat
  /\ \A c \in clears : c.stream \in 1..stream /\ (c.stream = stream => cleared)

\* Only what was sent is handled.
HandledAreSent == \A s \in handledClears : \E c \in clears : s = c.stream

\* No grant that may still be accepted is of a cleared stream, and none that is
\* held.
NoClearedGrant ==
  /\ \A o \in offers : o.grant.stream \notin handledClears
  /\ grant # None => grant.stream \notin handledClears

ClearInv == ClearsAreSent /\ HandledAreSent /\ NoClearedGrant

\* What the invariant is about.
clearVars == <<stream, cleared, clears, handledClears, offers, grant>>

(***************************************************************************)
(* The steps                                                               *)
(***************************************************************************)

LEMMA LiveIsNotCleared ==
  ASSUME ClearInv, NEW s \in LiveStream
  PROVE  s \notin handledClears
  BY DEF ClearInv, ClearsAreSent, HandledAreSent, LiveStream

LEMMA OfferedStream ==
  ASSUME NEW answered, NEW streams, NEW rev, NEW o \in Offer(answered, streams, rev)
  PROVE  o.grant.stream \in streams
  BY DEF Offer

\* A step that sends no clear, handles none, and neither opens a stream nor
\* takes a grant.
LEMMA FewerGrants ==
  ASSUME ClearInv, UNCHANGED <<stream, cleared, clears, handledClears>>,
         offers' \subseteq offers, grant' \in {None, grant}
  PROVE  ClearInv'
  BY DEF ClearInv, ClearsAreSent, HandledAreSent, NoClearedGrant

\* Likewise, but offers of the live stream are added.
LEMMA MoreOffers ==
  ASSUME ClearInv, UNCHANGED <<stream, cleared, clears, handledClears>>,
         NEW answered, NEW rev,
         offers' \subseteq offers \cup Offer(answered, LiveStream, rev),
         grant' \in {None, grant}
  PROVE  ClearInv'
<1>1. \A o \in offers' : o.grant.stream \notin handledClears
  BY OfferedStream, LiveIsNotCleared DEF ClearInv, NoClearedGrant
<1> QED
  BY <1>1 DEF ClearInv, ClearsAreSent, HandledAreSent, NoClearedGrant

\* A connection begins and ends with no clear.
LEMMA ResetKeeps ==
  ASSUME ClearInv, ResetConnection
  PROVE  ClearInv'
  BY DEF ResetConnection, DropGrant, ForgetChallenges, ClearInv, ClearsAreSent, HandledAreSent,
         NoClearedGrant

LEMMA ServerKeeps ==
  ASSUME ClearInv, Server
  PROVE  ClearInv'
<1>1. UNCHANGED <<handledClears, grant>>
  BY DEF Server, historyVars, grantVars
<1>2. CASE OpenStream
  <2>1. stream + 1 \notin handledClears
    BY DEF ClearInv, ClearsAreSent, HandledAreSent
  <2>2. \A o \in offers' : o.grant.stream \notin handledClears
    BY <1>2, <2>1, OfferedStream DEF OpenStream, ClearInv, NoClearedGrant
  <2>3. ClearsAreSent'
    BY <1>2 DEF OpenStream, ClearInv, ClearsAreSent
  <2>4. HandledAreSent'
    BY <1>1, <1>2 DEF OpenStream, ClearInv, HandledAreSent
  <2> QED
    BY <1>1, <2>2, <2>3, <2>4 DEF ClearInv, NoClearedGrant
<1>3. CASE Revise
  BY <1>1, <1>3, MoreOffers DEF Revise
<1>4. CASE SendClear
  <2>1. stream \in 1..stream
    BY <1>4 DEF SendClear, LiveStream, ClearInv, ClearsAreSent
  <2>2. ClearsAreSent'
    BY <1>4, <2>1 DEF SendClear, ClearInv, ClearsAreSent
  <2>3. HandledAreSent' /\ NoClearedGrant'
    BY <1>1, <1>4 DEF SendClear, ClearInv, HandledAreSent, NoClearedGrant
  <2> QED
    BY <2>2, <2>3 DEF ClearInv
<1> QED
  BY <1>2, <1>3, <1>4 DEF Server

\* A clear leaves no grant: what it does not take was taken before.
LEMMA ClearKeeps ==
  ASSUME ClearInv, NEW control \in clears, HandleClear(control)
  PROVE  ClearInv'
<1>1. grant' = None
  BY DEF HandleClear, ClearNamedGrant, ClearGrant, DropGrant, grantVars
<1>2. offers' = {} /\ UNCHANGED <<stream, cleared, clears>>
  BY DEF HandleClear, ForgetChallenges
<1>3. handledClears' = handledClears \cup {control.stream}
  BY DEF HandleClear
<1> QED
  BY <1>1, <1>2, <1>3 DEF ClearInv, ClearsAreSent, HandledAreSent, NoClearedGrant

LEMMA GrantKeeps ==
  ASSUME ClearInv, NEW offer \in offers, HandleGrant(offer.challenge, offer.grant)
  PROVE  ClearInv'
<1>1. grant' = offer.grant
  BY DEF HandleGrant
<1>2. UNCHANGED <<stream, cleared, clears, offers, handledClears>>
  BY DEF HandleGrant, serverVars, historyVars
<1> QED
  BY <1>1, <1>2 DEF ClearInv, ClearsAreSent, HandledAreSent, NoClearedGrant

LEMMA ActivityKeeps ==
  ASSUME ClearInv, ReceiveActivity
  PROVE  ClearInv'
<1>1. PICK new : AcceptActivity(new)
  BY DEF ReceiveActivity
<1>2. UNCHANGED <<stream, cleared, clears, handledClears>>
  BY <1>1 DEF AcceptActivity
<1>3. offers' = offers \cup Offer({new.sequence}, LiveStream, revision)
  BY <1>1 DEF AcceptActivity
<1>4. grant' \in {None, grant}
  BY <1>1 DEF AcceptActivity, ClearGrant, DropGrant
<1> QED
  BY <1>2, <1>3, <1>4, MoreOffers

LEMMA ClearNext == ClearInv /\ [Next]_vars => ClearInv'
<1> SUFFICES ASSUME ClearInv, [Next]_vars
             PROVE  ClearInv'
  OBVIOUS
<1>same. ASSUME UNCHANGED clearVars
         PROVE  ClearInv'
  BY <1>same, FewerGrants DEF clearVars
<1>1. CASE OnConnected \/ OnDisconnected
  BY <1>1, ResetKeeps DEF OnConnected, OnDisconnected
<1>2. CASE GateOpens
  BY <1>2, <1>same DEF GateOpens, clearVars, serverVars, historyVars, grantVars
<1>3. CASE GateCloses
  BY <1>3, FewerGrants DEF GateCloses, ForgetChallenges, ClearGrant, DropGrant
<1>4. CASE ReceiveActivity
  BY <1>4, ActivityKeeps
<1>5. CASE Server
  BY <1>5, ServerKeeps
<1>6. CASE HandleControl
  BY <1>6, ClearKeeps, GrantKeeps DEF HandleControl
<1>7. CASE NewFix \/ CloseSourceFix
  BY <1>7, <1>same DEF NewFix, CloseSourceFix, clearVars, serverVars, historyVars, grantVars
<1>8. CASE GrantLapses
  BY <1>8, <1>same DEF GrantLapses, clearVars, serverVars, historyVars
<1>9. CASE ExpireLease
  BY <1>9, FewerGrants DEF ExpireLease, ForgetChallenges, ClearGrant, DropGrant, grantVars
<1>10. CASE Take \/ Check
  BY <1>10, <1>same DEF Take, Check, clearVars, serverVars, historyVars, grantVars
<1>11. CASE Publish
  BY <1>11, <1>same DEF Publish, clearVars, serverVars, grantVars
<1>12. CASE UNCHANGED vars
  BY <1>12, <1>same DEF vars, clearVars, serverVars, historyVars, grantVars
<1> QED
  BY <1>1, <1>2, <1>3, <1>4, <1>5, <1>6, <1>7, <1>8, <1>9, <1>10, <1>11, <1>12 DEF Next

LEMMA ClearInit == Init => ClearInv
  BY DEF Init, ClearInv, ClearsAreSent, HandledAreSent, NoClearedGrant

(***************************************************************************)
(* The property                                                            *)
(***************************************************************************)

\* Only the check lets a publication through, and it asks for the grant.
LEMMA LetThrough ==
  ASSUME [Next]_vars, worker # None, worker.step = "taken",
         worker' # None, worker'.step = "checked"
  PROVE  grant # None /\ worker.publication.stream = grant.stream
<1>same. ASSUME worker' \in {worker, None}
         PROVE  FALSE
  BY <1>same
<1>1. Outdated \in {worker, None}
  BY DEF Outdated
<1>2. CASE Check
  BY <1>2 DEF Check, Authorized, GrantCurrent
<1>3. CASE OnConnected \/ OnDisconnected
  BY <1>3, <1>same DEF OnConnected, OnDisconnected, ResetConnection
<1>4. CASE GateOpens \/ GrantLapses
  BY <1>4, <1>same DEF GateOpens, GrantLapses, egressVars
<1>5. CASE GateCloses
  BY <1>5, <1>1, <1>same DEF GateCloses, ClearGrant
<1>6. CASE ReceiveActivity
  <2>1. PICK new : AcceptActivity(new)
    BY <1>6 DEF ReceiveActivity
  <2> QED
    BY <2>1, <1>1, <1>same DEF AcceptActivity, ClearGrant, egressVars
<1>7. CASE Server
  BY <1>7, <1>same DEF Server, egressVars
<1>8. CASE HandleControl
  <2>1. ASSUME NEW control \in clears, HandleClear(control)
        PROVE  FALSE
    BY <2>1, <1>1, <1>same DEF HandleClear, ClearNamedGrant, ClearGrant, egressVars
  <2>2. ASSUME NEW offer \in offers, HandleGrant(offer.challenge, offer.grant)
        PROVE  FALSE
    BY <2>2, <1>1, <1>same DEF HandleGrant
  <2> QED
    BY <1>8, <2>1, <2>2 DEF HandleControl
<1>9. CASE NewFix \/ CloseSourceFix
  BY <1>9, <1>1, <1>same DEF NewFix, CloseSourceFix
<1>10. CASE ExpireLease
  BY <1>10, <1>1, <1>same DEF ExpireLease, ClearGrant, Retry
<1>11. CASE Take \/ Publish
  BY <1>11, <1>same DEF Take, Publish
<1>12. CASE UNCHANGED vars
  BY <1>12, <1>same DEF vars, egressVars
<1> QED
  BY <1>2, <1>3, <1>4, <1>5, <1>6, <1>7, <1>8, <1>9, <1>10, <1>11, <1>12 DEF Next

\* The grant the adapter holds, and every one it may still take, is of a
\* stream whose clear it has not handled on this connection.
THEOREM NoClearedGrantIsHeld == Spec => []ClearInv
<1> QED
  BY ClearInit, ClearNext, PTL DEF Spec

\* On a connection nothing is let through on a stream whose clear the adapter
\* has handled, however many clears, grants and activities cross.
THEOREM ClearsAreFinal == Spec => ClearIsFinal
<1>1. ClearInv /\ [Next]_vars =>
        [(worker # None /\ worker.step = "taken" /\ worker' # None /\ worker'.step = "checked")
           => worker.publication.stream \notin handledClears]_vars
  BY LetThrough DEF ClearInv, NoClearedGrant
<1> QED
  BY <1>1, NoClearedGrantIsHeld, PTL DEF Spec, ClearIsFinal

(***************************************************************************)
(* Types                                                                   *)
(***************************************************************************)

\* The types, one conjunct each.
LinkType ==
  /\ connected \in BOOLEAN /\ connections \in 0..MaxConnections
  /\ gate \in {"unknown", "open", "blocked"}
ActivityType ==
  /\ activity \in Activity \cup {None} /\ activitySequence \in 0..MaxActivities
  /\ challenges \subseteq ActivitySequences
GrantType ==
  /\ grant \in Control \cup {None} /\ grantActive \in BOOLEAN /\ grantFresh \in BOOLEAN
ReplayType == lastCleared \in Control \cup {None} /\ lastAuthority \in Control \cup {None}
SourceType ==
  /\ noFixClosed \in BOOLEAN /\ fixAvailablePending \in BOOLEAN
  /\ lastSourceStatus \in Publication \cup {None} /\ sourceSequence \in 0..MaxSequence
PendingType ==
  /\ pending \subseteq Publication
  /\ \A p, q \in pending : IsPosition(p) = IsPosition(q) => p = q
  /\ positionFirst \in BOOLEAN
WorkerType == worker \in Handed \cup {None}
ServerType ==
  /\ owner \in [Streams -> Sessions] /\ cleared \in BOOLEAN
  /\ stream \in 0..MaxStreams /\ revision \in 1..MaxRevision
  /\ offers \subseteq [challenge: ActivitySequences, grant: Control] /\ clears \subseteq Control
HistoryType ==
  /\ dropped \subseteq Streams /\ handledClears \subseteq Streams
  /\ published \in [Streams -> [kind: {"nothing", "position", "no_fix", "fix_available"},
                             sequence: 0..MaxSequence]]

LEMMA TypeParts ==
  TypeOK <=> /\ LinkType /\ ActivityType /\ GrantType /\ ReplayType /\ SourceType
             /\ PendingType /\ WorkerType /\ ServerType /\ HistoryType
BY DEF TypeOK, LinkType, ActivityType, GrantType, ReplayType, SourceType, PendingType,
       WorkerType, ServerType, HistoryType

LEMMA TypePartsNext ==
  TypeOK' <=> /\ LinkType' /\ ActivityType' /\ GrantType' /\ ReplayType' /\ SourceType'
              /\ PendingType' /\ WorkerType' /\ ServerType' /\ HistoryType'
BY DEF TypeOK, LinkType, ActivityType, GrantType, ReplayType, SourceType, PendingType,
       WorkerType, ServerType, HistoryType

LEMMA TypeInit == Init => TypeOK
<1> SUFFICES ASSUME Init
             PROVE  TypeOK
  OBVIOUS
<1>0. 0 \in 0..MaxConnections /\ 0 \in 0..MaxActivities /\ 0 \in 0..MaxSequence
  BY Bounds
<1>1. LinkType
  BY <1>0 DEF Init, LinkType
<1>5. ActivityType
  BY <1>0 DEF Init, ActivityType
<1>2. GrantType /\ ReplayType
  BY DEF Init, GrantType, ReplayType
<1>6. SourceType
  BY <1>0 DEF Init, SourceType
<1>7. PendingType /\ WorkerType
  BY DEF Init, PendingType, WorkerType
<1>3. ServerType
  <2>1. 0 \in 0..MaxStreams /\ 1 \in 1..MaxRevision
    BY Bounds
  <2> QED
    BY <2>1 DEF Init, ServerType
<1>4. HistoryType
  <2>1. 0 \in 0..MaxSequence
    BY Bounds
  <2>2. published \in [Streams -> [kind: {"nothing", "position", "no_fix", "fix_available"},
                                sequence: 0..MaxSequence]]
    BY <2>1 DEF Init
  <2> QED
    BY <2>2 DEF Init, HistoryType
<1> QED
  BY <1>1, <1>2, <1>3, <1>4, <1>5, <1>6, <1>7, TypeParts

\* What a step leaves alone keeps its type.
LEMMA Unchanged ==
  ASSUME TypeOK
  PROVE  /\ UNCHANGED linkVars /\ UNCHANGED gate => LinkType'
         /\ UNCHANGED activityVars => ActivityType'
         /\ UNCHANGED grantVars => GrantType'
         /\ UNCHANGED replayVars => ReplayType'
         /\ UNCHANGED sourceVars => SourceType'
         /\ UNCHANGED <<pending, positionFirst>> => PendingType'
         /\ UNCHANGED worker => WorkerType'
         /\ UNCHANGED serverVars => ServerType'
         /\ UNCHANGED historyVars => HistoryType'
<1> USE TypeParts
<1>1. UNCHANGED linkVars /\ UNCHANGED gate => LinkType'
  BY DEF linkVars, LinkType
<1>2. UNCHANGED activityVars => ActivityType'
  BY DEF activityVars, ActivityType
<1>3. UNCHANGED grantVars => GrantType'
  BY DEF grantVars, GrantType
<1>4. UNCHANGED replayVars => ReplayType'
  BY DEF replayVars, ReplayType
<1>5. UNCHANGED sourceVars => SourceType'
  BY DEF sourceVars, SourceType
<1>6. (UNCHANGED <<pending, positionFirst>> => PendingType') /\ (UNCHANGED worker => WorkerType')
  BY DEF PendingType, WorkerType, IsPosition
<1>7. UNCHANGED serverVars => ServerType'
  BY DEF serverVars, ServerType
<1>8. UNCHANGED historyVars => HistoryType'
  BY DEF historyVars, HistoryType
<1> QED
  BY <1>1, <1>2, <1>3, <1>4, <1>5, <1>6, <1>7, <1>8

\* The operators that several handlers share.
LEMMA SharedTypes ==
  ASSUME TypeOK
  PROVE  /\ Outdated \in {worker, None}
         /\ DropGrant => GrantType'
         /\ Leave({}) => PendingType'
         /\ worker' \in {worker, None} => WorkerType'
         /\ grant # None => grant \in Control /\ grant.stream \in Streams
         /\ activity # None => activity \in Activity
<1> USE TypeParts
<1>1. Outdated \in {worker, None}
  BY DEF Outdated
<1>2. DropGrant => GrantType'
  BY DEF DropGrant, GrantType
<1>3. Leave({}) => PendingType'
  BY TypeParts DEF PendingType, Leave
<1>4. worker' \in {worker, None} => WorkerType'
  BY DEF WorkerType
<1>5. grant # None => grant \in Control /\ grant.stream \in Streams
  BY DEF GrantType, Control
<1> QED
  BY <1>1, <1>2, <1>3, <1>4, <1>5 DEF ActivityType

LEMMA ResetTypes ==
  ASSUME TypeOK, ResetConnection, connected' \in BOOLEAN, connections' \in 0..MaxConnections
  PROVE  TypeOK'
<1>1. LinkType' /\ ActivityType' /\ ReplayType'
  BY TypeParts DEF ResetConnection, ForgetChallenges, LinkType, ActivityType, ReplayType
<1>2. GrantType' /\ PendingType' /\ WorkerType' /\ SourceType'
  BY SharedTypes, Unchanged DEF ResetConnection
<1>3. ServerType'
  BY TypeParts DEF ResetConnection, ForgetChallenges, ServerType
<1>4. HistoryType'
  BY TypeParts, SharedTypes DEF ResetConnection, GaveUp, HistoryType
<1> QED
  BY <1>1, <1>2, <1>3, <1>4, TypePartsNext

LEMMA GaveUpType ==
  ASSUME TypeOK, GaveUp \/ UNCHANGED dropped, UNCHANGED <<handledClears, published>>
  PROVE  HistoryType'
  BY TypeParts, SharedTypes DEF GaveUp, HistoryType

\* The server's side, as far as a handler changes it.
LEMMA OffersType ==
  ASSUME TypeOK, UNCHANGED <<owner, stream, revision, cleared, clears>>,
         offers' \subseteq [challenge: ActivitySequences, grant: Control]
  PROVE  ServerType'
  BY TypeParts DEF ServerType

LEMMA OfferType ==
  ASSUME TypeOK, NEW answered \in SUBSET ActivitySequences, NEW streams \in SUBSET Streams,
         NEW rev \in 1..MaxRevision
  PROVE  Offer(answered, streams, rev) \subseteq [challenge: ActivitySequences, grant: Control]
  BY DEF Offer, Control

LEMMA LiveType == TypeOK => LiveStream \in SUBSET Streams
  BY Bounds, TypeParts DEF LiveStream, ServerType, Streams

LEMMA GateClosesTypes ==
  ASSUME TypeOK, GateCloses
  PROVE  TypeOK'
<1>1. LinkType' /\ ActivityType'
  BY TypeParts DEF GateCloses, ForgetChallenges, linkVars, LinkType, ActivityType
<1>2. GrantType' /\ PendingType' /\ WorkerType' /\ SourceType' /\ ReplayType'
  BY SharedTypes, Unchanged DEF GateCloses, ClearGrant
<1>3. ServerType' /\ HistoryType'
  BY OffersType, GaveUpType DEF GateCloses, ForgetChallenges
<1> QED
  BY <1>1, <1>2, <1>3, TypePartsNext

LEMMA ServerTypes ==
  ASSUME TypeOK, Server
  PROVE  TypeOK'
<1>1. /\ LinkType' /\ ActivityType' /\ GrantType' /\ ReplayType' /\ SourceType'
      /\ PendingType' /\ WorkerType' /\ HistoryType'
  BY Unchanged DEF Server, egressVars
<1>2. /\ owner' = owner /\ owner \in [Streams -> Sessions] /\ cleared \in BOOLEAN
      /\ stream \in 0..MaxStreams /\ revision \in 1..MaxRevision
      /\ offers \subseteq [challenge: ActivitySequences, grant: Control] /\ clears \subseteq Control
      /\ challenges \in SUBSET ActivitySequences
  BY TypeParts DEF Server, ServerType, ActivityType
<1> SUFFICES ServerType'
  BY <1>1, TypePartsNext
<1>3. CASE OpenStream
  <2>1. {stream + 1} \in SUBSET Streams /\ stream + 1 \in 0..MaxStreams
    BY <1>2, <1>3, Bounds DEF OpenStream, Streams
  <2>2. offers' \subseteq [challenge: ActivitySequences, grant: Control]
    BY <1>2, <1>3, <2>1, OfferType DEF OpenStream
  <2> QED
    BY <1>2, <1>3, <2>1, <2>2 DEF OpenStream, ServerType
<1>4. CASE Revise
  <2>1. revision + 1 \in 1..MaxRevision
    BY <1>2, <1>4, Bounds DEF Revise
  <2>2. offers' \subseteq [challenge: ActivitySequences, grant: Control]
    BY <1>2, <1>4, <2>1, OfferType, LiveType DEF Revise
  <2> QED
    BY <1>2, <1>4, <2>1, <2>2 DEF Revise, ServerType
<1>5. CASE SendClear
  <2>1. [stream |-> stream, revision |-> revision] \in Control
    BY <1>2, <1>5, Bounds DEF SendClear, LiveStream, Control, Streams
  <2> QED
    BY <1>2, <1>5, <2>1 DEF SendClear, ServerType
<1> QED
  BY <1>3, <1>4, <1>5 DEF Server

LEMMA ActivityTypes ==
  ASSUME TypeOK, ReceiveActivity
  PROVE  TypeOK'
<1>1. PICK new : /\ new \in Activity /\ new.sequence \in ActivitySequences
                 /\ new.active \in BOOLEAN /\ AcceptActivity(new)
  <2>1. activitySequence + 1 \in ActivitySequences
    BY TypeParts, Bounds DEF ReceiveActivity, ActivityType, ActivitySequences
  <2> QED
    BY <2>1 DEF ReceiveActivity, Activity
<1>2. LinkType' /\ ReplayType' /\ SourceType'
  BY <1>1, Unchanged DEF AcceptActivity
<1>3. ActivityType'
  BY <1>1, TypeParts, Bounds DEF AcceptActivity, ActivityType, ActivitySequences
<1>4. GrantType' /\ PendingType' /\ WorkerType' /\ HistoryType'
  <2>1. CASE new.active
    <3>1. grantActive' \in BOOLEAN
      BY <1>1, <2>1, TypeParts DEF AcceptActivity, GrantType
    <3>2. GrantType'
      BY <1>1, <2>1, <3>1, TypeParts DEF AcceptActivity, GrantType
    <3> QED
      BY <1>1, <2>1, <3>2, Unchanged, GaveUpType DEF AcceptActivity, egressVars
  <2>2. CASE ~new.active
    BY <1>1, <2>2, SharedTypes, GaveUpType DEF AcceptActivity, ClearGrant
  <2> QED
    BY <2>1, <2>2
<1>5. ServerType'
  <2>1. Offer({new.sequence}, LiveStream, revision)
          \subseteq [challenge: ActivitySequences, grant: Control]
    BY <1>1, TypeParts, LiveType, OfferType DEF ServerType
  <2> QED
    BY <1>1, <2>1, OffersType, TypeParts DEF AcceptActivity, ServerType
<1> QED
  BY <1>2, <1>3, <1>4, <1>5, TypePartsNext

LEMMA ClearTypes ==
  ASSUME TypeOK, NEW control \in clears, HandleClear(control)
  PROVE  TypeOK'
<1>1. control \in Control /\ control.stream \in Streams
  BY TypeParts DEF ServerType, Control
<1>2. LinkType' /\ SourceType'
  BY Unchanged DEF HandleClear
<1>3. ActivityType' /\ ReplayType'
  BY <1>1, TypeParts DEF HandleClear, ForgetChallenges, ActivityType, ReplayType
<1>4. GrantType' /\ PendingType' /\ WorkerType'
  BY SharedTypes, Unchanged DEF HandleClear, ClearNamedGrant, ClearGrant, egressVars
<1>5. ServerType'
  BY OffersType DEF HandleClear, ForgetChallenges
<1>6. HistoryType'
  BY <1>1, TypeParts DEF HandleClear, HistoryType
<1> QED
  BY <1>2, <1>3, <1>4, <1>5, <1>6, TypePartsNext

\* What is staged next is a publication of the grant.
LEMMA NextType ==
  ASSUME TypeOK, NEW kind \in {"position", "no_fix", "fix_available"}, NEW g \in Control,
         NEW sequence \in 1..MaxSequence
  PROVE  NextPublication(kind, g, sequence) \in Publication
  BY DEF NextPublication, Publication, Control

\* What is staged is replaced by kind.
LEMMA QueueType ==
  ASSUME TypeOK, NEW staged \in SUBSET pending, NEW p \in Publication, Queue(staged, p)
  PROVE  PendingType'
<1>1. /\ pending' \subseteq Publication
      /\ \A q \in pending' : q = p \/ (q \in pending /\ IsPosition(q) # IsPosition(p))
      /\ \A q, r \in pending : IsPosition(q) = IsPosition(r) => q = r
      /\ \A q : IsPosition(q) \in BOOLEAN
  BY TypeParts DEF PendingType, Queue, IsPosition
<1>2. \A q, r \in pending' : IsPosition(q) = IsPosition(r) => q = r
  BY <1>1
<1> QED
  BY <1>1, <1>2 DEF PendingType, IsPosition, Queue

LEMMA DroppedType ==
  ASSUME TypeOK, NEW staged \in SUBSET pending, Leave(staged)
  PROVE  PendingType'
  BY TypeParts DEF PendingType, IsPosition, Leave

LEMMA SourceStatusType ==
  ASSUME TypeOK, NEW staged \in SUBSET pending, NEW status \in Publication,
         PublishSourceStatus(status, staged),
         noFixClosed' \in BOOLEAN, fixAvailablePending' \in BOOLEAN
  PROVE  SourceType' /\ PendingType'
<1>1. StatusesDropped(staged) \in SUBSET pending
  BY DEF StatusesDropped
<1>2. status.sequence \in 0..MaxSequence
  BY Bounds DEF Publication
<1> QED
  BY <1>1, <1>2, QueueType DEF PublishSourceStatus, SourceType

LEMMA GrantTypes ==
  ASSUME TypeOK, NEW offer \in offers, HandleGrant(offer.challenge, offer.grant)
  PROVE  TypeOK'
<1> DEFINE control == offer.grant
           new == NewStream(control)
           last == IF new THEN 0 ELSE sourceSequence
           kept == IF new THEN {} ELSE pending
           closed == noFixClosed /\ ~ReopensSource(control)
<1>1. control \in Control
  BY TypeParts DEF ServerType
<1>2. last \in 0..MaxSequence /\ noFixClosed \in BOOLEAN /\ fixAvailablePending \in BOOLEAN
  BY Bounds, TypeParts DEF SourceType
<1>3. LinkType' /\ ActivityType' /\ ServerType' /\ HistoryType'
  BY Unchanged DEF HandleGrant
<1>4. GrantType' /\ ReplayType'
  BY <1>1 DEF HandleGrant, GrantType, ReplayType
<1>5. WorkerType'
  BY SharedTypes DEF HandleGrant
<1>6. SourceType' /\ PendingType'
  <2>1. noFixClosed' = closed /\ noFixClosed' \in BOOLEAN /\ fixAvailablePending' \in BOOLEAN
    BY <1>2 DEF HandleGrant
  <2>2. CASE closed
    <3>1. last < MaxSequence /\ PublishSourceStatus(NextPublication("no_fix", control, last + 1), kept)
      BY <2>2 DEF HandleGrant
    <3>2. last + 1 \in 1..MaxSequence
      BY <1>2, <3>1, Bounds
    <3>3. NextPublication("no_fix", control, last + 1) \in Publication
      BY <1>1, <3>2, NextType
    <3> HIDE DEF last, new, closed
    <3> QED
      BY <2>1, <3>1, <3>3, SourceStatusType
  <2>3. CASE ~closed
    <3>1. sourceSequence' = last /\ Leave(kept) /\ UNCHANGED lastSourceStatus
      BY <2>3 DEF HandleGrant
    <3> HIDE DEF last, new, closed
    <3> QED
      BY <1>2, <2>1, <3>1, TypeParts, DroppedType DEF SourceType
  <2> QED
    BY <2>2, <2>3
<1> QED
  BY <1>3, <1>4, <1>5, <1>6, TypePartsNext

\* What a retry stages.
LEMMA RetryType ==
  ASSUME TypeOK, Retry
  PROVE  PendingType'
  BY TypeParts, QueueType DEF Retry, SourceType

LEMMA NewFixTypes ==
  ASSUME TypeOK, NewFix
  PROVE  TypeOK'
<1>1. /\ LinkType' /\ ActivityType' /\ GrantType' /\ ReplayType' /\ WorkerType'
      /\ ServerType' /\ HistoryType'
  BY Unchanged DEF NewFix
<1> SUFFICES SourceType' /\ PendingType'
  BY <1>1, TypePartsNext
<1>2. sourceSequence \in 0..MaxSequence /\ noFixClosed' \in BOOLEAN
  BY TypeParts DEF NewFix, SourceType
<1>3. ASSUME CanTell, sourceSequence < MaxSequence, NEW kind \in {"position", "fix_available"}
      PROVE  /\ NextPublication(kind, grant, sourceSequence + 1) \in Publication
             /\ sourceSequence + 1 \in 0..MaxSequence
  <2>1. grant \in Control
    BY <1>3, SharedTypes DEF CanTell, GrantCurrent
  <2>2. sourceSequence + 1 \in 1..MaxSequence
    BY <1>2, <1>3, Bounds
  <2> QED
    BY <2>1, <2>2, NextType, Bounds
<1>4. CASE /\ CanTell /\ sourceSequence < MaxSequence
           /\ fixAvailablePending' = TRUE
           /\ PublishSourceStatus(
                NextPublication("fix_available", grant, sourceSequence + 1), pending)
  BY <1>2, <1>3, <1>4, SourceStatusType
<1>5. CASE Retry /\ UNCHANGED <<noFixClosed, fixAvailablePending, lastSourceStatus, sourceSequence>>
  BY <1>5, RetryType, Unchanged DEF sourceVars
<1>6. CASE /\ CanTell /\ sourceSequence < MaxSequence
           /\ sourceSequence' = sourceSequence + 1
           /\ Queue(pending, NextPublication("position", grant, sourceSequence + 1))
           /\ UNCHANGED <<fixAvailablePending, lastSourceStatus>>
  BY <1>2, <1>3, <1>6, QueueType, TypeParts DEF SourceType
<1> QED
  BY <1>4, <1>5, <1>6 DEF NewFix

LEMMA CloseSourceFixTypes ==
  ASSUME TypeOK, CloseSourceFix
  PROVE  TypeOK'
<1>1. /\ LinkType' /\ ActivityType' /\ GrantType' /\ ReplayType' /\ WorkerType'
      /\ ServerType' /\ HistoryType'
  BY Unchanged, SharedTypes DEF CloseSourceFix
<1> SUFFICES SourceType' /\ PendingType'
  BY <1>1, TypePartsNext
<1>2. PositionsDropped(pending) \in SUBSET pending
  BY DEF PositionsDropped
<1>3. CASE (Leave(PositionsDropped(pending)) \/ Retry) /\ UNCHANGED sourceVars
  BY <1>2, <1>3, RetryType, DroppedType, Unchanged
<1>4. CASE /\ noFixClosed' = TRUE /\ fixAvailablePending' = FALSE
           /\ CanTell /\ sourceSequence < MaxSequence
           /\ PublishSourceStatus(NextPublication("no_fix", grant, sourceSequence + 1),
                                  PositionsDropped(pending))
  <2>1. grant \in Control
    BY <1>4, SharedTypes DEF CanTell, GrantCurrent
  <2>2. sourceSequence + 1 \in 1..MaxSequence
    BY <1>4, Bounds, TypeParts DEF SourceType
  <2>3. NextPublication("no_fix", grant, sourceSequence + 1) \in Publication
    BY <2>1, <2>2, NextType
  <2> QED
    BY <1>2, <1>4, <2>3, SourceStatusType
<1>5. CASE /\ noFixClosed' = TRUE /\ fixAvailablePending' = FALSE
           /\ Leave(PositionsDropped(pending))
           /\ UNCHANGED <<lastSourceStatus, sourceSequence>>
  BY <1>2, <1>5, DroppedType, TypeParts DEF SourceType
<1> QED
  <2> DEFINE told == noFixClosed /\ (lastSourceStatus = None \/ lastSourceStatus.kind # "fix_available")
  <2>1. CASE told
    BY <1>3, <2>1 DEF CloseSourceFix
  <2>2. CASE ~told
    <3>1. CASE CanTell
      BY <1>4, <2>2, <3>1 DEF CloseSourceFix
    <3>2. CASE ~CanTell
      BY <1>5, <2>2, <3>2 DEF CloseSourceFix
    <3> QED
      BY <3>1, <3>2
  <2> QED
    BY <2>1, <2>2

LEMMA ExpireLeaseTypes ==
  ASSUME TypeOK, ExpireLease
  PROVE  TypeOK'
<1>1. LinkType' /\ ReplayType' /\ SourceType'
  BY Unchanged, TypeParts DEF ExpireLease, LinkType, linkVars
<1>2. ActivityType' /\ ServerType'
  BY OffersType, Unchanged, TypeParts
     DEF ExpireLease, ForgetChallenges, ActivityType, ServerType
<1>3. GrantType' /\ PendingType' /\ WorkerType'
  BY SharedTypes, RetryType, Unchanged DEF ExpireLease, ClearGrant
<1>4. HistoryType'
  BY GaveUpType DEF ExpireLease
<1> QED
  BY <1>1, <1>2, <1>3, <1>4, TypePartsNext

LEMMA WorkerTypes ==
  ASSUME TypeOK, Take \/ Check \/ Publish
  PROVE  TypeOK'
<1>1. /\ LinkType' /\ ActivityType' /\ GrantType' /\ ReplayType' /\ SourceType' /\ ServerType'
  BY Unchanged DEF Take, Check, Publish
<1> SUFFICES PendingType' /\ WorkerType' /\ HistoryType'
  BY <1>1, TypePartsNext
<1>2. /\ pending \subseteq Publication
      /\ worker # None => worker.publication \in Publication
      /\ worker # None => worker \in Handed
  BY TypeParts DEF PendingType, WorkerType, Handed
<1>3. CASE Take
  BY <1>2, <1>3, DroppedType, Unchanged DEF Take, WorkerType, Handed
<1>4. CASE Check
  BY <1>2, <1>4, Unchanged DEF Check, WorkerType, Handed
<1>5. CASE Publish
  <2>1. WorkerType' /\ PendingType'
    BY <1>5, SharedTypes, Unchanged DEF Publish
  <2>2. worker.publication \in Publication
    BY <1>2, <1>5 DEF Publish
  <2>3. [kind |-> worker.publication.kind, sequence |-> worker.publication.sequence]
          \in [kind: {"nothing", "position", "no_fix", "fix_available"}, sequence: 0..MaxSequence]
    BY <2>2, Bounds DEF Publication
  <2>4. HistoryType'
    BY <1>5, <2>3, TypeParts DEF Publish, HistoryType
  <2> QED
    BY <2>1, <2>4
<1> QED
  BY <1>3, <1>4, <1>5

LEMMA TypeStep == TypeOK /\ [Next]_vars => TypeOK'
<1> SUFFICES ASSUME TypeOK, [Next]_vars
             PROVE  TypeOK'
  OBVIOUS
<1>1. CASE OnConnected
  <2>1. connected' \in BOOLEAN /\ connections' \in 0..MaxConnections
    BY <1>1, Bounds, TypeParts DEF OnConnected, LinkType
  <2> QED
    BY <1>1, <2>1, ResetTypes DEF OnConnected
<1>2. CASE OnDisconnected
  BY <1>2, ResetTypes, TypeParts DEF OnDisconnected, LinkType
<1>3. CASE GateOpens
  <2>1. LinkType'
    BY <1>3, TypeParts DEF GateOpens, LinkType, linkVars
  <2> QED
    BY <1>3, <2>1, Unchanged, TypePartsNext DEF GateOpens, egressVars
<1>4. CASE GrantLapses
  <2>1. GrantType'
    BY <1>4, TypeParts DEF GrantLapses, GrantType
  <2> QED
    BY <1>4, <2>1, Unchanged, TypePartsNext DEF GrantLapses, egressVars
<1>5. CASE UNCHANGED vars
  BY <1>5, Unchanged, TypePartsNext DEF vars, egressVars
<1>6. CASE HandleControl
  BY <1>6, ClearTypes, GrantTypes DEF HandleControl
<1> QED
  BY <1>1, <1>2, <1>3, <1>4, <1>5, <1>6, GateClosesTypes, ServerTypes, ActivityTypes,
     NewFixTypes, CloseSourceFixTypes, ExpireLeaseTypes, WorkerTypes DEF Next

\* Every variable keeps its type.
THEOREM TypeCorrect == Spec => []TypeOK
<1> QED
  BY TypeInit, TypeStep, PTL DEF Spec

(***************************************************************************)
(* One sequence on each stream                                             *)
(*                                                                         *)
(* The numbers of a stream are those of the grant the adapter holds on it. *)
(* What makes them increase is that no stream is granted anew: a stream    *)
(* that was numbered is the one that is held, was given up, or is spent.   *)
(***************************************************************************)

\* Publications and controls name a stream: that of the grant that is held, of
\* what the worker has, of the last source status.
Held(s) == grant # None /\ grant.stream = s
InHands(s) == worker # None /\ worker.publication.stream = s
StatusOf(s) == lastSourceStatus # None /\ lastSourceStatus.stream = s

\* Nothing was ever numbered on the stream.
Unused(s) ==
  /\ published[s] = [kind |-> "nothing", sequence |-> 0]
  /\ ~InHands(s) /\ ~StatusOf(s)

\* No grant of the stream will be accepted any more.
Spent(s) ==
  /\ s \in 1..stream /\ s \notin LiveStream
  /\ \/ \A o \in offers : o.grant.stream # s
     \/ lastAuthority # None /\ s < lastAuthority.stream

\* A stream that has numbers is not granted anew.
GrantedOnce ==
  \A s \in Streams : Unused(s) \/ Held(s) \/ s \in dropped \/ Spent(s)

\* A grant that may arrive, and the one that is held, is of an opened stream.
OffersAreOpened ==
  /\ \A o \in offers : o.grant.stream \in 1..stream
  /\ grant # None => grant.stream \in 1..stream

GrantInv == GrantedOnce /\ OffersAreOpened

\* A position is staged under the grant, while the source is open, and is newer
\* than what was sent before it.
StagedPosition(p) ==
  /\ ~noFixClosed /\ Held(p.stream)
  /\ published[p.stream].sequence < p.sequence
  /\ p.sequence <= sourceSequence

PendingIsCurrent ==
  \A p \in pending :
    IF IsPosition(p)
      THEN /\ StagedPosition(p)
           /\ InHands(p.stream) => worker.publication.sequence < p.sequence
      ELSE p = lastSourceStatus

TakenIsCurrent ==
  worker # None /\ worker.step = "taken" /\ IsPosition(worker.publication) =>
    StagedPosition(worker.publication)

\* What was checked may be sent.
MaySend(p) ==
  LET last == published[p.stream]
  IN /\ \/ p.sequence > last.sequence
        \/ p.sequence = last.sequence /\ p.kind = last.kind /\ ~IsPosition(p)
     /\ IsPosition(p) => last.kind \in {"nothing", "position"}

CheckedMaySend ==
  worker # None /\ worker.step = "checked" => MaySend(worker.publication)

LastIsStatus == lastSourceStatus # None => ~IsPosition(lastSourceStatus)

\* The numbers of the stream that is held: the last is that of its source
\* status, if it has one; otherwise it has positions only.
Numbers(s) ==
  /\ published[s].sequence <= sourceSequence
  /\ InHands(s) => worker.publication.sequence <= sourceSequence
  /\ StatusOf(s) =>
       /\ noFixClosed
       /\ lastSourceStatus.sequence = sourceSequence
       /\ published[s].sequence = sourceSequence => published[s].kind = lastSourceStatus.kind
       /\ InHands(s) /\ worker.publication.sequence = sourceSequence =>
            worker.publication.kind = lastSourceStatus.kind
  /\ ~noFixClosed =>
       /\ published[s].kind \in {"nothing", "position"}
       /\ InHands(s) => IsPosition(worker.publication)

HeldIsNumbered == \A s \in Streams : Held(s) => Numbers(s)

NumberInv ==
  /\ PendingIsCurrent /\ TakenIsCurrent /\ CheckedMaySend
  /\ LastIsStatus /\ HeldIsNumbered

\* What the sequence relies on: a stream is entered, by taking a grant of it
\* while another or none is held, only when nothing was ever numbered on it.
EntersUnused ==
  grant' # None /\ (grant = None \/ grant'.stream # grant.stream) =>
    Unused(grant'.stream)

\* Sessions and a server of which that is true: one session, of which no stream
\* that the adapter gave up on its own is granted again.
OneSession ==
  /\ ~Regrants
  /\ \A s, t \in Sessions : s = t

(***************************************************************************)
(* What a step does to the grants                                          *)
(***************************************************************************)

Grants == \E offer \in offers : HandleGrant(offer.challenge, offer.grant)
Clears == \E control \in clears : HandleClear(control)

LEMMA StreamStep ==
  ASSUME TypeOK, [Next]_vars
  PROVE  /\ stream \in Nat /\ stream' \in {stream, stream + 1}
         /\ LiveStream' \subseteq LiveStream \cup {stream + 1}
         /\ LiveStream \subseteq {stream}
<1>1. stream \in Nat /\ LiveStream \subseteq {stream}
  BY TypeParts, Bounds DEF ServerType, LiveStream
<1>same. ASSUME UNCHANGED <<stream, cleared>>
         PROVE  stream' = stream /\ LiveStream' = LiveStream
  BY <1>same DEF LiveStream
<1>2. CASE OnConnected \/ OnDisconnected
  BY <1>1, <1>2, <1>same DEF OnConnected, OnDisconnected, ResetConnection
<1>3. CASE GateOpens \/ GateCloses
  BY <1>1, <1>3, <1>same DEF GateOpens, GateCloses, serverVars
<1>4. CASE ReceiveActivity
  BY <1>1, <1>4, <1>same DEF ReceiveActivity, AcceptActivity
<1>5. CASE Server
  BY <1>1, <1>5, <1>same DEF Server, OpenStream, Revise, SendClear, LiveStream
<1>6. CASE HandleControl
  BY <1>1, <1>6, <1>same DEF HandleControl, HandleClear, HandleGrant, serverVars
<1>7. CASE NewFix \/ CloseSourceFix
  BY <1>1, <1>7, <1>same DEF NewFix, CloseSourceFix, serverVars
<1>8. CASE GrantLapses \/ ExpireLease
  BY <1>1, <1>8, <1>same DEF GrantLapses, ExpireLease, serverVars
<1>9. CASE Take \/ Check \/ Publish
  BY <1>1, <1>9, <1>same DEF Take, Check, Publish, serverVars
<1>10. CASE UNCHANGED vars
  BY <1>1, <1>10, <1>same DEF vars, serverVars
<1> QED
  BY <1>2, <1>3, <1>4, <1>5, <1>6, <1>7, <1>8, <1>9, <1>10 DEF Next

\* Only what is live is offered.
LEMMA OffersStep ==
  ASSUME TypeOK, [Next]_vars
  PROVE  \A o \in offers' : o \in offers \/ o.grant.stream \in LiveStream'
<1>1. CASE OnConnected \/ OnDisconnected
  BY <1>1 DEF OnConnected, OnDisconnected, ResetConnection, ForgetChallenges
<1>2. CASE GateOpens \/ GateCloses
  BY <1>2 DEF GateOpens, GateCloses, serverVars, ForgetChallenges
<1>3. CASE ReceiveActivity
  <2>1. PICK new : AcceptActivity(new)
    BY <1>3 DEF ReceiveActivity
  <2>2. offers' = offers \cup Offer({new.sequence}, LiveStream, revision) /\ LiveStream' = LiveStream
    BY <2>1 DEF AcceptActivity, LiveStream
  <2> QED
    BY <2>2, OfferedStream
<1>4. CASE Server
  <2>1. CASE OpenStream
    <3>1. LiveStream' = {stream + 1}
      BY <2>1, StreamStep DEF OpenStream, LiveStream
    <3> QED
      BY <2>1, <3>1, OfferedStream DEF OpenStream
  <2>2. CASE Revise
    <3>1. LiveStream' = LiveStream
      BY <2>2 DEF Revise, LiveStream
    <3> QED
      BY <2>2, <3>1, OfferedStream DEF Revise
  <2> QED
    BY <1>4, <2>1, <2>2 DEF Server, SendClear
<1>5. CASE HandleControl
  BY <1>5 DEF HandleControl, HandleClear, HandleGrant, serverVars, ForgetChallenges
<1>6. CASE NewFix \/ CloseSourceFix
  BY <1>6 DEF NewFix, CloseSourceFix, serverVars
<1>7. CASE GrantLapses \/ ExpireLease
  BY <1>7 DEF GrantLapses, ExpireLease, serverVars, ForgetChallenges
<1>8. CASE Take \/ Check \/ Publish
  BY <1>8 DEF Take, Check, Publish, serverVars
<1>9. CASE UNCHANGED vars
  BY <1>9 DEF vars, serverVars
<1> QED
  BY <1>1, <1>2, <1>3, <1>4, <1>5, <1>6, <1>7, <1>8, <1>9 DEF Next

\* A grant is given up, replaced or cleared; its authority is remembered until
\* no offer is left.
LEMMA GrantStep ==
  ASSUME TypeOK, [Next]_vars
  PROVE  \/ Grants
         \/ Clears
         \/ /\ \/ grant' = grant /\ dropped' = dropped
               \/ grant' = None /\ GaveUp
            /\ lastAuthority' = lastAuthority \/ offers' = {}
<1>1. CASE OnConnected \/ OnDisconnected
  BY <1>1 DEF OnConnected, OnDisconnected, ResetConnection, ForgetChallenges, DropGrant
<1>2. CASE GateOpens \/ GateCloses
  BY <1>2 DEF GateOpens, GateCloses, ClearGrant, DropGrant, grantVars, historyVars, replayVars
<1>3. CASE ReceiveActivity
  <2>1. PICK new : AcceptActivity(new)
    BY <1>3 DEF ReceiveActivity
  <2> QED
    BY <2>1 DEF AcceptActivity, ClearGrant, DropGrant, replayVars
<1>4. CASE Server
  BY <1>4 DEF Server, grantVars, historyVars, replayVars
<1>5. CASE HandleControl
  BY <1>5 DEF HandleControl, Grants, Clears
<1>6. CASE NewFix \/ CloseSourceFix
  BY <1>6 DEF NewFix, CloseSourceFix, grantVars, historyVars, replayVars
<1>7. CASE GrantLapses \/ ExpireLease
  BY <1>7 DEF GrantLapses, ExpireLease, ClearGrant, DropGrant, grantVars, historyVars, replayVars
<1>8. CASE Take \/ Check \/ Publish
  BY <1>8 DEF Take, Check, Publish, grantVars, historyVars, replayVars
<1>9. CASE UNCHANGED vars
  BY <1>9 DEF vars, grantVars, historyVars, replayVars
<1> QED
  BY <1>1, <1>2, <1>3, <1>4, <1>5, <1>6, <1>7, <1>8, <1>9 DEF Next

\* What names a stream: a publication is taken from what is staged, and a
\* status is staged under the grant.
LEMMA NamesStep ==
  ASSUME TypeOK, [Next]_vars
  PROVE  /\ \/ published' = published
            \/ /\ worker # None
               /\ \A s \in Streams : s # worker.publication.stream => published'[s] = published[s]
         /\ \/ worker' \in {worker, None}
            \/ worker # None /\ worker'.publication = worker.publication
            \/ worker' # None /\ worker'.publication \in pending
         /\ \/ lastSourceStatus' = lastSourceStatus
            \/ grant' # None /\ lastSourceStatus'.stream = grant'.stream
<1>0. Outdated \in {worker, None}
  BY SharedTypes
<1>1. CASE OnConnected \/ OnDisconnected
  BY <1>1 DEF OnConnected, OnDisconnected, ResetConnection, sourceVars
<1>2. CASE GateOpens \/ GateCloses
  BY <1>0, <1>2 DEF GateOpens, GateCloses, ClearGrant, sourceVars, historyVars, egressVars
<1>3. CASE ReceiveActivity
  <2>1. PICK new : AcceptActivity(new)
    BY <1>3 DEF ReceiveActivity
  <2> QED
    BY <1>0, <2>1 DEF AcceptActivity, ClearGrant, sourceVars, egressVars
<1>4. CASE Server
  BY <1>4 DEF Server, sourceVars, historyVars, egressVars
<1>5. CASE HandleControl
  <2>1. CASE Clears
    BY <1>0, <2>1 DEF Clears, HandleClear, ClearNamedGrant, ClearGrant, sourceVars, egressVars
  <2>2. CASE Grants
    <3>1. PICK offer \in offers : HandleGrant(offer.challenge, offer.grant)
      BY <2>2 DEF Grants
    <3>2. offer.grant \in Control /\ offer.grant # None
      BY Bounds, TypeParts DEF ServerType
    <3>3. \/ lastSourceStatus' = lastSourceStatus
          \/ grant' = offer.grant /\ lastSourceStatus'.stream = offer.grant.stream
      BY <3>1 DEF HandleGrant, PublishSourceStatus, NextPublication
    <3>4. published' = published /\ worker' \in {worker, None}
      BY <1>0, <3>1 DEF HandleGrant, historyVars
    <3> QED
      BY <3>2, <3>3, <3>4
  <2> QED
    BY <1>5, <2>1, <2>2 DEF HandleControl, Clears, Grants
<1>6. CASE NewFix
  BY <1>6 DEF NewFix, CanTell, GrantCurrent, PublishSourceStatus, NextPublication, historyVars,
              grantVars
<1>7. CASE CloseSourceFix
  BY <1>0, <1>7 DEF CloseSourceFix, CanTell, GrantCurrent, PublishSourceStatus, NextPublication,
                    historyVars, grantVars, sourceVars
<1>8. CASE GrantLapses \/ ExpireLease
  BY <1>0, <1>8 DEF GrantLapses, ExpireLease, ClearGrant, sourceVars, historyVars, egressVars
<1>9. CASE Take
  <2>1. PICK p \in pending : worker' = [step |-> "taken", publication |-> p]
    BY <1>9 DEF Take
  <2>2. p \in Publication /\ worker' \in Handed
    BY <2>1, TypeParts DEF PendingType, Handed
  <2>3. worker' # None /\ worker'.publication = p
    BY <2>1, <2>2, Bounds
  <2> QED
    BY <1>9, <2>3 DEF Take, sourceVars, historyVars
<1>10. CASE Check
  BY <1>10, TypeParts DEF Check, sourceVars, historyVars, WorkerType, Handed
<1>11. CASE Publish
  BY <1>11, TypeParts DEF Publish, sourceVars, HistoryType
<1>12. CASE UNCHANGED vars
  BY <1>12 DEF vars, sourceVars, historyVars, egressVars
<1> QED
  BY <1>1, <1>2, <1>3, <1>4, <1>5, <1>6, <1>7, <1>8, <1>9, <1>10, <1>11, <1>12 DEF Next

(***************************************************************************)
(* No stream is granted anew                                               *)
(***************************************************************************)

LEMMA UnusedKeeps ==
  ASSUME TypeOK, NumberInv, [Next]_vars, NEW s \in Streams, Unused(s)
  PROVE  Unused(s)' \/ Held(s)' \/ Held(s)
<1> SUFFICES ASSUME ~Held(s)', ~Held(s)
             PROVE  Unused(s)'
  OBVIOUS
<1>1. published'[s] = published[s]
  BY NamesStep DEF Unused, InHands
<1>2. ~StatusOf(s)'
  BY NamesStep DEF Unused, StatusOf, Held
<1>3. ~InHands(s)'
  <2>1. ASSUME NEW p \in pending
        PROVE  p.stream # s
    <3>1. p # None
      BY Bounds, TypeParts DEF PendingType
    <3> QED
      BY <3>1 DEF NumberInv, PendingIsCurrent, StagedPosition, Unused, StatusOf, Held
  <2> QED
    BY <2>1, NamesStep DEF Unused, InHands
<1> QED
  BY <1>1, <1>2, <1>3 DEF Unused

LEMMA SpentKeeps ==
  ASSUME TypeOK, OneSession, [Next]_vars, NEW s \in Streams, Spent(s)
  PROVE  Spent(s)'
<1>1. s \in 1..stream' /\ s \notin LiveStream'
  BY StreamStep DEF Spent
<1>2. CASE \A o \in offers : o.grant.stream # s
  BY <1>1, <1>2, OffersStep DEF Spent
<1>3. CASE lastAuthority # None /\ s < lastAuthority.stream
  <2>1. CASE lastAuthority' = lastAuthority \/ offers' = {}
    BY <1>1, <1>3, <2>1 DEF Spent
  <2>2. CASE Grants
    <3>1. PICK offer \in offers : HandleGrant(offer.challenge, offer.grant)
      BY <2>2 DEF Grants
    <3>2. lastAuthority' = offer.grant /\ AcceptsGrant(offer.challenge, offer.grant)
      BY <3>1 DEF HandleGrant
    <3>3. offer.grant \in Control /\ offer.grant # None /\ lastAuthority \in Control
      BY <1>3, Bounds, TypeParts DEF ServerType, ReplayType
    <3>4. owner[offer.grant.stream] \in Sessions /\ owner[lastAuthority.stream] \in Sessions
      BY <3>3, TypeParts DEF ServerType, Control
    <3>5. offer.grant.stream >= lastAuthority.stream
      BY <1>3, <3>2, <3>4 DEF AcceptsGrant, SameSession, NotOlder, OneSession
    <3>6. s < offer.grant.stream
      <4>1. s \in Int /\ offer.grant.stream \in Int /\ lastAuthority.stream \in Int
        BY <3>3 DEF Control, Streams
      <4> HIDE DEF Streams
      <4> QED
        BY <1>3, <3>5, <4>1
    <3> QED
      BY <1>1, <3>2, <3>3, <3>6 DEF Spent
  <2>3. CASE Clears
    BY <1>1, <1>3, <2>3 DEF Clears, HandleClear, Spent
  <2> QED
    BY <2>1, <2>2, <2>3, GrantStep
<1> QED
  BY <1>2, <1>3 DEF Spent

\* The grant that is held is kept, given up, replaced by a later stream, or
\* cleared.
LEMMA HeldKeeps ==
  ASSUME TypeOK, ClearInv, OffersAreOpened, [Next]_vars, NEW s \in Streams, Held(s)
  PROVE  Held(s)' \/ s \in dropped' \/ Spent(s)'
<1>1. grant \in Control /\ grant.stream = s /\ s \in 1..stream /\ s \in Int
  BY TypeParts DEF Held, OffersAreOpened, GrantType, Streams
<1>2. CASE grant' = grant \/ (grant' = None /\ GaveUp)
  BY <1>2 DEF Held, GaveUp
<1>3. CASE Grants
  <2>1. PICK offer \in offers : HandleGrant(offer.challenge, offer.grant)
    BY <1>3 DEF Grants
  <2>2. grant' = offer.grant /\ lastAuthority' = offer.grant /\ UNCHANGED <<stream, cleared>>
    BY <2>1 DEF HandleGrant, serverVars
  <2>3. offer.grant \in Control /\ offer.grant # None /\ offer.grant.stream \in 1..stream
    BY Bounds, TypeParts DEF ServerType, OffersAreOpened
  <2>4. offer.grant.stream >= s
    BY <1>1, <2>1 DEF HandleGrant, AcceptsGrant, NotOlder, Held
  <2>5. SUFFICES ASSUME offer.grant.stream # s
                 PROVE  Spent(s)'
    BY <2>2, <2>3 DEF Held
  <2>6. s < offer.grant.stream /\ s # stream
    BY <1>1, <2>3, <2>4, <2>5, StreamStep
  <2>7. s \notin LiveStream'
    BY <2>2, <2>6, StreamStep DEF LiveStream
  <2> QED
    BY <1>1, <2>2, <2>3, <2>6, <2>7 DEF Spent
<1>4. CASE Clears
  <2>1. PICK control \in clears : HandleClear(control)
    BY <1>4 DEF Clears
  <2>2. offers' = {} /\ UNCHANGED <<stream, cleared>>
    BY <2>1 DEF HandleClear, ForgetChallenges
  <2>3. control.stream >= s
    BY <1>1, <2>1 DEF HandleClear, NotOlder, Held
  <2>4. control.stream \in 1..stream /\ (control.stream = stream => cleared)
    BY DEF ClearInv, ClearsAreSent
  <2>5. s = stream => cleared
    BY <1>1, <2>3, <2>4, StreamStep
  <2>6. s \notin LiveStream'
    BY <2>2, <2>5 DEF LiveStream
  <2> QED
    BY <1>1, <2>2, <2>6 DEF Spent
<1>5. Grants \/ Clears \/ grant' = grant \/ (grant' = None /\ GaveUp)
  BY GrantStep
<1> QED
  BY <1>2, <1>3, <1>4, <1>5

LEMMA OpenedKeeps ==
  ASSUME TypeOK, OffersAreOpened, [Next]_vars
  PROVE  OffersAreOpened'
<1>1. LiveStream' \subseteq 1..stream' /\ 1..stream \subseteq 1..stream'
  <2>1. stream' \in Nat /\ LiveStream' \subseteq {stream'} /\ (stream' = 0 => LiveStream' = {})
    BY StreamStep DEF LiveStream
  <2> QED
    BY <2>1, StreamStep
<1>2. \A o \in offers' : o.grant.stream \in 1..stream'
  BY <1>1, OffersStep DEF OffersAreOpened
<1>3. grant' # None => grant' = grant \/ \E o \in offers : grant' = o.grant
  BY GrantStep DEF Grants, Clears, HandleGrant, HandleClear, ClearNamedGrant, ClearGrant,
                   DropGrant, grantVars
<1> QED
  BY <1>1, <1>2, <1>3 DEF OffersAreOpened

LEMMA GrantKeepsOnce ==
  ASSUME TypeOK, OneSession, ClearInv, GrantInv, NumberInv, [Next]_vars
  PROVE  GrantInv'
<1>1. dropped \subseteq dropped'
  BY GrantStep DEF GaveUp, Grants, Clears, HandleGrant, HandleClear, historyVars
<1>2. ASSUME NEW s \in Streams
      PROVE  Unused(s)' \/ Held(s)' \/ s \in dropped' \/ Spent(s)'
  BY <1>1, UnusedKeeps, SpentKeeps, HeldKeeps DEF GrantInv, GrantedOnce
<1>3. GrantedOnce'
  BY <1>2 DEF GrantedOnce, Streams
<1> QED
  BY <1>3, OpenedKeeps DEF GrantInv

\* A new stream was never numbered: it is not given up, not held and not spent.
LEMMA NewIsNotSpent ==
  ASSUME TypeOK, OneSession, GrantInv, NEW offer \in offers,
         HandleGrant(offer.challenge, offer.grant), NewStream(offer.grant)
  PROVE  Unused(offer.grant.stream)
<1> DEFINE control == offer.grant
           s == control.stream
<1>1. control \in Control /\ s \in Streams /\ s \in Int
  BY TypeParts DEF ServerType, Control, Streams
<1>2. s \notin dropped /\ ~Held(s)
  BY DEF HandleGrant, NewStream, OneSession, Held
<1>3. ~Spent(s)
  <2>1. SUFFICES ASSUME lastAuthority # None, s < lastAuthority.stream
                 PROVE  FALSE
    BY DEF Spent
  <2>2. lastAuthority \in Control /\ lastAuthority.stream \in Int
    BY <2>1, TypeParts DEF ReplayType, Control, Streams
  <2>3. owner[s] \in Sessions /\ owner[lastAuthority.stream] \in Sessions
    BY <1>1, <2>2, TypeParts DEF ServerType, Control
  <2>4. s >= lastAuthority.stream
    BY <2>1, <2>3 DEF HandleGrant, AcceptsGrant, SameSession, NotOlder, OneSession
  <2> QED
    BY <1>1, <2>1, <2>2, <2>4
<1> QED
  BY <1>1, <1>2, <1>3 DEF GrantInv, GrantedOnce

LEMMA EntersNew ==
  ASSUME TypeOK, OneSession, GrantInv, [Next]_vars
  PROVE  EntersUnused
<1> SUFFICES ASSUME grant' # None, grant = None \/ grant'.stream # grant.stream
             PROVE  Unused(grant'.stream)
  BY DEF EntersUnused
<1>1. CASE Grants
  <2>1. PICK offer \in offers : HandleGrant(offer.challenge, offer.grant)
    BY <1>1 DEF Grants
  <2>2. grant' = offer.grant /\ NewStream(offer.grant)
    BY <2>1 DEF HandleGrant, NewStream
  <2> QED
    BY <2>1, <2>2, NewIsNotSpent
<1>2. CASE Clears
  BY <1>2 DEF Clears, HandleClear, ClearNamedGrant, ClearGrant, DropGrant, grantVars
<1> QED
  BY <1>1, <1>2, GrantStep

(***************************************************************************)
(* The numbers of the stream that is held                                  *)
(***************************************************************************)

numberVars == <<published, worker, pending, lastSourceStatus, sourceSequence, noFixClosed, grant>>

LEMMA NumbersStay ==
  ASSUME NumberInv, UNCHANGED numberVars
  PROVE  NumberInv'
  BY DEF numberVars, NumberInv, PendingIsCurrent, TakenIsCurrent, CheckedMaySend, LastIsStatus,
         HeldIsNumbered, Numbers, StagedPosition, MaySend, Held, InHands, StatusOf, IsPosition

\* What was checked does not depend on the adapter any more.
LEMMA CheckedStays ==
  ASSUME NumberInv, UNCHANGED published,
         worker' = worker \/ worker' = None \/ (worker' # None /\ worker'.step = "taken")
  PROVE  CheckedMaySend'
<1>1. CASE worker' = worker
  BY <1>1 DEF NumberInv, CheckedMaySend, MaySend, IsPosition
<1>2. CASE worker' = None \/ (worker' # None /\ worker'.step = "taken")
  BY <1>2 DEF CheckedMaySend
<1> QED
  BY <1>1, <1>2

\* No position is taken.
NoPositionTaken == worker # None /\ worker.step = "taken" => ~IsPosition(worker.publication)

LEMMA OutdatedTakesNone ==
  ASSUME worker' = Outdated
  PROVE  NoPositionTaken' /\ worker' \in {worker, None}
  BY DEF Outdated, NoPositionTaken, IsPosition

\* A step that gives the grant up drops what is staged and what is taken.
LEMMA NumbersDrop ==
  ASSUME NumberInv, UNCHANGED <<published, lastSourceStatus>>, grant' = None, pending' = {},
         worker' \in {worker, None}, NoPositionTaken'
  PROVE  NumberInv'
<1>1. CheckedMaySend'
  BY CheckedStays
<1>2. PendingIsCurrent' /\ TakenIsCurrent'
  BY DEF PendingIsCurrent, TakenIsCurrent, NoPositionTaken
<1>3. LastIsStatus' /\ HeldIsNumbered'
  BY DEF NumberInv, LastIsStatus, HeldIsNumbered, Held, IsPosition
<1> QED
  BY <1>1, <1>2, <1>3 DEF NumberInv

\* While the source is closed, nothing but the last status is staged.
LEMMA ClosedStages ==
  ASSUME NumberInv, noFixClosed
  PROVE  /\ \A p \in pending : ~IsPosition(p) /\ p = lastSourceStatus
         /\ NoPositionTaken
  BY DEF NumberInv, PendingIsCurrent, TakenIsCurrent, StagedPosition, NoPositionTaken

\* A source status is told, with a number that the stream has not seen.
LEMMA StatusTold ==
  ASSUME NumberInv, UNCHANGED published, noFixClosed' = TRUE,
         NEW status, status # None, ~IsPosition(status),
         lastSourceStatus' = status, sourceSequence' = status.sequence,
         status.sequence \in Int,
         \A p \in pending' : p = status,
         worker' \in {worker, None}, NoPositionTaken',
         \A s \in Streams : published[s].sequence \in Int,
         worker # None => worker.publication.sequence \in Int,
         \A s \in Streams : Held(s)' =>
           /\ published[s].sequence < status.sequence
           /\ InHands(s) => worker.publication.sequence < status.sequence
  PROVE  NumberInv'
<1>1. CheckedMaySend'
  BY CheckedStays
<1>2. PendingIsCurrent' /\ TakenIsCurrent' /\ LastIsStatus'
  BY DEF PendingIsCurrent, TakenIsCurrent, NoPositionTaken, LastIsStatus, IsPosition
<1>3. ASSUME NEW s \in Streams, Held(s)'
      PROVE  Numbers(s)'
  <2>1. /\ published'[s] = published[s] /\ published[s].sequence \in Int
        /\ published[s].sequence < status.sequence
    BY <1>3
  <2>2. ASSUME InHands(s)'
        PROVE  /\ worker' = worker /\ worker.publication.sequence \in Int
               /\ worker.publication.sequence < status.sequence
    BY <1>3, <2>2 DEF InHands
  <2> QED
    BY <2>1, <2>2 DEF Numbers, StatusOf
<1>4. HeldIsNumbered'
  BY <1>3 DEF HeldIsNumbered, Streams
<1> QED
  BY <1>1, <1>2, <1>4 DEF NumberInv

\* The source is closed, and there is nobody to tell.
LEMMA ClosedStays ==
  ASSUME NumberInv, noFixClosed' = TRUE,
         UNCHANGED <<published, lastSourceStatus, sourceSequence, grant>>,
         \A p \in pending' : p = lastSourceStatus /\ ~IsPosition(p),
         worker' \in {worker, None}, NoPositionTaken'
  PROVE  NumberInv'
<1>1. CheckedMaySend'
  BY CheckedStays
<1>2. PendingIsCurrent' /\ TakenIsCurrent' /\ LastIsStatus'
  BY DEF NumberInv, PendingIsCurrent, TakenIsCurrent, NoPositionTaken, LastIsStatus, IsPosition
<1>3. ASSUME NEW s \in Streams, Held(s)'
      PROVE  Numbers(s)'
  BY <1>3 DEF NumberInv, HeldIsNumbered, Numbers, Held, StatusOf, InHands
<1>4. HeldIsNumbered'
  BY <1>3 DEF HeldIsNumbered, Streams
<1> QED
  BY <1>1, <1>2, <1>4 DEF NumberInv

LEMMA RetryStays ==
  ASSUME NumberInv, Retry,
         UNCHANGED <<published, worker, lastSourceStatus, sourceSequence, noFixClosed, grant>>
  PROVE  NumberInv'
<1>1. \A p \in pending' : p \in pending \/ (p = lastSourceStatus /\ ~IsPosition(p))
  BY DEF Retry, Queue, NumberInv, LastIsStatus
<1>2. PendingIsCurrent'
  BY <1>1 DEF NumberInv, PendingIsCurrent, StagedPosition, Held, InHands, IsPosition
<1>3. TakenIsCurrent' /\ CheckedMaySend' /\ LastIsStatus'
  BY DEF NumberInv, TakenIsCurrent, CheckedMaySend, LastIsStatus, StagedPosition, MaySend, Held,
         IsPosition
<1>4. HeldIsNumbered'
  BY DEF NumberInv, HeldIsNumbered, Numbers, Held, StatusOf, InHands, IsPosition
<1> QED
  BY <1>2, <1>3, <1>4 DEF NumberInv

\* The numbers, one by one.
LEMMA Numeric ==
  ASSUME TypeOK
  PROVE  /\ sourceSequence \in Int
         /\ \A s \in Streams : published[s].sequence \in Int
         /\ \A p \in pending : p \in Publication /\ p # None
         /\ \A p \in Publication : p.sequence \in Int /\ p.sequence > 0 /\ p.stream \in Streams
         /\ worker # None => worker \in Handed /\ worker.publication \in Publication
         /\ lastSourceStatus # None => lastSourceStatus \in Publication
<1>1. sourceSequence \in Int /\ (lastSourceStatus # None => lastSourceStatus \in Publication)
  BY TypeParts, Bounds DEF SourceType
<1>2. \A s \in Streams : published[s].sequence \in Int
  BY TypeParts, Bounds DEF HistoryType
<1>3. \A p \in pending : p \in Publication /\ p # None
  BY TypeParts, Bounds DEF PendingType
<1>4. \A p \in Publication : p.sequence \in Int /\ p.sequence > 0 /\ p.stream \in Streams
  BY Bounds DEF Publication
<1>5. worker # None => worker \in Handed /\ worker.publication \in Publication
  BY TypeParts DEF WorkerType, Handed
<1> QED
  BY <1>1, <1>2, <1>3, <1>4, <1>5

\* A stream that is entered was never numbered.
LEMMA NewIsUnused ==
  ASSUME TypeOK, EntersUnused, NEW offer \in offers,
         HandleGrant(offer.challenge, offer.grant), NewStream(offer.grant)
  PROVE  Unused(offer.grant.stream)
<1>1. grant' = offer.grant /\ offer.grant # None
  BY Bounds, TypeParts DEF HandleGrant, ServerType
<1> QED
  BY <1>1 DEF EntersUnused, NewStream

LEMMA GrantNumbers ==
  ASSUME TypeOK, EntersUnused, NumberInv, NEW offer \in offers,
         HandleGrant(offer.challenge, offer.grant)
  PROVE  NumberInv'
<1> DEFINE control == offer.grant
           new == NewStream(control)
           last == IF new THEN 0 ELSE sourceSequence
           kept == IF new THEN {} ELSE pending
           closed == noFixClosed /\ ~ReopensSource(control)
<1>1. control \in Control /\ control # None /\ control.stream \in Streams
  BY TypeParts, Bounds DEF ServerType, Control
<1>2. /\ grant' = control /\ noFixClosed' = closed /\ UNCHANGED published
      /\ worker' = IF new THEN Outdated ELSE worker
  BY DEF HandleGrant, historyVars
<1>3. worker' \in {worker, None}
  BY <1>2, OutdatedTakesNone
<1>4. ASSUME NEW s \in Streams, Held(s)'
      PROVE  /\ s = control.stream
             /\ published[s].sequence <= last
             /\ InHands(s) => worker.publication.sequence <= last
  <2>1. s = control.stream
    BY <1>2, <1>4 DEF Held
  <2>2. CASE new
    BY <2>1, <2>2, NewIsUnused, Numeric DEF Unused
  <2>3. CASE ~new
    BY <2>1, <2>3 DEF NewStream, NumberInv, HeldIsNumbered, Numbers, Held
  <2> QED
    BY <2>1, <2>2, <2>3
<1>5. CASE closed
  <2> DEFINE status == NextPublication("no_fix", control, last + 1)
  <2>1. last \in Nat /\ last + 1 \in 1..MaxSequence
    <3>1. last \in 0..MaxSequence /\ last < MaxSequence
      BY <1>5, TypeParts, Bounds DEF SourceType, HandleGrant
    <3> QED
      BY <3>1, Bounds
  <2>2. status \in Publication /\ status.sequence = last + 1 /\ ~IsPosition(status)
    BY <1>1, <2>1, NextType DEF NextPublication, IsPosition
  <2>3. lastSourceStatus' = status /\ sourceSequence' = status.sequence
        /\ Queue(StatusesDropped(kept), status)
    BY <1>5 DEF HandleGrant, PublishSourceStatus
  <2>4. \A p \in pending' : p = status
    BY <1>5, <2>3, ClosedStages DEF Queue, StatusesDropped
  <2>5. NoPositionTaken'
    BY <1>2, <1>5, ClosedStages, OutdatedTakesNone DEF NoPositionTaken, IsPosition
  <2>6. ASSUME NEW s \in Streams, Held(s)'
        PROVE  /\ published[s].sequence < status.sequence
               /\ InHands(s) => worker.publication.sequence < status.sequence
    <3>1. published[s].sequence \in Int /\ (InHands(s) => worker.publication.sequence \in Int)
      BY Numeric DEF InHands
    <3> HIDE DEF last, status
    <3> QED
      BY <1>4, <2>1, <2>2, <2>6, <3>1
  <2>7. status # None /\ status.sequence \in Int
    BY <2>1, <2>2, Bounds
  <2> HIDE DEF last, status, closed, new
  <2> QED
    BY <1>2, <1>3, <1>5, <2>2, <2>3, <2>4, <2>5, <2>6, <2>7, Numeric, StatusTold
<1>6. CASE ~closed
  <2>1. sourceSequence' = last /\ pending' = kept /\ UNCHANGED lastSourceStatus
    BY <1>6 DEF HandleGrant, Leave
  <2>2. CheckedMaySend' /\ LastIsStatus'
    BY <1>2, <1>3, <2>1, CheckedStays DEF NumberInv, LastIsStatus, IsPosition
  <2>3. CASE new
    <3>1. PendingIsCurrent' /\ TakenIsCurrent'
      BY <1>2, <2>1, <2>3, OutdatedTakesNone DEF PendingIsCurrent, TakenIsCurrent, NoPositionTaken
    <3>2. ASSUME NEW s \in Streams, Held(s)'
          PROVE  Numbers(s)'
      <4>1. Unused(s)
        BY <1>4, <2>3, <3>2, NewIsUnused
      <4> QED
        BY <1>2, <1>3, <2>1, <2>3, <4>1 DEF Unused, Numbers, StatusOf, InHands
    <3>3. HeldIsNumbered'
      BY <3>2 DEF HeldIsNumbered, Streams
    <3> QED
      BY <2>2, <3>1, <3>3 DEF NumberInv
  <2>4. CASE ~new
    <3>1. /\ grant # None /\ control.stream = grant.stream /\ ~noFixClosed /\ ~noFixClosed'
          /\ UNCHANGED <<worker, pending, sourceSequence, lastSourceStatus, published>>
      BY <1>2, <1>6, <2>1, <2>4 DEF NewStream, ReopensSource
    <3>2. \A s \in Streams : Held(s)' <=> Held(s)
      BY <1>1, <1>2, <3>1 DEF Held
    <3>3. PendingIsCurrent' /\ TakenIsCurrent'
      BY <1>1, <1>2, <3>1
         DEF NumberInv, PendingIsCurrent, TakenIsCurrent, StagedPosition, Held, InHands,
                        IsPosition
    <3>4. HeldIsNumbered'
      BY <3>1, <3>2
         DEF NumberInv, HeldIsNumbered, Numbers, StatusOf, InHands, IsPosition, Streams, Held
    <3> QED
      BY <2>2, <3>3, <3>4 DEF NumberInv
  <2> QED
    BY <2>3, <2>4
<1> QED
  BY <1>5, <1>6

LEMMA NewFixNumbers ==
  ASSUME TypeOK, NumberInv, NewFix
  PROVE  NumberInv'
<1>1. UNCHANGED <<published, grant, worker, noFixClosed>>
  BY DEF NewFix, historyVars, grantVars
<1>2. noFixClosed \in BOOLEAN /\ sourceSequence \in 0..MaxSequence
  BY TypeParts DEF SourceType
<1>3. ASSUME CanTell, sourceSequence < MaxSequence, NEW kind \in {"position", "fix_available"}
      PROVE  LET p == NextPublication(kind, grant, sourceSequence + 1)
             IN  /\ p \in Publication /\ p # None /\ p.sequence = sourceSequence + 1
                 /\ p.stream = grant.stream /\ Held(p.stream) /\ p.kind = kind
  <2>1. grant \in Control /\ grant # None
    BY <1>3, SharedTypes DEF CanTell, GrantCurrent
  <2>2. sourceSequence + 1 \in 1..MaxSequence
    BY <1>2, <1>3, Bounds
  <2>3. NextPublication(kind, grant, sourceSequence + 1) \in Publication
    BY <2>1, <2>2, NextType
  <2> QED
    BY <2>1, <2>3, Bounds DEF NextPublication, Held
<1>4. ASSUME NEW s \in Streams, Held(s)
      PROVE  /\ published[s].sequence <= sourceSequence
             /\ InHands(s) => worker.publication.sequence <= sourceSequence
             /\ published[s].sequence \in Int
             /\ InHands(s) => worker.publication.sequence \in Int
  BY <1>4, Numeric DEF NumberInv, HeldIsNumbered, Numbers, InHands
<1>5. CASE /\ noFixClosed /\ CanTell /\ sourceSequence < MaxSequence
           /\ PublishSourceStatus(
                NextPublication("fix_available", grant, sourceSequence + 1), pending)
  <2> DEFINE status == NextPublication("fix_available", grant, sourceSequence + 1)
  <2>1. /\ status \in Publication /\ status # None
        /\ status.sequence = sourceSequence + 1 /\ ~IsPosition(status)
    BY <1>3, <1>5 DEF IsPosition
  <2>2. lastSourceStatus' = status /\ sourceSequence' = status.sequence
        /\ \A p \in pending' : p = status
    BY <1>5, ClosedStages DEF PublishSourceStatus, Queue, StatusesDropped
  <2>3. NoPositionTaken'
    BY <1>1, <1>5, ClosedStages DEF NoPositionTaken, IsPosition
  <2> HIDE DEF status
  <2>4. ASSUME NEW s \in Streams, Held(s)'
        PROVE  /\ published[s].sequence < status.sequence
               /\ InHands(s) => worker.publication.sequence < status.sequence
    <3>1. Held(s)
      BY <1>1, <2>4 DEF Held
    <3> QED
      BY <1>2, <1>4, <2>1, <3>1
  <2> QED
    BY <1>1, <1>5, <2>1, <2>2, <2>3, <2>4, Numeric, StatusTold
<1>6. CASE Retry /\ UNCHANGED <<lastSourceStatus, sourceSequence>>
  BY <1>1, <1>6, RetryStays
<1>7. CASE /\ ~noFixClosed /\ CanTell /\ sourceSequence < MaxSequence
           /\ sourceSequence' = sourceSequence + 1
           /\ Queue(pending, NextPublication("position", grant, sourceSequence + 1))
           /\ UNCHANGED lastSourceStatus
  <2>0. PICK p : p = NextPublication("position", grant, sourceSequence + 1)
    OBVIOUS
  <2>1. /\ p \in Publication /\ p.sequence = sourceSequence + 1 /\ p.stream = grant.stream
        /\ Held(p.stream) /\ IsPosition(p) /\ p.stream \in Streams
    BY <1>3, <1>7, <2>0, Numeric DEF IsPosition
  <2>2. \A q \in pending' : q = p \/ (q \in pending /\ ~IsPosition(q))
    BY <1>7, <2>0, <2>1 DEF Queue, IsPosition
  <2>3. /\ published[p.stream].sequence < p.sequence
        /\ InHands(p.stream) => worker.publication.sequence < p.sequence
    BY <1>2, <1>4, <2>1
  <2>4. PendingIsCurrent'
    <3>1. StagedPosition(p)' /\ (InHands(p.stream)' => worker'.publication.sequence < p.sequence)
      BY <1>1, <1>2, <1>7, <2>1, <2>3 DEF StagedPosition, Held, InHands
    <3>2. \A q \in pending' : IsPosition(q) => q = p
      BY <2>2
    <3>3. \A q \in pending' : ~IsPosition(q) => q = lastSourceStatus'
      BY <1>7, <2>1, <2>2 DEF NumberInv, PendingIsCurrent
    <3> QED
      BY <3>1, <3>2, <3>3 DEF PendingIsCurrent, IsPosition
  <2>5. TakenIsCurrent'
    <3>1. SUFFICES ASSUME worker # None, worker.step = "taken", IsPosition(worker.publication)
                   PROVE  StagedPosition(worker.publication)'
      BY <1>1 DEF TakenIsCurrent, IsPosition
    <3>2. StagedPosition(worker.publication) /\ worker.publication.sequence \in Int
      BY <3>1, Numeric DEF NumberInv, TakenIsCurrent
    <3>3. worker.publication.sequence <= sourceSequence + 1
      BY <1>2, <3>2 DEF StagedPosition
    <3> QED
      BY <1>1, <1>7, <3>2, <3>3 DEF StagedPosition, Held
  <2>6. ASSUME NEW s \in Streams, Held(s)'
        PROVE  Numbers(s)'
    <3>1. Held(s) /\ Numbers(s)
      BY <1>1, <2>6 DEF Held, NumberInv, HeldIsNumbered
    <3>2. /\ published[s].sequence <= sourceSequence + 1
          /\ InHands(s) => worker.publication.sequence <= sourceSequence + 1
      BY <1>2, <1>4, <3>1
    <3>3. ~StatusOf(s)
      BY <1>7, <3>1 DEF Numbers
    <3> QED
      BY <1>1, <1>7, <3>1, <3>2, <3>3 DEF Numbers, StatusOf, InHands, IsPosition
  <2>7. HeldIsNumbered'
    BY <2>6 DEF HeldIsNumbered, Streams
  <2>8. CheckedMaySend' /\ LastIsStatus'
    BY <1>1, <1>7, CheckedStays DEF NumberInv, LastIsStatus, IsPosition
  <2> QED
    BY <2>4, <2>5, <2>7, <2>8 DEF NumberInv
<1> QED
  BY <1>5, <1>6, <1>7 DEF NewFix

LEMMA CloseSourceFixNumbers ==
  ASSUME TypeOK, NumberInv, CloseSourceFix
  PROVE  NumberInv'
<1>1. UNCHANGED <<published, grant>> /\ worker' = Outdated
  BY DEF CloseSourceFix, historyVars, grantVars
<1>2. NoPositionTaken' /\ worker' \in {worker, None}
  BY <1>1, OutdatedTakesNone
<1>3. \A p \in PositionsDropped(pending) : p = lastSourceStatus /\ ~IsPosition(p)
  BY DEF PositionsDropped, NumberInv, PendingIsCurrent
<1>4. CASE noFixClosed /\ UNCHANGED sourceVars /\ (Leave(PositionsDropped(pending)) \/ Retry)
  <2>1. \A p \in pending' : p = lastSourceStatus /\ ~IsPosition(p)
    BY <1>3, <1>4, ClosedStages DEF Retry, Queue, Leave, NumberInv, LastIsStatus
  <2>2. noFixClosed \in BOOLEAN
    BY TypeParts DEF SourceType
  <2>3. noFixClosed' = TRUE
    BY <1>4, <2>2 DEF sourceVars
  <2> QED
    BY <1>1, <1>2, <1>4, <2>1, <2>3, ClosedStays DEF sourceVars
<1>5. CASE /\ noFixClosed' = TRUE /\ Leave(PositionsDropped(pending))
           /\ UNCHANGED <<lastSourceStatus, sourceSequence>>
  BY <1>1, <1>2, <1>3, <1>5, ClosedStays DEF Leave
<1>6. CASE /\ noFixClosed' = TRUE /\ CanTell /\ sourceSequence < MaxSequence
           /\ PublishSourceStatus(NextPublication("no_fix", grant, sourceSequence + 1),
                                  PositionsDropped(pending))
  <2> DEFINE status == NextPublication("no_fix", grant, sourceSequence + 1)
  <2>1. grant \in Control /\ sourceSequence + 1 \in 1..MaxSequence
    BY <1>6, SharedTypes, TypeParts, Bounds DEF CanTell, GrantCurrent, SourceType
  <2>2. status \in Publication
    BY <2>1, NextType
  <2>3. status # None /\ status.sequence = sourceSequence + 1 /\ ~IsPosition(status)
    BY <2>2, Bounds DEF NextPublication, IsPosition
  <2>4. lastSourceStatus' = status /\ sourceSequence' = status.sequence
        /\ \A p \in pending' : p = status
    BY <1>6 DEF PublishSourceStatus, Queue, StatusesDropped, PositionsDropped
  <2> HIDE DEF status
  <2>5. ASSUME NEW s \in Streams, Held(s)'
        PROVE  /\ published[s].sequence < status.sequence
               /\ InHands(s) => worker.publication.sequence < status.sequence
    <3>1. Held(s) /\ Numbers(s)
      BY <1>1, <2>5 DEF Held, NumberInv, HeldIsNumbered
    <3>2. /\ published[s].sequence \in Int /\ (InHands(s) => worker.publication.sequence \in Int)
          /\ sourceSequence \in Int
      BY Numeric DEF InHands
    <3> QED
      BY <2>3, <3>1, <3>2 DEF Numbers
  <2> QED
    BY <1>1, <1>2, <1>6, <2>2, <2>3, <2>4, <2>5, Numeric, StatusTold
<1> QED
  <2> DEFINE told == noFixClosed /\ (lastSourceStatus = None \/ lastSourceStatus.kind # "fix_available")
  <2>1. CASE told
    BY <1>4, <2>1 DEF CloseSourceFix
  <2>2. CASE ~told
    <3>1. CASE CanTell
      BY <1>6, <2>2, <3>1 DEF CloseSourceFix
    <3>2. CASE ~CanTell
      BY <1>5, <2>2, <3>2 DEF CloseSourceFix
    <3> QED
      BY <3>1, <3>2
  <2> QED
    BY <2>1, <2>2

\* A staged position excludes a status of its stream.
LEMMA StagedExcludes ==
  ASSUME NumberInv, NEW s \in Streams, NEW p, p.stream = s, StagedPosition(p)
  PROVE  Held(s) /\ Numbers(s) /\ ~StatusOf(s) /\ ~noFixClosed
  BY DEF NumberInv, HeldIsNumbered, StagedPosition, Numbers

LEMMA TakeNumbers ==
  ASSUME TypeOK, NumberInv, Take
  PROVE  NumberInv'
<1>1. PICK p \in pending :
        /\ worker' = [step |-> "taken", publication |-> p]
        /\ pending' = pending \ {p}
  BY DEF Take, Leave
<1>2. /\ p \in Publication /\ p.stream \in Streams /\ p # None
      /\ worker' # None /\ worker'.step = "taken" /\ worker'.publication = p
  <2>1. p \in Publication /\ p.stream \in Streams /\ p # None
    BY Numeric
  <2>2. worker' \in Handed /\ worker'.step = "taken" /\ worker'.publication = p
    BY <1>1, <2>1 DEF Handed
  <2> QED
    BY <2>1, <2>2, Bounds
<1>3. UNCHANGED <<published, grant, lastSourceStatus, sourceSequence, noFixClosed>>
  BY DEF Take, grantVars, sourceVars, historyVars
<1>4. IF IsPosition(p) THEN StagedPosition(p) ELSE p = lastSourceStatus
  BY DEF NumberInv, PendingIsCurrent
<1>5. CheckedMaySend' /\ LastIsStatus'
  BY <1>2, <1>3, CheckedStays DEF NumberInv, LastIsStatus, IsPosition
<1>6. TakenIsCurrent'
  BY <1>2, <1>3, <1>4 DEF TakenIsCurrent, StagedPosition, Held, IsPosition
<1>7. PendingIsCurrent'
  <2>1. ASSUME NEW q \in pending', IsPosition(q)
        PROVE  StagedPosition(q)' /\ ~InHands(q.stream)'
    <3>1. q \in pending /\ q # p /\ ~IsPosition(p)
      BY <1>1, <2>1, TypeParts DEF PendingType, IsPosition
    <3>2. StagedPosition(q) /\ q.stream \in Streams
      BY <2>1, <3>1, Numeric DEF NumberInv, PendingIsCurrent
    <3>3. ~StatusOf(q.stream)
      BY <3>2, StagedExcludes
    <3>4. p.stream # q.stream
      BY <1>2, <1>4, <3>1, <3>3 DEF StatusOf
    <3> QED
      BY <1>2, <1>3, <3>2, <3>4 DEF StagedPosition, Held, InHands
  <2>2. ASSUME NEW q \in pending', ~IsPosition(q)
        PROVE  q = lastSourceStatus'
    BY <1>1, <1>3, <2>2 DEF NumberInv, PendingIsCurrent
  <2> QED
    BY <2>1, <2>2 DEF PendingIsCurrent, IsPosition
<1>8. ASSUME NEW s \in Streams, Held(s)'
      PROVE  Numbers(s)'
  <2>1. Held(s) /\ Numbers(s)
    BY <1>3, <1>8 DEF Held, NumberInv, HeldIsNumbered
  <2>2. CASE p.stream # s
    BY <1>2, <1>3, <2>1, <2>2 DEF Numbers, StatusOf, InHands
  <2>3. CASE p.stream = s /\ IsPosition(p)
    <3>1. ~StatusOf(s) /\ ~noFixClosed /\ p.sequence <= sourceSequence
      BY <1>4, <2>3, StagedExcludes DEF StagedPosition
    <3> QED
      BY <1>2, <1>3, <2>1, <2>3, <3>1 DEF Numbers, StatusOf, InHands, IsPosition
  <2>4. CASE p.stream = s /\ ~IsPosition(p)
    <3>1. p = lastSourceStatus /\ StatusOf(s)
      BY <1>2, <1>4, <2>4 DEF StatusOf
    <3>2. noFixClosed /\ p.sequence = sourceSequence /\ sourceSequence \in Int
      BY <2>1, <3>1, Numeric DEF Numbers
    <3> QED
      BY <1>2, <1>3, <2>1, <3>1, <3>2 DEF Numbers, StatusOf, InHands, IsPosition
  <2> QED
    BY <2>2, <2>3, <2>4
<1>9. HeldIsNumbered'
  BY <1>8 DEF HeldIsNumbered, Streams
<1> QED
  BY <1>5, <1>6, <1>7, <1>9 DEF NumberInv

\* What the check lets through may be sent.
LEMMA CheckNumbers ==
  ASSUME TypeOK, NumberInv, Check
  PROVE  NumberInv'
<1>1. UNCHANGED <<published, pending, grant, lastSourceStatus, sourceSequence, noFixClosed>>
  BY DEF Check, grantVars, sourceVars, historyVars
<1> DEFINE p == worker.publication
<1>2. worker # None /\ worker \in Handed /\ p \in Publication /\ p.stream \in Streams
  BY Numeric DEF Check
<1>3. worker' = None \/ (worker' # None /\ worker'.step = "checked" /\ worker'.publication = p)
  BY <1>2, Bounds DEF Check, Handed
<1>4. ASSUME worker' # None
      PROVE  MaySend(p)
  <2>1. Authorized(p) /\ Held(p.stream) /\ worker.step = "taken"
    BY <1>4 DEF Check, Authorized, GrantCurrent, Held
  <2>2. Numbers(p.stream)
    BY <1>2, <2>1 DEF NumberInv, HeldIsNumbered
  <2>3. published[p.stream].sequence \in Int /\ p.sequence \in Int /\ sourceSequence \in Int
    BY <1>2, Numeric
  <2>4. CASE IsPosition(p)
    <3>1. StagedPosition(p) /\ ~noFixClosed
      BY <1>2, <2>1, <2>4 DEF NumberInv, TakenIsCurrent, StagedPosition
    <3> QED
      BY <2>2, <2>3, <3>1 DEF MaySend, StagedPosition, Numbers
  <2>5. CASE ~IsPosition(p)
    <3>1. StatusOf(p.stream) /\ p = lastSourceStatus
      BY <1>2, <2>1, <2>5, Bounds DEF Authorized, StatusOf
    <3> QED
      BY <2>2, <2>3, <2>5, <3>1 DEF MaySend, Numbers
  <2> QED
    BY <2>4, <2>5
<1>5. CheckedMaySend'
  BY <1>1, <1>3, <1>4 DEF CheckedMaySend, MaySend, IsPosition
<1>6. \A s : InHands(s)' => InHands(s) /\ worker'.publication = worker.publication
  BY <1>2, <1>3 DEF InHands
<1>7. PendingIsCurrent' /\ TakenIsCurrent' /\ LastIsStatus'
  BY <1>1, <1>3, <1>6 DEF NumberInv, PendingIsCurrent, TakenIsCurrent, LastIsStatus,
                          StagedPosition, Held, IsPosition
<1>8. ASSUME NEW s \in Streams, Held(s)'
      PROVE  Numbers(s)'
  <2>1. Numbers(s)
    BY <1>1, <1>8 DEF Held, NumberInv, HeldIsNumbered
  <2> QED
    BY <1>1, <1>6, <2>1 DEF Numbers, StatusOf, IsPosition
<1>9. HeldIsNumbered'
  BY <1>8 DEF HeldIsNumbered, Streams
<1> QED
  BY <1>5, <1>7, <1>9 DEF NumberInv

LEMMA PublishNumbers ==
  ASSUME TypeOK, NumberInv, Publish
  PROVE  NumberInv'
<1>1. UNCHANGED <<pending, grant, lastSourceStatus, sourceSequence, noFixClosed>> /\ worker' = None
  BY DEF Publish, grantVars, sourceVars
<1> DEFINE p == worker.publication
<1>2. worker # None /\ p \in Publication /\ p.stream \in Streams
  BY Numeric DEF Publish
<1>3. /\ published'[p.stream].kind = p.kind /\ published'[p.stream].sequence = p.sequence
      /\ \A s \in Streams : s # p.stream => published'[s] = published[s]
  <2>1. published' = [published EXCEPT ![p.stream] = [kind |-> p.kind, sequence |-> p.sequence]]
    BY DEF Publish
  <2>2. DOMAIN published = Streams
    BY TypeParts DEF HistoryType
  <2> QED
    BY <1>2, <2>1, <2>2
<1>4. CheckedMaySend' /\ TakenIsCurrent' /\ LastIsStatus'
  BY <1>1 DEF CheckedMaySend, TakenIsCurrent, NumberInv, LastIsStatus, IsPosition
<1>5. PendingIsCurrent'
  <2>1. ASSUME NEW q \in pending, IsPosition(q)
        PROVE  StagedPosition(q)'
    <3>1. StagedPosition(q) /\ q.stream \in Streams /\ (q.stream = p.stream => p.sequence < q.sequence)
      BY <1>2, <2>1, Numeric DEF NumberInv, PendingIsCurrent, InHands
    <3> QED
      BY <1>1, <1>3, <3>1 DEF StagedPosition, Held
  <2> QED
    BY <1>1, <2>1 DEF NumberInv, PendingIsCurrent, InHands, IsPosition
<1>6. ASSUME NEW s \in Streams, Held(s)'
      PROVE  Numbers(s)'
  <2>1. Numbers(s)
    BY <1>1, <1>6 DEF Held, NumberInv, HeldIsNumbered
  <2>2. CASE s # p.stream
    BY <1>1, <1>3, <2>1, <2>2 DEF Numbers, StatusOf, InHands
  <2>3. CASE s = p.stream
    <3>1. InHands(s)
      BY <1>2, <2>3 DEF InHands
    <3> QED
      BY <1>1, <1>3, <2>1, <2>3, <3>1 DEF Numbers, StatusOf, InHands, IsPosition
  <2> QED
    BY <2>2, <2>3
<1>7. HeldIsNumbered'
  BY <1>6 DEF HeldIsNumbered, Streams
<1> QED
  BY <1>4, <1>5, <1>7 DEF NumberInv

LEMMA NumberStep ==
  ASSUME TypeOK, NumberInv, [Next]_vars, [EntersUnused]_vars
  PROVE  NumberInv'
<1>same. CASE UNCHANGED vars
  BY <1>same, NumbersStay DEF vars, numberVars, grantVars, sourceVars, egressVars, historyVars
<1>s. SUFFICES ASSUME Next, EntersUnused
               PROVE  NumberInv'
  BY <1>same
<1>1. CASE OnConnected \/ OnDisconnected
  <2>1. /\ UNCHANGED <<published, lastSourceStatus>> /\ grant' = None /\ pending' = {}
        /\ worker' \in {worker, None} /\ NoPositionTaken'
    BY <1>1
       DEF OnConnected, OnDisconnected, ResetConnection, DropGrant, sourceVars, Leave, NoPositionTaken
  <2> QED
    BY <2>1, NumbersDrop
<1>2. CASE GateOpens \/ GrantLapses
  BY <1>2, NumbersStay DEF GateOpens, GrantLapses, numberVars, grantVars, sourceVars, egressVars,
                           historyVars
<1>3. CASE GateCloses
  BY <1>3, OutdatedTakesNone, NumbersDrop DEF GateCloses, ClearGrant, DropGrant, sourceVars, Leave
<1>4. CASE ReceiveActivity
  <2>1. PICK new : AcceptActivity(new)
    BY <1>4 DEF ReceiveActivity
  <2>2. CASE new.active
    BY <2>1, <2>2, NumbersStay DEF AcceptActivity, numberVars, sourceVars, egressVars
  <2>3. CASE ~new.active
    BY <2>1, <2>3, OutdatedTakesNone, NumbersDrop
       DEF AcceptActivity, ClearGrant, DropGrant, sourceVars, Leave
  <2> QED
    BY <2>2, <2>3
<1>5. CASE Server
  BY <1>5, NumbersStay DEF Server, numberVars, grantVars, sourceVars, egressVars, historyVars
<1>6. CASE HandleControl
  <2>1. ASSUME NEW control \in clears, HandleClear(control)
        PROVE  NumberInv'
    <3>1. CASE grant # None
      BY <2>1, <3>1, OutdatedTakesNone, NumbersDrop
         DEF HandleClear, ClearNamedGrant, ClearGrant, DropGrant, sourceVars, Leave
    <3>2. CASE grant = None
      BY <2>1, <3>2, NumbersStay DEF HandleClear, numberVars, grantVars, sourceVars, egressVars
    <3> QED
      BY <3>1, <3>2
  <2> QED
    BY <1>6, <1>s, <2>1, GrantNumbers DEF HandleControl
<1>7. CASE ExpireLease
  <2>1. CASE ClearGrant
    BY <1>7, <2>1, OutdatedTakesNone, NumbersDrop
       DEF ExpireLease, ClearGrant, DropGrant, sourceVars, Leave
  <2>2. CASE Retry /\ UNCHANGED <<grantVars, worker>>
    BY <1>7, <2>2, RetryStays DEF ExpireLease, grantVars, sourceVars
  <2> QED
    BY <1>7, <2>1, <2>2 DEF ExpireLease
<1> QED
  BY <1>1, <1>2, <1>3, <1>4, <1>5, <1>6, <1>7, <1>s, NewFixNumbers, CloseSourceFixNumbers,
     TakeNumbers, CheckNumbers, PublishNumbers DEF Next

SequenceInv == TypeOK /\ NumberInv

LEMMA SequenceInit == Init => SequenceInv
<1> SUFFICES ASSUME Init
             PROVE  SequenceInv
  OBVIOUS
<1>1. NumberInv
  BY DEF Init, NumberInv, PendingIsCurrent, TakenIsCurrent, CheckedMaySend, LastIsStatus,
         HeldIsNumbered, Held
<1> QED
  BY <1>1, TypeInit DEF SequenceInv

LEMMA SequenceNext == SequenceInv /\ [Next]_vars /\ [EntersUnused]_vars => SequenceInv'
  BY TypeStep, NumberStep DEF SequenceInv

\* What is handed to the MQTT client was checked, and may be sent.
LEMMA PublishedMaySend ==
  ASSUME SequenceInv, Publishes
  PROVE  MaySend(worker.publication)
  BY DEF SequenceInv, NumberInv, CheckedMaySend, Publishes

\* Whatever the sessions, the clears and the late grants: as long as every stream
\* that is entered is an unused one, positions and source statuses share one
\* increasing sequence on each stream.
THEOREM SequenceOfNewStreams == Spec /\ [][EntersUnused]_vars => SequenceIncreases
<1>1. SequenceInv /\ [Next]_vars =>
        [Publishes =>
           LET p == worker.publication
               last == published[p.stream]
           IN \/ p.sequence > last.sequence
              \/ p.sequence = last.sequence /\ p.kind = last.kind /\ ~IsPosition(p)]_vars
  BY PublishedMaySend DEF MaySend
<1> QED
  BY <1>1, SequenceInit, SequenceNext, PTL DEF Spec, SequenceIncreases

\* Whatever the sessions, the clears and the late grants: as long as every stream
\* that is entered is an unused one, no position follows on a stream whose loss of
\* the fix was told.
THEOREM LossOnNewStreams == Spec /\ [][EntersUnused]_vars => NoPositionAfterLoss
<1>1. SequenceInv /\ [Next]_vars =>
        [Publishes =>
           LET p == worker.publication
               last == published[p.stream]
           IN IsPosition(p) => last.kind \in {"nothing", "position"}]_vars
  BY PublishedMaySend DEF MaySend
<1> QED
  BY <1>1, SequenceInit, SequenceNext, PTL DEF Spec, NoPositionAfterLoss

(***************************************************************************)
(* One session                                                             *)
(***************************************************************************)

OneSessionInv == SequenceInv /\ ClearInv /\ GrantInv

LEMMA OneSessionInit == Init => OneSessionInv
<1> SUFFICES ASSUME Init
             PROVE  GrantInv
  BY SequenceInit, ClearInit DEF OneSessionInv
<1>1. ASSUME NEW s \in Streams
      PROVE  Unused(s)
  BY DEF Init, Unused, InHands, StatusOf
<1> QED
  BY <1>1 DEF Init, GrantInv, GrantedOnce, OffersAreOpened

LEMMA OneSessionNext ==
  ASSUME OneSession
  PROVE  OneSessionInv /\ [Next]_vars => OneSessionInv' /\ EntersUnused
  BY EntersNew, SequenceNext, ClearNext, GrantKeepsOnce DEF OneSessionInv, SequenceInv

\* With one session, of which no stream that the adapter gave up is granted
\* again, the adapter enters unused streams only: a grant that is delivered late,
\* of a stream that was replaced or cleared, is refused.
THEOREM StreamsAreEnteredOnce ==
  ASSUME OneSession
  PROVE  Spec => [][EntersUnused]_vars
<1>1. OneSessionInv /\ [Next]_vars => OneSessionInv' /\ EntersUnused
  BY OneSessionNext
<1> QED
  BY <1>1, OneSessionInit, PTL DEF Spec

\* With one session, of which no stream that the adapter gave up is granted
\* again, positions and source statuses share one increasing sequence on each
\* stream.
THEOREM SequenceIsOne ==
  ASSUME OneSession
  PROVE  Spec => SequenceIncreases
  BY StreamsAreEnteredOnce, SequenceOfNewStreams, PTL

\* With one session, of which no stream that the adapter gave up is granted
\* again, no position follows on a stream whose loss of the fix was told.
THEOREM LossIsFinal ==
  ASSUME OneSession
  PROVE  Spec => NoPositionAfterLoss
  BY StreamsAreEnteredOnce, LossOnNewStreams, PTL
=============================================================================
