-------------------------- MODULE EnrollmentProofs --------------------------
(***************************************************************************)
(* Proofs about Enrollment, for any number of claims, identities, issued    *)
(* credentials and faults: its types, that the journal is kept, and that    *)
(* what the provider was told is connected has its configuration.           *)
(***************************************************************************)
EXTENDS Enrollment, TLAPS

USE EnrollmentAssumption, NoJournal DEF EnrollmentAssumption

(***************************************************************************)
(* The journal                                                             *)
(***************************************************************************)

Steps == {"off", "exchange", "material", "pending", "config", "existing", "stage", "mark",
          "probe", "link", "commit", "clean", "digest", "start", "check", "complete"}
CliStates == [at : Steps, request : Requests \cup {None}, material : Token \cup {None}]

\* The credential is still to be exchanged, or to be saved.
Exchanging == cli.at \in {"exchange", "material"}

\* A process that runs has the journal of its claim.
HasJournal == cli.at # "off" => journal \in Journals /\ journal.request = cli.request

\* It exchanges only what no run has saved.
ExchangedOnce == Exchanging => journal.material = None

\* It goes on with what was saved.
UsesJournal ==
  cli.at \notin {"off", "exchange", "material"} =>
    cli.material \in Token /\ cli.material = journal.material

\* The provider has the credential that was exchanged, and that was saved.
KnownToProvider ==
  /\ cli.at = "material" => cli.material \in Token /\ issued[cli.request] = cli.material
  /\ (journal # None /\ journal.material # None) => issued[journal.request] = journal.material

JournalInv == TypeOK /\ HasJournal /\ ExchangedOnce /\ UsesJournal /\ KnownToProvider

LEMMA OffState == Off \in CliStates /\ Off.at = "off"
  BY DEF Off, CliStates, Steps

LEMMA JournalInit == Init => JournalInv
<1> SUFFICES ASSUME Init
             PROVE  JournalInv
  OBVIOUS
<1>1. cli = Off /\ journal = None
  BY DEF Init
<1>2. /\ cli \in CliStates
      /\ issued \in [Requests -> Token \cup {None}] /\ tokens \in Token
      /\ setup \in [enabled : BOOLEAN, bound : BOOLEAN]
  BY <1>1, OffState DEF Init, Token
<1>3. session \in [connected : BOOLEAN, subscribed : BOOLEAN, held : Processes \cup {None},
                   applying : Processes \cup {None}]
  BY DEF Init, Disconnected
<1>4. /\ config \in Token \cup {None, Bootstrap, Foreign, Pushed}
      /\ service \in {"off", "starting"}
  BY DEF Init, Token
<1>5. /\ {retained, known} \subseteq Processes \cup {None}
      /\ faults \in 0..MaxFaults /\ safe \in BOOLEAN /\ completed \subseteq Requests
      /\ staging = None /\ linked = FALSE /\ marker = None
  BY DEF Init
<1>6. TypeOK
  BY <1>1, <1>2, <1>3, <1>4, <1>5 DEF TypeOK, CliStates, Steps
<1> QED
  BY <1>1, <1>6, OffState DEF JournalInv, HasJournal, ExchangedOnce, UsesJournal, KnownToProvider,
                             Exchanging

LEMMA GoesKeeps ==
  ASSUME TypeOK, NEW at \in Steps, Goes(at)
  PROVE  /\ cli'.at = at /\ cli'.request = cli.request /\ cli'.material = cli.material
         /\ cli' \in CliStates
  BY DEF TypeOK, Goes, CliStates, Steps

\* The files, the service and the faults after a step that leaves the rest
\* alone but the process.
FilesTyped ==
  /\ config \in Token \cup {None, Bootstrap, Foreign, Pushed}
  /\ staging \in Token \cup {None} /\ linked \in BOOLEAN
  /\ marker \in {None} \cup [txn : {"connect", "announce"}, committed : BOOLEAN]
  /\ service \in {"off", "down", "starting", "loading", "connecting", "announcing", "running"}
  /\ faults \in 0..MaxFaults

\* A step of the enrollment that goes on with a saved credential, or ends.
LEMMA GoesOn ==
  ASSUME JournalInv, UNCHANGED <<journal, setup, announceVars, issued, tokens, safe>>,
         FilesTyped', completed' \subseteq Requests,
         \/ cli' = Off
         \/ /\ \E at \in Steps : Goes(at) /\ at \notin {"off", "exchange", "material"}
            /\ cli.at \notin {"off", "exchange", "material"}
  PROVE  JournalInv'
<1>1. /\ cli' \in CliStates
      /\ \/ cli'.at = "off"
         \/ /\ cli'.at \notin {"off", "exchange", "material"}
            /\ cli.at \notin {"off", "exchange", "material"}
            /\ cli'.request = cli.request /\ cli'.material = cli.material
  BY OffState, GoesKeeps DEF JournalInv
<1>2. TypeOK'
  BY <1>1 DEF JournalInv, TypeOK, FilesTyped, announceVars, CliStates, Steps
<1>3. HasJournal' /\ ExchangedOnce' /\ UsesJournal' /\ KnownToProvider'
  BY <1>1 DEF JournalInv, HasJournal, ExchangedOnce, UsesJournal, KnownToProvider, Exchanging
<1> QED
  BY <1>2, <1>3 DEF JournalInv

\* A step of something else.
LEMMA CliKeeps ==
  ASSUME JournalInv, UNCHANGED <<journal, cli, setup, providerVars>>, TypeOK'
  PROVE  JournalInv'
  BY DEF JournalInv, HasJournal, ExchangedOnce, UsesJournal, KnownToProvider, Exchanging,
         providerVars

LEMMA JournalBegin ==
  ASSUME JournalInv, NEW r \in Requests, Begin(r)
  PROVE  JournalInv'
<1>1. /\ cli' = [at |-> FirstStep(r), request |-> r,
                 material |-> IF journal = None THEN None ELSE journal.material]
      /\ UNCHANGED <<files, service, setup, announceVars, providerVars, safe, faults>>
  BY DEF Begin
<1>2. CASE journal = None
  <2>1. PICK i \in Identities : journal' = [request |-> r, identity |-> i, material |-> None]
    BY <1>2 DEF Begin
  <2>2. journal' \in Journals /\ journal'.request = r /\ journal'.material = None
    BY <2>1 DEF Journals
  <2>3. cli' = [at |-> "exchange", request |-> r, material |-> None]
    BY <1>1, <1>2 DEF FirstStep
  <2>4. TypeOK'
    BY <1>1, <2>2, <2>3 DEF JournalInv, TypeOK, files, announceVars, providerVars
  <2> QED
    BY <1>1, <2>2, <2>3, <2>4 DEF JournalInv, HasJournal, ExchangedOnce, UsesJournal,
                                 KnownToProvider, Exchanging, providerVars
<1>3. CASE journal # None
  <2>1. UNCHANGED journal /\ journal \in Journals /\ journal.request = r
    BY <1>3 DEF Begin, JournalInv, TypeOK
  <2>2. journal.material \in Token \cup {None}
    BY <2>1 DEF Journals
  <2>3. cli' = [at |-> IF journal.material # None THEN "pending" ELSE "exchange",
                request |-> r, material |-> journal.material]
    BY <1>1, <1>3 DEF FirstStep
  <2>4. TypeOK'
    BY <1>1, <2>1, <2>2, <2>3 DEF JournalInv, TypeOK, files, announceVars, providerVars
  <2> QED
    BY <1>1, <2>1, <2>2, <2>3, <2>4 DEF JournalInv, HasJournal, ExchangedOnce, UsesJournal,
                                       KnownToProvider, Exchanging, providerVars
<1> QED
  BY <1>2, <1>3

LEMMA JournalExchange == JournalInv /\ Exchange => JournalInv'
<1> SUFFICES ASSUME JournalInv, Exchange
             PROVE  JournalInv'
  OBVIOUS
<1>1. PICK t \in Token :
        /\ tokens' \in {tokens, t}
        /\ issued' = [issued EXCEPT ![cli.request] = t]
        /\ cli' = [cli EXCEPT !.at = "material", !.material = t]
  BY DEF Exchange
<1>2. cli.at = "exchange" /\ UNCHANGED journal
  BY DEF Exchange, At
<1>3. journal \in Journals /\ journal.request = cli.request /\ journal.material = None
  BY <1>2 DEF JournalInv, HasJournal, ExchangedOnce, Exchanging
<1>4. /\ cli' \in CliStates
      /\ cli'.at = "material" /\ cli'.request = cli.request /\ cli'.material = t
  BY <1>1 DEF JournalInv, TypeOK, CliStates, Steps
<1>5. cli.request \in Requests
  BY <1>3 DEF Journals
<1>6. /\ issued' \in [Requests -> Token \cup {None}] /\ tokens' \in Token
      /\ issued'[cli.request] = t
  BY <1>1, <1>5 DEF JournalInv, TypeOK
<1>7. TypeOK'
  BY <1>4, <1>6 DEF Exchange, JournalInv, TypeOK, files, announceVars, CliStates, Steps
<1> QED
  BY <1>2, <1>3, <1>4, <1>6, <1>7 DEF JournalInv, HasJournal, ExchangedOnce, UsesJournal,
                                   KnownToProvider, Exchanging

LEMMA JournalSave == JournalInv /\ SaveMaterial => JournalInv'
<1> SUFFICES ASSUME JournalInv, SaveMaterial
             PROVE  JournalInv'
  OBVIOUS
<1>1. cli.at = "material" /\ journal' = [journal EXCEPT !.material = cli.material]
  BY DEF SaveMaterial, At
<1>2. /\ journal \in Journals /\ journal.request = cli.request
      /\ cli.material \in Token /\ issued[cli.request] = cli.material
  BY <1>1 DEF JournalInv, HasJournal, KnownToProvider
<1>3. /\ journal' \in Journals
      /\ journal'.request = cli.request /\ journal'.material = cli.material
  BY <1>1, <1>2 DEF Journals
<1>4. /\ cli'.at = "pending" /\ cli'.request = cli.request /\ cli'.material = cli.material
      /\ cli' \in CliStates
  BY GoesKeeps DEF SaveMaterial, JournalInv, Steps
<1>5. UNCHANGED <<issued, tokens, completed>>
  BY DEF SaveMaterial, providerVars
<1>6. TypeOK'
  BY <1>3, <1>4, <1>5 DEF SaveMaterial, JournalInv, TypeOK, files, announceVars, CliStates, Steps
<1> QED
  BY <1>2, <1>3, <1>4, <1>5, <1>6 DEF JournalInv, HasJournal, ExchangedOnce, UsesJournal,
                                   KnownToProvider, Exchanging

\* What a step of the enrollment leaves alone.
LEMMA FilesStay ==
  ASSUME JournalInv, UNCHANGED <<files, service, faults>>
  PROVE  FilesTyped'
  BY DEF JournalInv, TypeOK, FilesTyped, files

LEMMA RecoverTyped ==
  ASSUME JournalInv, Recover
  PROVE  /\ config' \in Token \cup {None, Bootstrap, Foreign, Pushed}
         /\ staging' = None /\ linked' = FALSE /\ marker' = None
  BY DEF JournalInv, TypeOK, Recover

\* Every other step of the enrollment.
LEMMA JournalEnrolling ==
  ASSUME JournalInv, Enrolling, ~Exchange, ~SaveMaterial
  PROVE  JournalInv'
<1>1. CASE CheckPending
  <2>1. FilesTyped'
    BY <1>1, RecoverTyped DEF CheckPending, RecoverOwn, JournalInv, TypeOK, FilesTyped, files
  <2> QED
    BY <1>1, <2>1, GoesOn DEF CheckPending, At, Steps, providerVars, JournalInv, TypeOK
<1>2. CASE CheckConfig
  BY <1>2, FilesStay, GoesOn DEF CheckConfig, At, Steps, providerVars, JournalInv, TypeOK
<1>3. CASE ProbeExisting
  BY <1>3, FilesStay, GoesOn DEF ProbeExisting, At, Steps, providerVars, JournalInv, TypeOK
<1>4. CASE Stage
  <2>1. cli.material \in Token
    BY <1>4 DEF Stage, At, JournalInv, UsesJournal
  <2>2. FilesTyped'
    BY <1>4, <2>1 DEF Stage, JournalInv, TypeOK, FilesTyped
  <2> QED
    BY <1>4, <2>2, GoesOn DEF Stage, At, Steps, providerVars, JournalInv, TypeOK
<1>5. CASE Mark
  <2>1. FilesTyped'
    BY <1>5 DEF Mark, JournalInv, TypeOK, FilesTyped
  <2> QED
    BY <1>5, <2>1, GoesOn DEF Mark, At, Steps, providerVars, JournalInv, TypeOK
<1>6. CASE Probe
  BY <1>6, FilesStay, GoesOn DEF Probe, At, Steps, providerVars, JournalInv, TypeOK
<1>7. CASE Withdraw
  <2>0. faults' \in 0..MaxFaults
    <3>1. CASE cli.at = "probe" /\ staging # None
      <4>1. faults < MaxFaults /\ faults' = faults + 1
        BY <1>7, <3>1 DEF Withdraw, At
      <4> QED
        BY <4>1 DEF JournalInv, TypeOK
    <3>2. CASE ~(cli.at = "probe" /\ staging # None)
      <4>1. faults' = faults
        BY <1>7, <3>2 DEF Withdraw, At
      <4> QED
        BY <4>1 DEF JournalInv, TypeOK
    <3> QED
      BY <3>1, <3>2
  <2>1. FilesTyped'
    BY <1>7, <2>0 DEF Withdraw, JournalInv, TypeOK, FilesTyped
  <2> QED
    BY <1>7, <2>1, GoesOn DEF Withdraw, providerVars, JournalInv, TypeOK
<1>8. CASE Link
  <2>1. FilesTyped'
    BY <1>8 DEF Link, JournalInv, TypeOK, FilesTyped
  <2> QED
    BY <1>8, <2>1, GoesOn DEF Link, At, Steps, providerVars, JournalInv, TypeOK
<1>9. CASE Commit
  <2>1. FilesTyped'
    BY <1>9 DEF Commit, JournalInv, TypeOK, FilesTyped
  <2> QED
    BY <1>9, <2>1, GoesOn DEF Commit, At, Steps, providerVars, JournalInv, TypeOK
<1>10. CASE Clean
  <2>1. FilesTyped'
    BY <1>10 DEF Clean, JournalInv, TypeOK, FilesTyped
  <2> QED
    BY <1>10, <2>1, GoesOn DEF Clean, At, Steps, providerVars, JournalInv, TypeOK
<1>11. CASE SaveDigest
  BY <1>11, FilesStay, GoesOn DEF SaveDigest, At, Steps, providerVars, JournalInv, TypeOK
<1>12. CASE StartService
  <2>1. FilesTyped'
    BY <1>12 DEF StartService, JournalInv, TypeOK, FilesTyped, files
  <2> QED
    BY <1>12, <2>1, GoesOn DEF StartService, At, Steps, providerVars, JournalInv, TypeOK
<1>13. CASE CheckService
  BY <1>13, FilesStay, GoesOn DEF CheckService, At, Steps, providerVars, JournalInv, TypeOK
<1>14. CASE Complete
  <2>1. cli.request \in Requests
    BY <1>14 DEF Complete, At, JournalInv, HasJournal, Journals
  <2>2. completed' \subseteq Requests
    BY <1>14, <2>1 DEF Complete, JournalInv, TypeOK
  <2>3. FilesTyped'
    BY <1>14, FilesStay DEF Complete
  <2> QED
    BY <1>14, <2>2, <2>3, GoesOn DEF Complete
<1>15. CASE Refused
  BY <1>15, FilesStay, GoesOn DEF Refused, providerVars, JournalInv, TypeOK
<1> QED
  BY <1>1, <1>2, <1>3, <1>4, <1>5, <1>6, <1>7, <1>8, <1>9, <1>10, <1>11, <1>12, <1>13, <1>14,
     <1>15 DEF Enrolling

LEMMA JournalFail == JournalInv /\ Fail => JournalInv'
<1> SUFFICES ASSUME JournalInv, Fail
             PROVE  JournalInv'
  OBVIOUS
<1>1. FilesTyped'
  BY DEF Fail, JournalInv, TypeOK, FilesTyped, files
<1> QED
  BY <1>1, GoesOn DEF Fail, providerVars, JournalInv, TypeOK

(***************************************************************************)
(* The rest of the world, which leaves the enrollment alone                *)
(***************************************************************************)

Sessions == [connected : BOOLEAN, subscribed : BOOLEAN, held : Processes \cup {None},
             applying : Processes \cup {None}]

LEMMA DisconnectedTyped == Disconnected \in Sessions
  BY DEF Disconnected, Sessions

LEMMA OutdatedTyped ==
  ASSUME NEW process \in Processes \cup {None}
  PROVE  Outdated(process) \in Processes \cup {None}
  BY DEF Outdated, Processes

LEMMA JournalService ==
  ASSUME JournalInv, RecoverAtStart \/ Load \/ Restart \/ GiveUp
  PROVE  JournalInv'
<1>1. CASE RecoverAtStart
  <2>1. Recover /\ service' = "loading"
        /\ UNCHANGED <<journal, cli, setup, session, retained, known, issued, tokens, completed,
                       safe, faults>>
    BY <1>1 DEF RecoverAtStart, announceVars, providerVars
  <2>2. /\ config' \in Token \cup {None, Bootstrap, Foreign, Pushed}
        /\ staging' = None /\ linked' = FALSE /\ marker' = None
    BY <2>1, RecoverTyped
  <2>3. FilesTyped'
    BY <2>1, <2>2 DEF FilesTyped, JournalInv, TypeOK
  <2>4. TypeOK'
    BY <2>1, <2>3 DEF FilesTyped, JournalInv, TypeOK
  <2> QED
    BY <2>1, <2>4, CliKeeps DEF providerVars
<1>2. CASE Load
  <2>1. TypeOK'
    BY <1>2, DisconnectedTyped, OutdatedTyped
       DEF Load, JournalInv, TypeOK, files, providerVars, Sessions
  <2> QED
    BY <1>2, <2>1, CliKeeps DEF Load
<1>3. CASE Restart
  <2>1. TypeOK'
    BY <1>3 DEF Restart, JournalInv, TypeOK, files, announceVars, providerVars
  <2> QED
    BY <1>3, <2>1, CliKeeps DEF Restart
<1>4. CASE GiveUp
  <2>1. TypeOK'
    BY <1>4 DEF GiveUp, JournalInv, TypeOK, files, announceVars, providerVars
  <2> QED
    BY <1>4, <2>1, CliKeeps DEF GiveUp
<1> QED
  BY <1>1, <1>2, <1>3, <1>4

LEMMA JournalWaiting ==
  ASSUME JournalInv, Waiting \/ Disconnect \/ Push \/ RolledBack
  PROVE  JournalInv'
<1>0. session \in Sessions
  BY DEF JournalInv, TypeOK, Sessions
<1>1. CASE Connect
  <2>1. PICK ok \in BOOLEAN :
          /\ ok \/ faults < MaxFaults
          /\ faults' = IF ok THEN faults ELSE faults + 1
          /\ session' = [session EXCEPT !.connected = TRUE, !.subscribed = ok]
          /\ known' = IF ok THEN "this" ELSE known
    BY <1>1 DEF Connect
  <2>2. session' \in Sessions
    BY <1>0, <2>1 DEF Sessions
  <2>3. faults' \in 0..MaxFaults /\ known' \in Processes \cup {None}
    BY <2>1 DEF JournalInv, TypeOK, Processes
  <2>4. TypeOK'
    BY <1>1, <2>2, <2>3 DEF Connect, JournalInv, TypeOK, files, otherVars, providerVars, Sessions
  <2> QED
    BY <1>1, <2>4, CliKeeps DEF Connect, otherVars
<1>2. CASE Announce
  <2>1. TypeOK'
    BY <1>2 DEF Announce, JournalInv, TypeOK, files, otherVars, providerVars, Processes
  <2> QED
    BY <1>2, <2>1, CliKeeps DEF Announce, otherVars
<1>3. CASE Deliver
  <2>0. session' = [session EXCEPT !.held = retained] /\ retained \in Processes \cup {None}
    BY <1>3 DEF Deliver, JournalInv, TypeOK
  <2>1. session' \in Sessions
    BY <1>0, <2>0 DEF Sessions
  <2>2. TypeOK'
    BY <1>3, <2>1 DEF Deliver, JournalInv, TypeOK, files, otherVars, providerVars, Sessions
  <2> QED
    BY <1>3, <2>2, CliKeeps DEF Deliver, otherVars
<1>4. CASE Apply
  <2>1. session' \in Sessions
    BY <1>0, <1>4 DEF Apply, Sessions
  <2>2. marker' \in {None} \cup [txn : {"connect", "announce"}, committed : BOOLEAN]
    BY <1>4 DEF Apply, JournalInv, TypeOK
  <2>3. TypeOK'
    BY <1>4, <2>1, <2>2 DEF Apply, JournalInv, TypeOK, otherVars, providerVars, Sessions
  <2> QED
    BY <1>4, <2>3, CliKeeps DEF Apply, otherVars
<1>5. CASE Applied
  <2>1. TypeOK'
    BY <1>5, DisconnectedTyped DEF Applied, JournalInv, TypeOK, otherVars, providerVars, Sessions
  <2> QED
    BY <1>5, <2>1, CliKeeps DEF Applied, otherVars
<1>6. CASE Disconnect
  <2>1. session' \in Sessions
    BY <1>0, <1>6 DEF Disconnect, Sessions
  <2>2. TypeOK'
    BY <1>6, <2>1 DEF Disconnect, JournalInv, TypeOK, files, otherVars, providerVars, Sessions
  <2> QED
    BY <1>6, <2>2, CliKeeps DEF Disconnect, otherVars
<1>7. CASE Push
  <2>1. TypeOK'
    BY <1>7 DEF Push, JournalInv, TypeOK, files, otherVars, providerVars
  <2> QED
    BY <1>7, <2>1, CliKeeps DEF Push, otherVars
<1>8. CASE RolledBack
  <2>1. session' \in Sessions
    BY <1>0, <1>8 DEF RolledBack, Sessions
  <2>2. TypeOK'
    BY <1>8, <2>1 DEF RolledBack, Unmarked, JournalInv, TypeOK, otherVars, providerVars, Sessions
  <2> QED
    BY <1>8, <2>2, CliKeeps DEF RolledBack, otherVars
<1> QED
  BY <1>1, <1>2, <1>3, <1>4, <1>5, <1>6, <1>7, <1>8 DEF Waiting

LEMMA JournalWorld ==
  ASSUME JournalInv, Reboot \/ Ride \/ OtherWriter
  PROVE  JournalInv'
<1>1. CASE Reboot
  <2>1. TypeOK'
    BY <1>1, OffState, DisconnectedTyped, OutdatedTyped
       DEF Reboot, JournalInv, TypeOK, files, providerVars, Sessions, CliStates, Steps
  <2> QED
    BY <1>1, <2>1, OffState DEF Reboot, JournalInv, HasJournal, ExchangedOnce, UsesJournal,
                               KnownToProvider, Exchanging, providerVars
<1>2. CASE Ride
  <2>1. TypeOK'
    BY <1>2 DEF Ride, JournalInv, TypeOK, files, announceVars, providerVars
  <2> QED
    BY <1>2, <2>1, CliKeeps DEF Ride
<1>3. CASE OtherWriter
  <2>1. TypeOK'
    BY <1>3 DEF OtherWriter, JournalInv, TypeOK, announceVars, providerVars
  <2> QED
    BY <1>3, <2>1, CliKeeps DEF OtherWriter
<1> QED
  BY <1>1, <1>2, <1>3

LEMMA JournalStep == JournalInv /\ [Next]_vars => JournalInv'
<1> SUFFICES ASSUME JournalInv, [Next]_vars
             PROVE  JournalInv'
  OBVIOUS
<1>1. CASE UNCHANGED vars
  BY <1>1 DEF vars, files, announceVars, providerVars, JournalInv, TypeOK, HasJournal,
              ExchangedOnce, UsesJournal, KnownToProvider, Exchanging
<1>2. CASE Next
  BY <1>2, JournalBegin, JournalExchange, JournalSave, JournalEnrolling, JournalFail,
     JournalService, JournalWaiting, JournalWorld DEF Next
<1> QED
  BY <1>1, <1>2

LEMMA JournalAlways == Spec => []JournalInv
  BY JournalInit, JournalStep, PTL DEF Spec

\* Every variable keeps its type, whatever fails and whoever restarts.
THEOREM TypeCorrect == Spec => []TypeOK
<1>1. JournalInv => TypeOK
  BY DEF JournalInv
<1> QED
  BY <1>1, JournalAlways, PTL

JournalKept ==
  journal # None =>
    /\ journal'.request = journal.request
    /\ journal'.identity = journal.identity
    /\ journal.material # None => issued' = issued /\ journal' = journal

LEMMA KeptStep == JournalInv /\ [Next]_vars => [JournalKept]_vars
<1> SUFFICES ASSUME JournalInv, Next
             PROVE  JournalKept
  OBVIOUS
<1>1. CASE \E r \in Requests : Begin(r)
  BY <1>1 DEF Begin, JournalKept, providerVars
<1>2. CASE Exchange
  BY <1>2 DEF Exchange, At, JournalInv, ExchangedOnce, Exchanging, JournalKept
<1>3. CASE SaveMaterial
  <2>1. cli.at = "material"
    BY <1>3 DEF SaveMaterial, At
  <2>2. journal \in Journals /\ journal.material = None
    BY <2>1 DEF JournalInv, HasJournal, ExchangedOnce, Exchanging
  <2>3. journal' = [journal EXCEPT !.material = cli.material]
    BY <1>3 DEF SaveMaterial
  <2>4. journal'.request = journal.request /\ journal'.identity = journal.identity
    BY <2>2, <2>3 DEF Journals
  <2> QED
    BY <2>2, <2>4 DEF JournalKept
<1>4. CASE Enrolling /\ ~Exchange /\ ~SaveMaterial
  BY <1>4 DEF Enrolling, CheckPending, CheckConfig, ProbeExisting, Stage, Mark, Probe, Withdraw,
              Link, Commit, Clean, SaveDigest, StartService, CheckService, Complete, Refused,
              providerVars, JournalKept
<1>5. CASE ~(\E r \in Requests : Begin(r)) /\ ~Enrolling
  BY <1>5 DEF Next, Fail, RecoverAtStart, Load, Restart, GiveUp, Waiting, Connect, Announce,
              Deliver, Apply, Applied, Disconnect, Push, RolledBack, Reboot, Ride, OtherWriter,
              otherVars, providerVars, JournalKept
<1> QED
  BY <1>1, <1>2, <1>3, <1>4, <1>5

\* "Retries preserve the same transaction and credential": no run of the
\* enrollment takes over the journal of another claim, shows another identity,
\* or exchanges again what was saved.
THEOREM OneClaimOneCredential == Spec => JournalIsKept
<1>1. JournalInv /\ [Next]_vars => [JournalKept]_vars
  BY KeptStep
<1> QED
  BY <1>1, JournalAlways, PTL DEF Spec, JournalIsKept, JournalKept

(***************************************************************************)
(* The installed configuration, while the service is not enabled           *)
(***************************************************************************)

\* The saved credential is the configuration, and no transaction is open.
Installed ==
  /\ journal # None /\ journal.material \in Token
  /\ config = journal.material /\ marker = None

\* The steps of the transaction, and those that follow it.
InTransaction == cli.at \in {"mark", "probe", "link", "commit", "clean"}
AfterTransaction == cli.at \in {"existing", "digest", "start", "check", "complete"}

\* Until an enrollment has installed a configuration, nothing runs beside it
\* that would recover its transaction; from then on it stays installed.
Ready ==
  /\ service \notin {"connecting", "announcing"}
  /\ (service # "off" \/ completed # {}) => Installed
  /\ completed # {} => completed = {journal.request}
  /\ cli.at \in {"mark", "probe", "link"} => staging = cli.material
  /\ InTransaction => service = "off" /\ completed = {}
  /\ cli.at \in {"commit", "clean"} => config = cli.material
  /\ cli.at = "config" => marker = None
  /\ AfterTransaction => config = cli.material /\ marker = None

ReadyInv == ~setup.enabled => Ready

LEMMA ReadyInit == Init => ReadyInv
<1> SUFFICES ASSUME Init, ~setup.enabled
             PROVE  Ready
  BY DEF ReadyInv
<1>1. cli.at = "off" /\ service = "off" /\ completed = {} /\ marker = None
  BY OffState DEF Init
<1> QED
  BY <1>1 DEF Ready, InTransaction, AfterTransaction

\* A step that leaves the journal, the files, the service and the completed
\* claims alone, and ends the process.
LEMMA ReadyOff ==
  ASSUME Ready, UNCHANGED <<files, journal, service, completed>>, cli' = Off
  PROVE  Ready'
  BY OffState DEF Ready, Installed, InTransaction, AfterTransaction, files

\* One that leaves the process alone as well.
LEMMA ReadyKept ==
  ASSUME Ready, UNCHANGED <<files, journal, service, completed, cli>>
  PROVE  Ready'
  BY DEF Ready, Installed, InTransaction, AfterTransaction, files

\* Nothing was installed while the credential is still to be saved.
LEMMA ExchangingIsEarly ==
  ASSUME JournalInv, Ready, cli.at \in {"exchange", "material"} \/ config = None
  PROVE  service = "off" /\ completed = {}
<1>1. ~Installed
  <2>1. CASE cli.at \in {"exchange", "material"}
    BY <2>1 DEF JournalInv, ExchangedOnce, Exchanging, Installed, Token
  <2>2. CASE config = None
    BY <2>2 DEF Installed, Token
  <2> QED
    BY <2>1, <2>2
<1> QED
  BY <1>1 DEF Ready

LEMMA ReadyBegins ==
  ASSUME JournalInv, Ready, \/ \E r \in Requests : Begin(r)
                            \/ Exchange \/ SaveMaterial
  PROVE  Ready'
<1>1. CASE \E r \in Requests : Begin(r)
  <2>1. PICK r \in Requests : Begin(r)
    BY <1>1
  <2>2. cli' = [at |-> FirstStep(r), request |-> r,
                material |-> IF journal = None THEN None ELSE journal.material]
    BY <2>1 DEF Begin
  <2>3. cli'.at \in {"pending", "exchange"}
    BY <2>2 DEF FirstStep
  <2>4. UNCHANGED <<config, staging, marker, service, completed>>
    BY <2>1 DEF Begin, files, providerVars
  <2>5. journal # None => journal' = journal
    BY <2>1 DEF Begin
  <2>6. CASE journal = None
    <3>1. service = "off" /\ completed = {}
      BY <2>6 DEF Ready, Installed
    <3> QED
      BY <3>1, <2>3, <2>4 DEF Ready, InTransaction, AfterTransaction
  <2>7. CASE journal # None
    BY <2>3, <2>4, <2>5, <2>7 DEF Ready, Installed, InTransaction, AfterTransaction
  <2> QED
    BY <2>6, <2>7
<1>2. CASE Exchange \/ SaveMaterial
  <2>1. cli.at \in {"exchange", "material"}
    BY <1>2 DEF Exchange, SaveMaterial, At
  <2>2. service = "off" /\ completed = {}
    BY <2>1, ExchangingIsEarly
  <2>3. UNCHANGED <<service, completed>>
    BY <1>2 DEF Exchange, SaveMaterial, providerVars
  <2>4. cli'.at \in {"material", "pending"}
    BY <1>2, GoesKeeps DEF Exchange, SaveMaterial, JournalInv, Steps, TypeOK
  <2> QED
    BY <2>2, <2>3, <2>4 DEF Ready, InTransaction, AfterTransaction
<1> QED
  BY <1>1, <1>2

\* Before the transaction: what was left over is recovered, and what is there
\* is looked at.
LEMMA ReadyChecks ==
  ASSUME JournalInv, Ready, CheckPending \/ CheckConfig \/ ProbeExisting \/ Stage
  PROVE  Ready'
<1>1. CASE CheckPending
  <2>1. /\ cli'.at = "config" /\ marker' = None
        /\ UNCHANGED <<journal, service, completed>>
    BY <1>1, GoesKeeps
       DEF CheckPending, RecoverOwn, Recover, files, providerVars, JournalInv, Steps
  <2>2. Installed => config' = config
    BY <1>1 DEF CheckPending, RecoverOwn, Recover, Installed, files
  <2> QED
    BY <2>1, <2>2 DEF Ready, Installed, InTransaction, AfterTransaction
<1>2. CASE CheckConfig
  <2>1. /\ UNCHANGED <<files, journal, service, completed>>
        /\ cli'.material = cli.material
        /\ cli'.at \in {"stage", "digest", "existing"}
        /\ cli'.at # "stage" => config = cli.material
        /\ cli.at = "config"
    BY <1>2, GoesKeeps DEF CheckConfig, Matches, At, providerVars, JournalInv, Steps
  <2> QED
    BY <2>1 DEF Ready, Installed, InTransaction, AfterTransaction, files
<1>3. CASE ProbeExisting
  <2>1. /\ UNCHANGED <<files, journal, service, completed>>
        /\ cli'.material = cli.material /\ cli'.at = "digest" /\ cli.at = "existing"
    BY <1>3, GoesKeeps DEF ProbeExisting, At, providerVars, JournalInv, Steps
  <2> QED
    BY <2>1 DEF Ready, Installed, InTransaction, AfterTransaction, files
<1>4. CASE Stage
  <2>1. /\ UNCHANGED <<config, marker, journal, service, completed>>
        /\ cli'.material = cli.material /\ cli'.at = "mark"
        /\ staging' = cli.material
    BY <1>4, GoesKeeps DEF Stage, providerVars, JournalInv, Steps
  <2>2. service = "off" /\ completed = {}
    BY <1>4, ExchangingIsEarly DEF Stage
  <2> QED
    BY <2>1, <2>2 DEF Ready, Installed, InTransaction, AfterTransaction
<1> QED
  BY <1>1, <1>2, <1>3, <1>4

\* The transaction.
LEMMA ReadyInstalls ==
  ASSUME JournalInv, Ready, Mark \/ Probe \/ Withdraw \/ Link \/ Commit \/ Clean
  PROVE  Ready'
<1>1. InTransaction
  BY DEF Mark, Probe, Withdraw, Link, Commit, Clean, At, InTransaction
<1>2. service = "off" /\ completed = {}
  BY <1>1 DEF Ready
<1>3. UNCHANGED <<journal, service, completed>>
  BY DEF Mark, Probe, Withdraw, Link, Commit, Clean, providerVars
<1>4. CASE Mark \/ Probe
  <2>1. /\ staging' = staging /\ cli'.material = cli.material
        /\ cli.at \in {"mark", "probe"} /\ cli'.at \in {"probe", "link"}
    BY <1>4, GoesKeeps DEF Mark, Probe, At, files, JournalInv, Steps
  <2> QED
    BY <1>2, <1>3, <2>1 DEF Ready, InTransaction, AfterTransaction
<1>5. CASE Withdraw
  <2>1. cli'.at = "off"
    BY <1>5, OffState DEF Withdraw
  <2> QED
    BY <1>2, <1>3, <2>1 DEF Ready, InTransaction, AfterTransaction
<1>6. CASE Link
  <2>1. /\ config' = staging /\ cli'.material = cli.material
        /\ cli.at = "link" /\ cli'.at = "commit"
    BY <1>6, GoesKeeps DEF Link, At, JournalInv, Steps
  <2> QED
    BY <1>2, <1>3, <2>1 DEF Ready, InTransaction, AfterTransaction
<1>7. CASE Commit \/ Clean
  <2>1. /\ config' = config /\ cli'.material = cli.material
        /\ \/ cli.at = "commit" /\ cli'.at = "clean"
           \/ cli.at = "clean" /\ cli'.at = "digest" /\ marker' = None
    BY <1>7, GoesKeeps DEF Commit, Clean, At, JournalInv, Steps
  <2> QED
    BY <1>2, <1>3, <2>1 DEF Ready, InTransaction, AfterTransaction
<1> QED
  BY <1>4, <1>5, <1>6, <1>7

\* What follows it.
LEMMA ReadyEnds ==
  ASSUME JournalInv, Ready, SaveDigest \/ StartService \/ CheckService \/ Complete
  PROVE  Ready'
<1>1. AfterTransaction
  BY DEF SaveDigest, StartService, CheckService, Complete, At, AfterTransaction
<1>2. Installed
  <2>1. cli.material \in Token /\ cli.material = journal.material /\ journal \in Journals
    BY <1>1 DEF AfterTransaction, JournalInv, UsesJournal, HasJournal
  <2> QED
    BY <1>1, <2>1 DEF Ready, Installed
<1>3. UNCHANGED <<config, marker, journal>>
  BY DEF SaveDigest, StartService, CheckService, Complete, files
<1>4. Installed'
  BY <1>2, <1>3 DEF Installed
<1>5. CASE SaveDigest \/ StartService \/ CheckService
  <2>1. /\ cli'.material = cli.material
        /\ cli'.at \in {"start", "check", "complete"}
        /\ service' \notin {"connecting", "announcing"}
        /\ completed' = completed
    BY <1>5, GoesKeeps
       DEF SaveDigest, StartService, CheckService, Ready, providerVars, JournalInv, Steps
  <2> QED
    BY <1>1, <1>3, <1>4, <2>1 DEF Ready, InTransaction, AfterTransaction
<1>6. CASE Complete
  <2>1. cli.request = journal.request
    BY <1>1 DEF AfterTransaction, JournalInv, HasJournal
  <2>2. completed' = {journal'.request}
    BY <1>3, <1>6, <2>1 DEF Complete, Ready
  <2>3. cli'.at = "off" /\ service' = service
    BY <1>6, OffState DEF Complete
  <2> QED
    BY <1>4, <2>2, <2>3 DEF Ready, InTransaction, AfterTransaction
<1> QED
  BY <1>5, <1>6

\* The service, which runs only once a configuration is installed.
LEMMA ReadyService ==
  ASSUME JournalInv, Ready, RecoverAtStart \/ Load \/ Restart \/ GiveUp \/ Waiting \/ Disconnect
                              \/ RolledBack
  PROVE  Ready'
<1>1. service \in {"starting", "loading", "down"}
  BY DEF Ready, RecoverAtStart, Load, Restart, GiveUp, Waiting, Connect, Announce, Deliver,
         Apply, Applied, Disconnect, RolledBack, Announces
<1>2. Installed
  BY <1>1 DEF Ready
<1>3. RecoverAtStart \/ Load \/ Restart
  BY <1>1 DEF GiveUp, Waiting, Connect, Announce, Deliver, Apply, Applied, Disconnect,
              RolledBack, Announces
<1>4. UNCHANGED <<config, marker, journal, cli, completed>>
  BY <1>2, <1>3 DEF RecoverAtStart, Recover, Load, Restart, Installed, files, providerVars
<1>5. config # None /\ config # Bootstrap
  BY <1>2 DEF Installed, Token
<1>6. service' \notin {"connecting", "announcing"}
  BY <1>3, <1>5 DEF RecoverAtStart, Load, Restart
<1>7. ~InTransaction /\ cli.at \notin {"mark", "probe", "link", "commit", "clean"}
  BY <1>1 DEF Ready, InTransaction
<1>8. Installed' /\ ~InTransaction'
  BY <1>2, <1>4, <1>7 DEF Installed, InTransaction
<1> QED
  BY <1>4, <1>6, <1>7, <1>8 DEF Ready, AfterTransaction

LEMMA ReadyWorld ==
  ASSUME JournalInv, Ready, ~setup.enabled, Push \/ Reboot \/ Ride \/ OtherWriter
  PROVE  Ready'
<1>1. CASE Push \/ Ride
  BY <1>1, ReadyKept DEF Push, Ride, otherVars, providerVars
<1>2. CASE Reboot
  <2>1. /\ UNCHANGED <<files, journal, completed>>
        /\ service' = "off" /\ cli'.at = "off"
    BY <1>2, OffState DEF Reboot, providerVars
  <2> QED
    BY <2>1 DEF Ready, Installed, InTransaction, AfterTransaction, files
<1>3. CASE OtherWriter
  <2>1. UNCHANGED <<staging, marker, journal, cli, service, completed>> /\ config = None
    BY <1>3 DEF OtherWriter, providerVars
  <2>2. cli.at \notin {"off", "exchange", "material"} => cli.material # None
    BY DEF JournalInv, UsesJournal, Token
  <2>3. ~Installed
    BY <2>1 DEF Installed, Token
  <2> QED
    BY <2>1, <2>2, <2>3 DEF Ready, InTransaction, AfterTransaction
<1> QED
  BY <1>1, <1>2, <1>3

LEMMA ReadyStep == JournalInv /\ ReadyInv /\ [Next]_vars => ReadyInv'
<1> SUFFICES ASSUME JournalInv, ReadyInv, [Next]_vars, ~setup'.enabled
             PROVE  Ready'
  BY DEF ReadyInv
<1>1. setup' = setup
  BY DEF vars, Next, Begin, Enrolling, Exchange, SaveMaterial, CheckPending, CheckConfig,
         ProbeExisting, Stage, Mark, Probe, Withdraw, Link, Commit, Clean, SaveDigest,
         StartService, CheckService, Complete, Refused, Fail, RecoverAtStart, Load, Restart,
         GiveUp, Waiting, Connect, Announce, Deliver, Apply, Applied, Disconnect, Push,
         RolledBack, Reboot, Ride, OtherWriter, otherVars
<1>2. ~setup.enabled /\ Ready
  BY <1>1 DEF ReadyInv
<1>3. CASE Enrolling
  BY <1>2, <1>3, ReadyBegins, ReadyChecks, ReadyInstalls, ReadyEnds, ReadyOff
     DEF Enrolling, Refused, providerVars
<1>4. CASE Fail
  BY <1>2, <1>4, ReadyOff DEF Fail, providerVars
<1>5. CASE UNCHANGED vars
  BY <1>2, <1>5, ReadyKept DEF vars, providerVars
<1> QED
  BY <1>2, <1>3, <1>4, <1>5, ReadyBegins, ReadyService, ReadyWorld DEF Next

\* What the provider was told is connected has its credential in the
\* configuration for good, as long as nothing but the enrollment starts the
\* service: every interruption, recovery and reboot leaves it there.
THEOREM WhatIsConnectedIsInstalled == Spec => []ConnectedIsInstalled
<1>1. JournalInv /\ ReadyInv => ConnectedIsInstalled
  <2> SUFFICES ASSUME JournalInv, ReadyInv, ~setup.enabled, NEW r \in completed
               PROVE  config = issued[r]
    BY DEF ConnectedIsInstalled
  <2>1. Installed /\ r = journal.request
    BY DEF ReadyInv, Ready
  <2>2. issued[journal.request] = journal.material
    BY <2>1 DEF JournalInv, KnownToProvider, Installed, Token
  <2> QED
    BY <2>1, <2>2 DEF Installed
<1> QED
  BY <1>1, ReadyInit, ReadyStep, JournalAlways, PTL DEF Spec
=============================================================================
