----------------------------- MODULE Enrollment -----------------------------
(***************************************************************************)
(* How a scooter gets its configuration (cmd/radio-gaga).  Either somebody  *)
(* runs "radio-gaga -connect-enroll", a one-shot process that exchanges a   *)
(* claim for a credential and installs the configuration made of it, and    *)
(* is run again with the same claim until it succeeds; or the service is    *)
(* started with a bootstrap configuration, announces itself, and waits for  *)
(* the configuration that is pushed to it.                                  *)
(*                                                                          *)
(* The service is a process of its own, which its unit restarts whenever it *)
(* ends, and which recovers an interrupted transaction each time: also the  *)
(* one an enrollment is making at that moment, since only enrollments take  *)
(* the lock.  A step is one file operation (all of them are atomic renames, *)
(* links or deletions), one request, or one call of systemctl.  The         *)
(* transaction of the service is in Txn, and is one step here, between the  *)
(* writing of its marker and its end.                                       *)
(***************************************************************************)
EXTENDS Naturals

CONSTANTS
  Requests,    \* connectRequest: the claims that are tried
  Identities,  \* what can be read of the modem and the serial numbers
  MaxTokens,   \* a bound on the credentials the provider issues
  MaxFaults,   \* a bound on failures, kills and reboots
  None,        \* there is no such file, or nothing in that field
  Bootstrap,   \* a configuration with a bootstrap stanza
  Foreign,     \* one of another provider
  Pushed       \* one that was pushed to a waiting scooter

ASSUME EnrollmentAssumption ==
  /\ MaxTokens \in Nat /\ MaxFaults \in Nat
  /\ None \notin Requests \cup Identities
  /\ {None, Bootstrap, Foreign, Pushed} \cap (0..MaxTokens) = {}
  /\ None \notin {Bootstrap, Foreign, Pushed}

VARIABLES
  config,     \* the live configuration
  staging,    \* its .staging
  linked,     \* both are one inode
  marker,     \* .txn-pending.json
  journal,    \* .connect-enrollment.json
  cli,        \* the enrolling process
  service,    \* the radio-gaga service
  setup,      \* whether it is enabled, and its bootstrap bound to an installation
  session,    \* its session with the broker while it announces itself
  retained,   \* the configuration the broker retains for it: None, or for
              \* which process it was made
  known,      \* the process the server knows of
  issued,     \* the credential the provider has for each claim
  tokens,     \* how many it has issued
  completed,  \* the claims it was told are connected
  safe,       \* connectSafeState: the scooter stands, and nothing updates it
  faults

files == <<config, staging, linked, marker>>
announceVars == <<session, retained, known>>
providerVars == <<issued, tokens, completed>>
vars == <<files, journal, cli, service, setup, announceVars, providerVars, safe, faults>>

\* A credential; 0 is the one of a configuration somebody wrote by hand.
Token == 0..MaxTokens
Processes == {"this", "earlier"}

Journals == [request : Requests, identity : Identities, material : Token \cup {None}]

ASSUME NoJournal == None \notin Journals

Off == [at |-> "off", request |-> None, material |-> None]
Disconnected == [connected |-> FALSE, subscribed |-> FALSE, held |-> None, applying |-> None]

TypeOK ==
  /\ config \in Token \cup {None, Bootstrap, Foreign, Pushed}
  /\ staging \in Token \cup {None}
  /\ linked \in BOOLEAN
  /\ marker \in {None} \cup [txn : {"connect", "announce"}, committed : BOOLEAN]
  /\ journal \in {None} \cup Journals
  /\ cli \in [at : {"off", "exchange", "material", "pending", "config", "existing", "stage",
                    "mark", "probe", "link", "commit", "clean", "digest", "start", "check",
                    "complete"},
              request : Requests \cup {None}, material : Token \cup {None}]
  /\ service \in {"off", "down", "starting", "loading", "connecting", "announcing", "running"}
  /\ setup \in [enabled : BOOLEAN, bound : BOOLEAN]
  /\ session \in [connected : BOOLEAN, subscribed : BOOLEAN, held : Processes \cup {None},
                  applying : Processes \cup {None}]
  /\ {retained, known} \subseteq Processes \cup {None}
  /\ issued \in [Requests -> Token \cup {None}]
  /\ tokens \in Token
  /\ completed \subseteq Requests
  /\ safe \in BOOLEAN
  /\ faults \in 0..MaxFaults

-----------------------------------------------------------------------------
(* The enrollment *)

Goes(at) == cli' = [cli EXCEPT !.at = at]
At(at) == cli.at = at
Own == marker # None /\ marker.txn = "connect"

\* Mutant: the exchange is made again by every run.
AlwaysExchange(r) == "exchange"

\* Credentials that were saved are used again.
FirstStep(r) == IF journal # None /\ journal.material # None THEN "pending" ELSE "exchange"

\* Takes the lock and reads the journal.  A new one is begun with what can be
\* read of the scooter; the journal of another claim is left alone.
Begin(r) ==
  /\ At("off")
  /\ journal # None => journal.request = r
  /\ cli' = [at |-> FirstStep(r), request |-> r,
             material |-> IF journal = None THEN None ELSE journal.material]
  /\ IF journal # None THEN UNCHANGED journal
     ELSE \E i \in Identities : journal' = [request |-> r, identity |-> i, material |-> None]
  /\ UNCHANGED <<files, service, setup, announceVars, providerVars, safe, faults>>

\* existingConnectCredential: only a configuration of this provider is shown.
Presentable == config = None \/ config \in Token

\* connect/exchange.  The provider may give what it gave before, or a new
\* credential, or acknowledge the one of the existing configuration.
Exchange ==
  /\ At("exchange") /\ Presentable
  /\ \E t \in Token :
       /\ \/ /\ t = tokens + 1 /\ tokens' = t
          \/ /\ t = issued[cli.request] \/ t = config
             /\ UNCHANGED tokens
       /\ issued' = [issued EXCEPT ![cli.request] = t]
       /\ cli' = [cli EXCEPT !.at = "material", !.material = t]
  /\ UNCHANGED <<files, journal, service, setup, announceVars, completed, safe, faults>>

SaveMaterial ==
  /\ At("material")
  /\ journal' = [journal EXCEPT !.material = cli.material]
  /\ Goes("pending")
  /\ UNCHANGED <<files, service, setup, announceVars, providerVars, safe, faults>>

\* RecoverOnBoot: what was committed is tidied up; what was not is undone, but
\* only if the live configuration is the staged file.  Without a marker,
\* cleanOrphans.
Recover ==
  /\ config' = IF marker # None /\ ~marker.committed /\ marker.txn = "connect" /\ linked
                 THEN None ELSE config
  /\ staging' = None /\ linked' = FALSE /\ marker' = None

\* Mutant: any marker is in the way.
RefusesAll == marker = None /\ UNCHANGED files

\* Somebody else's transaction is not touched.
RecoverOwn == IF Own THEN Recover ELSE marker = None /\ UNCHANGED files

CheckPending ==
  /\ At("pending") /\ RecoverOwn
  /\ Goes("config")
  /\ UNCHANGED <<journal, service, setup, announceVars, providerVars, safe, faults>>

\* Mutant: one of the same provider will do.
SameProvider(material) == config \in Token

\* What is there already is the candidate, or has its credential.
Matches(material) == config # None /\ config = material

\* A configuration written by hand is never equal to the candidate.
CheckConfig ==
  /\ At("config")
  /\ \/ config = None /\ safe /\ Goes("stage")
     \/ Matches(cli.material) /\ config # 0 /\ Goes("digest")
     \/ Matches(cli.material) /\ config = 0 /\ safe /\ Goes("existing")
  /\ UNCHANGED <<files, journal, service, setup, announceVars, providerVars, safe, faults>>

ProbeExisting ==
  /\ At("existing")
  /\ Goes("digest")
  /\ UNCHANGED <<files, journal, service, setup, announceVars, providerVars, safe, faults>>

-----------------------------------------------------------------------------
(* Its transaction: Manager.Run with ConfigInstallOnly *)

Stage ==
  /\ At("stage")
  /\ config = None /\ marker = None
  /\ staging' = cli.material /\ linked' = FALSE
  /\ Goes("mark")
  /\ UNCHANGED <<config, marker, journal, service, setup, announceVars, providerVars, safe, faults>>

Mark ==
  /\ At("mark")
  /\ marker' = [txn |-> "connect", committed |-> FALSE]
  /\ Goes("probe")
  /\ UNCHANGED <<config, staging, linked, journal, service, setup, announceVars, providerVars,
                 safe, faults>>

Probe ==
  /\ At("probe") /\ staging # None
  /\ Goes("link")
  /\ UNCHANGED <<files, journal, service, setup, announceVars, providerVars, safe, faults>>

\* The probe fails; or the file to link is gone, or another one has appeared.
Withdraw ==
  /\ \/ At("probe") /\ (staging = None \/ faults < MaxFaults)
     \/ At("link") /\ (staging = None \/ config # None)
  /\ faults' = IF At("probe") /\ staging # None THEN faults + 1 ELSE faults
  /\ staging' = None /\ linked' = FALSE /\ marker' = None
  /\ cli' = Off
  /\ UNCHANGED <<config, journal, service, setup, announceVars, providerVars, safe>>

Link ==
  /\ At("link") /\ config = None /\ staging # None
  /\ config' = staging /\ linked' = TRUE
  /\ Goes("commit")
  /\ UNCHANGED <<staging, marker, journal, service, setup, announceVars, providerVars, safe, faults>>

Commit ==
  /\ At("commit")
  /\ marker' = [txn |-> "connect", committed |-> TRUE]
  /\ Goes("clean")
  /\ UNCHANGED <<config, staging, linked, journal, service, setup, announceVars, providerVars,
                 safe, faults>>

Clean ==
  /\ At("clean")
  /\ staging' = None /\ linked' = FALSE /\ marker' = None
  /\ Goes("digest")
  /\ UNCHANGED <<config, journal, service, setup, announceVars, providerVars, safe, faults>>

-----------------------------------------------------------------------------
(* The end of the enrollment *)

\* The digest is saved with the journal, but not read again; then the scooter
\* must be standing still.
SaveDigest ==
  /\ At("digest") /\ safe
  /\ Goes("start")
  /\ UNCHANGED <<files, journal, service, setup, announceVars, providerVars, safe, faults>>

StartService ==
  /\ At("start")
  /\ service' = IF service \in {"off", "down"} THEN "starting" ELSE service
  /\ Goes("check")
  /\ UNCHANGED <<files, journal, setup, announceVars, providerVars, safe, faults>>

\* systemctl is-active: the process exists, whatever it is doing.
CheckService ==
  /\ At("check") /\ service \notin {"off", "down"}
  /\ Goes("complete")
  /\ UNCHANGED <<files, journal, service, setup, announceVars, providerVars, safe, faults>>

\* connect/complete, with the credential of the scooter.
Complete ==
  /\ At("complete") /\ cli.material = issued[cli.request]
  /\ completed' = completed \cup {cli.request}
  /\ cli' = Off
  /\ UNCHANGED <<files, journal, service, setup, announceVars, issued, tokens, safe, faults>>

\* It may return with an error, or be killed, at any point, without tidying up.
Fail ==
  /\ cli.at # "off" /\ faults < MaxFaults
  /\ cli' = Off
  /\ faults' = faults + 1
  /\ UNCHANGED <<files, journal, service, setup, announceVars, providerVars, safe>>

\* It is refused: that is final for this run, and changes nothing.
Refused ==
  /\ \/ At("exchange") /\ ~Presentable
     \/ At("pending") /\ marker # None /\ ~Own
     \/ At("config") /\ ~safe /\ config \in {None, 0}
     \/ At("config") /\ config # None /\ ~Matches(cli.material)
     \/ At("stage") /\ (config # None \/ marker # None)
     \/ At("digest") /\ ~safe
     \/ At("check") /\ service \in {"off", "down"}
     \/ At("complete") /\ cli.material # issued[cli.request]
  /\ cli' = Off
  /\ UNCHANGED <<files, journal, service, setup, announceVars, providerVars, safe, faults>>

Enrolling ==
  \/ Exchange \/ SaveMaterial \/ CheckPending \/ CheckConfig \/ ProbeExisting
  \/ Stage \/ Mark \/ Probe \/ Withdraw \/ Link \/ Commit \/ Clean
  \/ SaveDigest \/ StartService \/ CheckService \/ Complete \/ Refused

-----------------------------------------------------------------------------
(* The service *)

\* What was made for this process was made for an earlier one, once it ends.
Outdated(process) == IF process = None THEN None ELSE "earlier"

\* main, before the configuration is loaded.
RecoverAtStart ==
  /\ service = "starting" /\ Recover
  /\ service' = "loading"
  /\ UNCHANGED <<journal, cli, setup, announceVars, providerVars, safe, faults>>

\* A missing configuration is fatal; one with a bootstrap stanza selects the
\* announcing mode, with a new nonce.
Load ==
  /\ service = "loading"
  /\ service' = IF config = None THEN "down"
                ELSE IF config = Bootstrap THEN "connecting" ELSE "running"
  /\ session' = Disconnected
  /\ retained' = Outdated(retained) /\ known' = Outdated(known)
  /\ UNCHANGED <<files, journal, cli, setup, providerVars, safe, faults>>

\* Restart=always.
Restart ==
  /\ service = "down"
  /\ service' = "starting"
  /\ UNCHANGED <<files, journal, cli, setup, announceVars, providerVars, safe, faults>>

\* The first connection failed: main ends.
GiveUp ==
  /\ service = "connecting" /\ faults < MaxFaults
  /\ service' = "down"
  /\ faults' = faults + 1
  /\ UNCHANGED <<files, journal, cli, setup, announceVars, providerVars, safe>>

-----------------------------------------------------------------------------
(* runBootstrapSession *)

Announces == service = "announcing"
otherVars == <<journal, cli, setup, providerVars, safe>>
\* OnConnect subscribes and then announces; if the first fails, neither is done,
\* and nothing subscribes again on this connection.
Connect ==
  /\ service \in {"connecting", "announcing"} /\ ~session.connected
  /\ service' = "announcing"
  /\ \E ok \in BOOLEAN :
       /\ ok \/ faults < MaxFaults
       /\ faults' = IF ok THEN faults ELSE faults + 1
       /\ session' = [session EXCEPT !.connected = TRUE, !.subscribed = ok]
       /\ known' = IF ok THEN "this" ELSE known
  /\ UNCHANGED <<files, retained, otherVars>>

\* The ticker.
Announce ==
  /\ Announces /\ session.connected /\ session.applying = None
  /\ known' = "this"
  /\ UNCHANGED <<files, service, session, retained, otherVars, faults>>

Disconnect ==
  /\ Announces /\ session.connected /\ faults < MaxFaults
  /\ faults' = faults + 1
  /\ session' = [session EXCEPT !.connected = FALSE, !.subscribed = FALSE]
  /\ UNCHANGED <<files, service, retained, known, otherVars>>

\* Mutant: the nonce is not compared.
AcceptsAny(process) == TRUE

\* bootstrapBinding.delivery
Accepts(process) == setup.bound => process = "this"

\* The server accepts the claim, and pushes the configuration, retained.
Push ==
  /\ known # None /\ retained # known
  /\ retained' = known
  /\ UNCHANGED <<files, service, session, known, otherVars, faults>>

\* The channel has room for one.
Deliver ==
  /\ Announces /\ session.subscribed /\ retained # None
  /\ Accepts(retained) /\ session.held = None
  /\ session' = [session EXCEPT !.held = retained]
  /\ UNCHANGED <<files, service, retained, known, otherVars, faults>>

\* A marker that is still there is in the way of the transaction.  While it
\* runs, another delivery may wait in the channel.
Apply ==
  /\ Announces /\ session.held # None /\ session.applying = None
  /\ session' = [session EXCEPT !.held = None,
                   !.applying = IF marker = None THEN session.held ELSE None]
  /\ marker' = IF marker = None THEN [txn |-> "announce", committed |-> FALSE] ELSE marker
  /\ UNCHANGED <<config, staging, linked, service, retained, known, otherVars, faults>>

\* The result reaches the server only over the connection there is now.
Applied ==
  /\ Announces /\ session.applying # None
  /\ config' = Pushed /\ marker' = None
  /\ retained' = IF session.connected THEN None ELSE retained
  /\ service' = "down" /\ session' = Disconnected
  /\ UNCHANGED <<staging, linked, known, otherVars, faults>>

\* Mutant: the marker is left for the next start.
KeepsMarker(found) == found

Unmarked(found) == None

RolledBack ==
  /\ Announces /\ session.applying # None /\ faults < MaxFaults
  /\ marker' = Unmarked(marker)
  /\ session' = [session EXCEPT !.applying = None]
  /\ faults' = faults + 1
  /\ UNCHANGED <<config, staging, linked, service, retained, known, otherVars>>

Waiting ==
  Connect \/ Announce \/ Deliver \/ Apply \/ Applied

-----------------------------------------------------------------------------
(* The world around *)

Reboot ==
  /\ faults < MaxFaults
  /\ faults' = faults + 1
  /\ cli' = Off
  /\ service' = IF setup.enabled THEN "starting" ELSE "off"
  /\ session' = Disconnected
  /\ retained' = Outdated(retained) /\ known' = Outdated(known)
  /\ UNCHANGED <<files, journal, setup, providerVars, safe>>

Ride ==
  /\ safe' = ~safe
  /\ UNCHANGED <<files, journal, cli, service, setup, announceVars, providerVars, faults>>

\* Somebody else installs a configuration while there is none.
OtherWriter ==
  /\ config = None
  /\ config' = Foreign
  /\ UNCHANGED <<staging, linked, marker, journal, cli, service, setup, announceVars,
                 providerVars, safe, faults>>

Init ==
  /\ config \in {None, 0, Foreign, Bootstrap}
  /\ staging = None /\ linked = FALSE /\ marker = None
  /\ journal = None /\ cli = Off
  /\ setup \in [enabled : BOOLEAN, bound : BOOLEAN]
  /\ service = IF setup.enabled THEN "starting" ELSE "off"
  /\ session = Disconnected
  /\ retained = None /\ known = None
  /\ issued = [r \in Requests |-> None] /\ tokens = 0
  /\ completed = {}
  /\ safe \in BOOLEAN
  /\ faults = 0

Next ==
  \/ \E r \in Requests : Begin(r)
  \/ Enrolling \/ Fail
  \/ RecoverAtStart \/ Load \/ Restart \/ GiveUp
  \/ Waiting \/ Disconnect \/ Push \/ RolledBack
  \/ Reboot \/ Ride \/ OtherWriter

\* The claim that was begun is tried again until it succeeds.
Retries == \A r \in Requests : WF_vars(journal # None /\ r \notin completed /\ Begin(r))

Fairness ==
  /\ Retries /\ WF_vars(Enrolling)
  /\ WF_vars(RecoverAtStart \/ Load \/ Restart)
  /\ WF_vars(Connect) /\ WF_vars(Announce) /\ WF_vars(Push)
  /\ WF_vars(Deliver) /\ WF_vars(Apply) /\ WF_vars(Applied)

Spec == Init /\ [][Next]_vars /\ Fairness

-----------------------------------------------------------------------------
(* Properties *)

\* "Retries preserve the same transaction and credential": the journal is never
\* taken over by another claim, the provider always sees the same identity,
\* and what was exchanged is not exchanged again.
JournalIsKept ==
  [][journal # None =>
       /\ journal'.request = journal.request
       /\ journal'.identity = journal.identity
       /\ journal.material # None => issued' = issued /\ journal' = journal]_vars

\* What the provider was told is connected has its credential in the
\* configuration, unless the service was restarting while it was installed.
ConnectedIsInstalled ==
  ~setup.enabled => \A r \in completed : config = issued[r]

\* The same, whatever the service does.
AlwaysInstalled == \A r \in completed : config = issued[r]

\* From wherever a run of the enrollment was interrupted, further runs get it
\* connected, once the scooter stands still.
Unfinished(r) == ~setup.enabled /\ config = None /\ journal # None /\ journal.request = r

EnrollmentConnects ==
  <>[]safe => \A r \in Requests : Unfinished(r) ~> (r \in completed \/ config = Foreign)

\* A scooter that waits for its configuration gets it, unless it is connected
\* without a subscription for ever.
Deaf == Announces /\ session.connected /\ ~session.subscribed

BootstrapEnds == []<>~Deaf => (service = "connecting" ~> service = "running")

\* "Subscribe on EVERY connect, not just the first.  A reconnect after a broker
\* bounce otherwise leaves the device subscribed to nothing and waiting forever
\* with no signal."
NeverWaitsForever == service = "connecting" ~> service = "running"

\* "Both must match before a retained or repeated delivery can touch the config."
OnlyThisProcess ==
  [][config' = Pushed /\ config # Pushed /\ setup.bound => session.applying = "this"]_vars
=============================================================================
