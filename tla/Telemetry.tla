------------------------------ MODULE Telemetry ------------------------------
(***************************************************************************)
(* What the server knows of the scooter.  Several goroutines of the client  *)
(* read a snapshot from Redis and publish it: in full, or as the difference *)
(* (delta) to the snapshot that was sent last.  Reading is not under        *)
(* telMu, publishing is, up to the acknowledgement.  A publish that is not  *)
(* acknowledged in time may still reach the server, later or never.         *)
(*                                                                          *)
(* A snapshot is abstracted to the vehicle's state, which makes a full      *)
(* message due, and the GPS position, which is smoothed while parked and is *)
(* None when the gps hash is empty.  Telemetry that is the same in every    *)
(* message, and the timestamp, are left out.  The reconnect after too many  *)
(* failures is in CommandSubscription: what it loses, Lose loses here.      *)
(***************************************************************************)
EXTENDS Integers, FiniteSets

CONSTANTS
  None,             \* absent
  Callers,          \* the goroutines that publish
  Loop,             \* the one with the ticker
  Positions,        \* where the scooter may be, on a line
  Smoothing,        \* parkedGPSSmoothingMetres
  FullResyncEvery,  \* fullResyncEvery
  MaxLate           \* a bound on the messages that are still under way

ASSUME TelemetryAssumption ==
  /\ Loop \in Callers
  /\ Positions \subseteq Int /\ None \notin Positions
  /\ {Smoothing, FullResyncEvery, MaxLate} \subseteq Nat

VARIABLES
  redis,      \* what the snapshot is read from
  calls,      \* what each caller has read
  lastSent,   \* lastSentMap, and with it lastSentState
  sinceFull,  \* flushesSinceFull
  reported,   \* lastGPSLat, lastGPSLng; None unless lastGPSValid
  late,       \* messages that were given up but may still arrive
  server,     \* what the server knows (external)
  \* History
  unsure      \* such a message has arrived since the last full one

vars == <<redis, calls, lastSent, sinceFull, reported, late, server, unsure>>

Fields == {"state", "position"}
States == {"parked", "ready-to-drive"}
Snapshots == [state: States, position: Positions \cup {None}]

ASSUME NoneAssumption == None \notin Snapshots

\* The leaves of a message, full or not: those that are cleared are None.
Messages ==
  {[f \in fields |-> s[f]] : s \in Snapshots, fields \in SUBSET Fields}

TypeOK ==
  /\ redis \in Snapshots
  /\ calls \in [Callers -> Snapshots \cup {None}]
  /\ lastSent \in Snapshots \cup {None}
  /\ sinceFull \in 0..FullResyncEvery
  /\ reported \in Positions \cup {None}
  /\ late \subseteq Messages /\ Cardinality(late) <= MaxLate
  /\ server \in Snapshots \cup {None}
  /\ unsure \in BOOLEAN

-----------------------------------------------------------------------------
(* The scooter (external), and reading *)

Change ==
  /\ \E s \in Snapshots : redis' = s
  /\ redis' # redis
  /\ UNCHANGED <<calls, lastSent, sinceFull, reported, late, server, unsure>>

\* GetTelemetryFromRedis: on the ticker, on a change of the vehicle's state,
\* before a suspend, or when the monitor flushes.  Its hashes are read one by
\* one; no property is about two of them, so here they are read at once.
Read(c) ==
  /\ calls[c] = None
  /\ calls' = [calls EXCEPT ![c] = redis]
  /\ UNCHANGED <<redis, lastSent, sinceFull, reported, late, server, unsure>>

-----------------------------------------------------------------------------
(* publishTelemetrySmart *)

Distance(p, q) == IF p < q THEN q - p ELSE p - q

\* smoothParkedGPS: a parked scooter stays where it was reported last.
Smooth(s) ==
  IF /\ s.state # "ready-to-drive" /\ s.position # None
     /\ reported # None /\ Distance(reported, s.position) < Smoothing
  THEN [s EXCEPT !.position = reported]
  ELSE s

\* Mutant: a key that is gone is not cleared.
WithoutCleared(prev, curr) ==
  [f \in {g \in Fields : prev[g] # curr[g] /\ curr[g] # None} |-> curr[f]]

\* computeDelta
Delta(prev, curr) == [f \in {g \in Fields : prev[g] # curr[g]} |-> curr[f]]

\* Mutant: a full message becomes due one delta too late.
DueLater(forced, s) ==
  \/ forced
  \/ lastSent = None
  \/ sinceFull > FullResyncEvery
  \/ s.state # lastSent.state

IsFull(forced, s) ==
  \/ forced
  \/ lastSent = None
  \/ sinceFull >= FullResyncEvery
  \/ s.state # lastSent.state

\* The server merges what it gets (external).
Merged(message) ==
  IF server = None THEN message
  ELSE [f \in Fields |-> IF f \in DOMAIN message THEN message[f] ELSE server[f]]

\* Mutant: the deltas are not counted.
NotCounted(s, full) == lastSent' = s /\ sinceFull' = 0

\* What is recorded when the acknowledgement came.
Sent(s, full) ==
  /\ lastSent' = s
  /\ sinceFull' = IF full THEN 0 ELSE sinceFull + 1

\* Mutant: the snapshot is recorded before it is known to have been sent.
RecordedAnyway(s) == lastSent' = s /\ UNCHANGED sinceFull

\* Without one nothing is.
NotSent(s) == UNCHANGED <<lastSent, sinceFull>>

Acknowledged(s, full, message) ==
  /\ server' = Merged(message)
  /\ Sent(s, full)
  /\ unsure' = (unsure /\ ~full)
  /\ UNCHANGED late

\* The publish fails, or times out while the client still has the message.
GivenUp(s, message) ==
  /\ NotSent(s)
  /\ late' \in {late, late \cup {message}} /\ Cardinality(late') <= MaxLate
  /\ UNCHANGED <<server, unsure>>

\* Of the goroutines of publishTelemetry, the one that listens to the power
\* manager forces the last message before a suspend to be full.
MayForce(c) == IF c = Loop THEN {FALSE} ELSE BOOLEAN

Publish(c, delivered) ==
  /\ calls[c] # None
  /\ \E forced \in MayForce(c) :
       LET s == Smooth(calls[c])
           full == IsFull(forced, s)
           message == IF full THEN s ELSE Delta(lastSent, s)
       IN /\ reported' = s.position
          /\ IF delivered THEN Acknowledged(s, full, message) ELSE GivenUp(s, message)
  /\ calls' = [calls EXCEPT ![c] = None]
  /\ UNCHANGED redis

-----------------------------------------------------------------------------
(* Messages that were given up *)

Arrive(message) ==
  /\ late' = late \ {message}
  /\ server' = Merged(message)
  /\ unsure' = TRUE
  /\ UNCHANGED <<redis, calls, lastSent, sinceFull, reported>>

Lose(message) ==
  /\ late' = late \ {message}
  /\ UNCHANGED <<redis, calls, lastSent, sinceFull, reported, server, unsure>>

-----------------------------------------------------------------------------
Init ==
  /\ redis \in Snapshots
  /\ calls = [c \in Callers |-> None]
  /\ lastSent = None /\ sinceFull = 0 /\ reported = None
  /\ late = {} /\ server = None /\ unsure = FALSE

Next ==
  \/ Change
  \/ \E c \in Callers :
       \/ Read(c)
       \/ \E delivered \in BOOLEAN : Publish(c, delivered)
  \/ \E message \in late : Arrive(message) \/ Lose(message)

\* The ticker never stops, and a publish that is tried again and again is
\* acknowledged at last, as the network comes back.
Fairness ==
  /\ WF_vars(Read(Loop))
  /\ SF_vars(Publish(Loop, TRUE))

Spec == Init /\ [][Next]_vars /\ Fairness

-----------------------------------------------------------------------------
(* Properties *)

\* Unless a message that was given up has arrived since the last full one,
\* the server knows what was sent last, key by key: the deltas lose nothing.
ServerKnowsLastSent == (lastSent # None /\ ~unsure) => server = lastSent

\* What the scooter would report now.
UpToDate == server = Smooth(redis)

\* When the scooter does not change any more the server comes to know its
\* state, whatever was lost or came late: "a missed message can never leave the
\* server permanently stale".
ServerCatchesUp == <>[][FALSE]_redis => <>[]UpToDate
=============================================================================
