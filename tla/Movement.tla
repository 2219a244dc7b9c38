------------------------------ MODULE Movement ------------------------------
(***************************************************************************)
(* Detection of unauthorized movement (internal/events/movement.go), and    *)
(* the handlers of the detector that drive it.  A position that is more     *)
(* than 20 m away from the anchor starts a confirmation, which samples the  *)
(* GPS every five seconds and ends in a verdict, confirmed or rejected.     *)
(*                                                                          *)
(* Time passes in ticks of one sampling interval.  Two places are the same, *)
(* or a hundred metres apart, or, if one of them is Far, further than any   *)
(* scooter can go.  Each handler is a goroutine of the bus, which reads     *)
(* Redis, may block in publishing another event, and only then takes the    *)
(* monitor's lock.  An alarm that is running when the process stops is not  *)
(* modelled, nor what becomes of a verdict once it is published.            *)
(***************************************************************************)
EXTENDS Naturals, FiniteSets

CONSTANTS
  Places,         \* near enough to each other to have been reached by moving
  Far,            \* implausibleJumpMetres away from any of them
  States,         \* of the vehicle
  Unattended,     \* unattendedVehicleStates
  Reported,       \* what the detector takes a state for: hop-on is stand-by
  Samples,        \* confirmationSampleCount
  MinConsistent,  \* confirmationMinConsistent
  Lag,            \* for how many samples a move shows in the smoothed position
  Stability,      \* stateStabilityRequirement
  RearmCooldown,  \* rearmCooldown
  MaxHandlers,    \* a bound on the overlapping handlers of the vehicle
  MaxUpdates,     \* and of the GPS
  Unset           \* not set yet

ASSUME MovementAssumption ==
  /\ Unattended \subseteq States
  /\ Reported \in [States -> States]
  /\ \A s \in States : Reported[Reported[s]] = Reported[s]
  /\ {MinConsistent, Lag, Stability, RearmCooldown, MaxUpdates} \subseteq Nat
  /\ Samples \in Nat \ {0}
  /\ Far \notin Places /\ Unset \notin Places \cup {Far}
  /\ Unset \notin States /\ Unset \notin 0..Stability

\* There is always somewhere else to go: see Elsewhere.
ASSUME PlacesAssumption == IsFiniteSet(Places) => Cardinality(Places) > MaxUpdates + 4

VARIABLES
  place,            \* what the GPS says (external)
  vehicle,          \* vehicle:state in Redis (external)
  vehicleNotified,  \* the bus has a notification of it
  lastVehicleState, \* Detector.lastState
  vehicleHandlers,  \* the changes checkVehicleEvents is publishing
  updates,          \* the calls of OnGPSUpdate: what they have read of the vehicle
  monitor,          \* the fields of MovementMonitor
  runs,             \* the confirmations
  stood             \* for how long the vehicle has been in its state, as reported

movementVars == <<place, vehicle, vehicleNotified, lastVehicleState, vehicleHandlers,
                  updates, monitor, runs, stood>>
scooter == <<place, vehicle, vehicleNotified, stood>>

Positions == Places \cup {Far}
Verdicts == {"confirmed", "rejected"}

\* stateEnteredAt and cooldownUntil as ticks since and ticks to go
Monitors ==
  [anchor : Positions \cup {Unset}, anchorState : States \cup {Unset},
   entered : (0..Stability) \cup {Unset}, confirming : BOOLEAN, cooldown : 0..RearmCooldown]

\* runConfirmation: ridden says that the scooter has been moved, since the
\* trigger, by somebody who had unlocked it.
Sampling ==
  [at : {"sampling"}, anchor : Positions, state : Unattended, due : BOOLEAN,
   last : Positions \cup {Unset}, taken : 0..Samples,
   consistent : 0..MinConsistent, lag : 0..Lag, ridden : BOOLEAN]
Ending ==
  [at : {"publishing", "ending"}, verdict : Verdicts, position : Positions \cup {Unset}]

MovementTypeOK ==
  /\ place \in Positions
  /\ vehicle \in States
  /\ vehicleNotified \in BOOLEAN
  /\ lastVehicleState \in States \cup {Unset}
  /\ vehicleHandlers \subseteq States
  /\ updates \subseteq [place : Positions, vehicle : Unattended \cup {Unset}]
  /\ monitor \in Monitors
  /\ runs \subseteq Sampling \cup Ending
  /\ stood \in 0..Stability

AtMost(bound, n) == IF n < bound THEN n ELSE bound
Pred(n) == IF n = 0 THEN 0 ELSE n - 1

\* haversineMetres against movementAnchorThreshold and implausibleJumpMetres
Displaced(p, q) == p # q
Implausible(p, q) == p # q /\ Far \in {p, q}

\* A place nothing remembers.
Remembered ==
  {place, monitor.anchor} \cup {u.place : u \in updates}
    \cup (UNION {{r.anchor, r.last} : r \in {s \in runs : s.at = "sampling"}})
    \cup {r.position : r \in {s \in runs : s.at # "sampling"}}
Elsewhere == CHOOSE p \in Places : p \notin Remembered

-----------------------------------------------------------------------------
(* The scooter and the clock *)

SampleIsDue == \E r \in runs : r.at = "sampling" /\ r.due

\* Redis, the bus and the deferred call are quick, compared to a tick.
SamplingTick(moves) ==
  /\ ~SampleIsDue /\ ~vehicleNotified /\ \A r \in runs : r.at # "ending"
  /\ place' = IF moves THEN Elsewhere ELSE place
  /\ monitor' = [monitor EXCEPT !.cooldown = Pred(@),
                   !.entered = IF @ = Unset THEN Unset ELSE AtMost(Stability, @ + 1)]
  /\ stood' = AtMost(Stability, stood + 1)
  /\ runs' = {IF r.at # "sampling" THEN r
              ELSE [r EXCEPT !.due = TRUE,
                             !.ridden = @ \/ (moves /\ vehicle \notin Unattended)] : r \in runs}
  /\ UNCHANGED <<vehicle, vehicleNotified, lastVehicleState, vehicleHandlers, updates>>

\* The GPS is mistaken, or the scooter is back at the anchor.
Drift ==
  /\ \E p \in {Far, monitor.anchor} \ {place, Unset} : place' = p
  /\ UNCHANGED <<vehicle, vehicleNotified, lastVehicleState, vehicleHandlers, updates,
                 monitor, runs, stood>>

\* A ride takes longer than the bus waits, and does not fit between two samples.
VehicleChanges ==
  /\ ~vehicleNotified
  /\ \E s \in States \ {vehicle} :
       /\ s \in Unattended => ~SampleIsDue
       /\ vehicle' = s
       /\ stood' = IF Reported[s] = Reported[vehicle] THEN stood ELSE 0
  /\ vehicleNotified' = TRUE
  /\ UNCHANGED <<place, lastVehicleState, vehicleHandlers, updates, monitor, runs>>

-----------------------------------------------------------------------------
(* Detector *)

\* checkVehicleEvents up to the event it publishes.
CheckVehicleEvents ==
  /\ vehicleNotified
  /\ LET state == Reported[vehicle]
     IN /\ vehicleHandlers' = IF lastVehicleState = state THEN vehicleHandlers
                              ELSE vehicleHandlers \cup {state}
        /\ Cardinality(vehicleHandlers') <= MaxHandlers
        /\ lastVehicleState' = state
  /\ vehicleNotified' = FALSE
  /\ UNCHANGED <<place, vehicle, stood, updates, monitor, runs>>

\* Mutant: the time of the change is not noted.
ForgetsTime(state) ==
  [monitor EXCEPT !.anchor = Unset, !.anchorState = state, !.cooldown = 0]

\* A confirmation that is running is not touched.
Reset(state) ==
  [monitor EXCEPT !.anchor = Unset, !.anchorState = state, !.entered = 0, !.cooldown = 0]

\* The event has been published.
OnVehicleStateChange(state) ==
  /\ state \in vehicleHandlers
  /\ vehicleHandlers' = vehicleHandlers \ {state}
  /\ monitor' = Reset(state)
  /\ UNCHANGED <<scooter, lastVehicleState, updates, runs>>

\* checkGPSEvents, with a fix: OnGPSUpdate is called with what the bus read.
CheckGPSEvents ==
  /\ Cardinality(updates) < MaxUpdates
  /\ updates' = updates \cup {[place |-> place, vehicle |-> Unset]}
  /\ UNCHANGED <<scooter, lastVehicleState, vehicleHandlers, monitor, runs>>

-----------------------------------------------------------------------------
(* MovementMonitor *)

\* detectionArmed, as far as it depends on the vehicle.
ReadStates(u) ==
  /\ u.vehicle = Unset
  /\ updates' = (updates \ {u}) \cup
       IF vehicle \in Unattended THEN {[u EXCEPT !.vehicle = vehicle]} ELSE {}
  /\ UNCHANGED <<scooter, lastVehicleState, vehicleHandlers, monitor, runs>>

\* The power manager is about to suspend, or has just resumed.
Hibernates(u) ==
  /\ u.vehicle = Unset
  /\ updates' = updates \ {u}
  /\ UNCHANGED <<scooter, lastVehicleState, vehicleHandlers, monitor, runs>>

Consumed(u) ==
  /\ u.vehicle # Unset
  /\ updates' = updates \ {u}
  /\ UNCHANGED <<scooter, lastVehicleState, vehicleHandlers>>

Busy == monitor.cooldown > 0 \/ monitor.confirming
Unanchored(u) == monitor.anchor = Unset \/ monitor.anchorState # u.vehicle

Suppressed(u) == Consumed(u) /\ Busy /\ UNCHANGED <<monitor, runs>>

\* A state that was entered before it was noticed is not noticed here either.
Anchors(u) ==
  /\ Consumed(u) /\ ~Busy /\ Unanchored(u)
  /\ monitor' = [monitor EXCEPT !.anchor = u.place, !.anchorState = u.vehicle,
                   !.entered = IF @ = Unset THEN 0 ELSE @]
  /\ UNCHANGED runs

Ignored(u) ==
  /\ Consumed(u) /\ ~Busy /\ ~Unanchored(u)
  /\ monitor.entered < Stability \/ ~Displaced(monitor.anchor, u.place)
  /\ UNCHANGED <<monitor, runs>>

Considered(u) ==
  /\ Consumed(u) /\ ~Busy /\ ~Unanchored(u)
  /\ monitor.entered = Stability /\ Displaced(monitor.anchor, u.place)

Teleported(u) ==
  /\ Considered(u) /\ Implausible(monitor.anchor, u.place)
  /\ monitor' = [monitor EXCEPT !.anchor = u.place]
  /\ UNCHANGED runs

Triggers(u) ==
  /\ Considered(u) /\ ~Implausible(monitor.anchor, u.place)
  /\ monitor' = [monitor EXCEPT !.confirming = TRUE]
  /\ runs' = runs \cup
       {[at |-> "sampling", anchor |-> monitor.anchor, state |-> u.vehicle, due |-> TRUE,
         last |-> Unset, taken |-> 0, consistent |-> 0, lag |-> 0, ridden |-> FALSE]}

OnGPSUpdate(u) ==
  Suppressed(u) \/ Anchors(u) \/ Ignored(u) \/ Teleported(u) \/ Triggers(u)

-----------------------------------------------------------------------------
(* runConfirmation *)

\* Mutant: the vehicle is not looked at.
OnlyPosition(r) == Implausible(r.anchor, place)

Interrupted(r) == Implausible(r.anchor, place) \/ vehicle # r.state

\* emaSmooth and consistentSegments: the smoothed position follows a move for
\* some more samples, and each of them is a segment that counts.
Smoothed(r) ==
  LET lag == IF r.last = Unset THEN 0
             ELSE IF place # r.last THEN Lag ELSE Pred(r.lag)
  IN [r EXCEPT !.due = FALSE, !.last = place, !.taken = @ + 1, !.lag = lag,
               !.consistent = IF lag > 0 THEN AtMost(MinConsistent, @ + 1) ELSE @]

\* confirmedDisplacementThreshold
Confirmed(r) == r.consistent = MinConsistent /\ Displaced(r.anchor, r.last)

\* The verdict, and the last position.
Concluded(r, verdict) ==
  [at |-> "publishing", verdict |-> verdict,
   position |-> IF verdict = "rejected" THEN Unset ELSE IF r.lag > 0 THEN Elsewhere ELSE r.last]

Replaced(r, s) == runs' = (runs \ {r}) \cup {s}
RunStep(r) == r \in runs /\ UNCHANGED <<scooter, lastVehicleState, vehicleHandlers, updates>>
SamplingStep(r) == RunStep(r) /\ r.at = "sampling" /\ r.due /\ UNCHANGED monitor

Collect(r) ==
  /\ SamplingStep(r) /\ ~Interrupted(r)
  /\ LET s == Smoothed(r)
     IN IF s.taken < Samples THEN Replaced(r, s)
        ELSE Replaced(r, Concluded(s, IF Confirmed(s) THEN "confirmed" ELSE "rejected"))

\* lost_fix_or_state_change
Rejected(r) == Replaced(r, Concluded(r, "rejected"))
Bails(r) == SamplingStep(r) /\ Interrupted(r) /\ Rejected(r)
LosesFix(r) == SamplingStep(r) /\ ~Interrupted(r) /\ Rejected(r)

\* publishVerdict returns, whether or not it could; then a confirmed position
\* is the next anchor.
Published(r) ==
  /\ RunStep(r) /\ r.at = "publishing"
  /\ Replaced(r, [r EXCEPT !.at = "ending"])
  /\ monitor' = IF r.verdict = "rejected" THEN monitor
                ELSE [monitor EXCEPT !.anchor = r.position]

\* Mutant: once a confirmation has run, no other one is started.
StaysConfirming(m) == [m EXCEPT !.cooldown = RearmCooldown]

Released(m) == [m EXCEPT !.confirming = FALSE, !.cooldown = RearmCooldown]

\* The deferred call.
Ends(r) ==
  /\ RunStep(r) /\ r.at = "ending"
  /\ runs' = runs \ {r}
  /\ monitor' = Released(monitor)

-----------------------------------------------------------------------------
\* InitializeBaseline reads the state as it is in Redis, not as it is reported,
\* and does not tell the monitor.
MovementInit ==
  /\ place = CHOOSE p \in Places : TRUE
  /\ vehicle \in States
  /\ vehicleNotified = FALSE
  /\ lastVehicleState \in {Unset, vehicle}
  /\ vehicleHandlers = {} /\ updates = {} /\ runs = {}
  /\ monitor = [anchor |-> Unset, anchorState |-> Unset, entered |-> Unset,
                confirming |-> FALSE, cooldown |-> 0]
  /\ stood = 0

VehicleWork ==
  \/ CheckVehicleEvents
  \/ \E s \in vehicleHandlers : OnVehicleStateChange(s)
  \/ \E r \in runs : Collect(r) \/ Bails(r) \/ Published(r) \/ Ends(r)
GPSWork == CheckGPSEvents \/ \E u \in updates : ReadStates(u) \/ OnGPSUpdate(u)
Working == VehicleWork \/ GPSWork

MovementNext ==
  \/ Working
  \/ \E moves \in BOOLEAN : SamplingTick(moves)
  \/ Drift \/ VehicleChanges
  \/ \E u \in updates : Hibernates(u)
  \/ \E r \in runs : LosesFix(r)

\* Goroutines run, publishing has a timeout, and the GPS reports where it is.
MovementFairness ==
  /\ WF_movementVars(\E moves \in BOOLEAN : SamplingTick(moves))
  /\ WF_movementVars(VehicleWork) /\ WF_movementVars(GPSWork)

MovementSpec == MovementInit /\ [][MovementNext]_movementVars /\ MovementFairness

-----------------------------------------------------------------------------
(* Properties *)

Arms == monitor'.confirming /\ ~monitor.confirming

\* "Minimum time the vehicle must have been in its current state before we
\* arm": once the change has been handled, however late that was.
StableBeforeArming ==
  [][Arms /\ ~vehicleNotified /\ vehicleHandlers = {} => stood = Stability]_movementVars

\* The same, whatever is being handled.
AlwaysStable == [][Arms => stood = Stability]_movementVars

\* What was moved by somebody who had unlocked it is not confirmed, even if
\* the unlocking fell between the reading of the state and the trigger.
ConfirmedMeansTaken ==
  [][\A r \in runs : r.at = "sampling" /\ r.ridden
       => \A s \in runs' \ runs : s.at = "publishing" => s.verdict = "rejected"]_movementVars

\* A scooter that is taken away is reported, again and again.
Taken == <>[](vehicle \in Unattended) /\ <>[][Working \/ SamplingTick(TRUE)]_movementVars

TheftIsReported ==
  Taken => []<>(\E r \in runs : r.at = "publishing" /\ r.verdict = "confirmed")
=============================================================================
