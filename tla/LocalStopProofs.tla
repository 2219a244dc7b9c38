--------------------------- MODULE LocalStopProofs ---------------------------
(***************************************************************************)
(* Proofs about LocalStop, for any number of operations, revisions, probes, *)
(* connections and generations, and queues of any size: an apply is         *)
(* confirmed, a result is the server's, and the gate follows the journal.   *)
(***************************************************************************)
EXTENDS LocalStop, FiniteSetTheorems, SequenceTheorems, TLAPS

USE LocalStopAssumption DEF LocalStopAssumption

(***************************************************************************)
(* Types.  What is queried, applied, offered and permitted is never idle.  *)
(***************************************************************************)

Active == {j \in Journals : j.phase # "idle"}
ActiveAttempts == [challenge : Challenges, mode : {"query", "apply"}, journal : Active]
ActiveQueries == [challenge : Challenges, journal : Active]

Adapters ==
  [settingsReady : BOOLEAN, blocked : BOOLEAN, ready : BOOLEAN, inhibited : BOOLEAN,
   journal : Journals \cup {None}, probe : Probes \cup {None}, probes : Challenges,
   used : SUBSET Snapshots, attempt : ActiveAttempts \cup {None},
   query : ActiveQueries \cup {None}, permit : ActiveQueries \cup {None},
   stop : ActiveAttempts \cup {None}, queue : Seq(Messages)]

Answered == {"committed", "not_found", "superseded", "error"}
Replies ==
  [challenge : Challenges, operation : Operations \cup {None}, result : Answered \cup {"none"},
   fence : Generations \cup {None}]

\* All but the adapter.
WorldTyped ==
  /\ connected \in BOOLEAN /\ connections \in 0..MaxConnections
  /\ journal \in Journals /\ stops \in 0..MaxStops
  /\ snapshots \in Seq(Snapshots) /\ lastProbe \in Challenges
  /\ generation \in Generations
  /\ committed \subseteq [operation : Operations, fence : Generations]
  /\ requests \subseteq ActiveAttempts /\ answers \subseteq Replies

LEMMA JournalFields ==
  ASSUME NEW j \in Journals
  PROVE  /\ j.phase \in {"idle", "preparing", "prepared", "confirmed", "uncertain"}
         /\ j.revision \in Revisions /\ j.revision \in Nat
         /\ j.phase # "idle" => j.operation \in Operations
         /\ j.fence \in Generations \cup {None}
  BY DEF Journals, Revisions

(***************************************************************************)
(* What holds of an adapter.  Every step of it is a function; these hold of *)
(* its value if they held of its argument.                                  *)
(***************************************************************************)

\* The queue is never longer than it may be.
Bounded(a) == a \in Adapters /\ Len(a.queue) <= QueueSize

\* What is to be told of an operation is what the server has answered.
TrueMessage(m) ==
  \/ m.type \in {"probe", "offer"}
  \/ \E answer \in answers : answer.operation = m.operation /\ answer.result = m.type

Truthful(a) == \A i \in 1..Len(a.queue) : TrueMessage(a.queue[i])

\* While the second probe is out, the server has not found the operation; and
\* if the dashboard has answered the probe with the journal that was queried,
\* then it has shown it after that.
Shown(record, challenge) ==
  \A i \in 1..Len(snapshots) :
    (snapshots[i].challenge = challenge /\ snapshots[i].journal = record)
      => record \in reconfirmed

Confirming(a) ==
  (a.probe # None /\ a.probe.purpose = "confirm" /\ a.query # None)
    => /\ a.query.journal.operation \in notFound
       /\ Shown(a.query.journal, a.probe.challenge)

\* An apply is to be sent only for such a journal.
Reconfirmed(a) == (a.stop # None /\ a.stop.mode = "apply") => a.stop.journal \in reconfirmed

\* No challenge is used twice, and what was queried is not newer than the
\* journal.
Numbered(a) ==
  /\ a.query # None => a.query.journal.revision <= journal.revision
  /\ a.probe # None => a.probe.challenge <= a.probes
  /\ lastProbe <= a.probes
  /\ \A i \in 1..Len(snapshots) : snapshots[i].challenge <= a.probes

\* The probes in the queue are newer than the last one the dashboard got, each
\* than those before it.
Fresh(a) ==
  \A i \in 1..Len(a.queue) : a.queue[i].type = "probe" =>
    /\ lastProbe < a.queue[i].challenge /\ a.queue[i].challenge <= a.probes
    /\ \A j \in 1..(i - 1) :
         a.queue[j].type = "probe" => a.queue[j].challenge < a.queue[i].challenge

Good(a) ==
  /\ Bounded(a) /\ Truthful(a) /\ Confirming(a) /\ Reconfirmed(a)
  /\ Numbered(a) /\ Fresh(a)

\* One that has forgotten something, or has changed what Good does not read.
LEMMA GoodIfForgotten ==
  ASSUME NEW a, Good(a), NEW b \in Adapters,
         b.probes = a.probes, b.queue = a.queue, b.stop \in {a.stop, None},
         b.probe \in {a.probe, None}, b.query \in {a.query, None}
  PROVE  Good(b)
  BY DEF Good, Bounded, Truthful, Confirming, Reconfirmed, Numbered, Fresh

LEMMA ForgetFields ==
  ASSUME NEW a \in Adapters
  PROVE  /\ Forget(a) \in Adapters
         /\ Forget(a).probe = None /\ Forget(a).attempt = None /\ Forget(a).query = None
         /\ Forget(a).used = {}
         /\ \A f \in {"settingsReady", "blocked", "ready", "inhibited", "journal", "probes",
                      "permit", "stop", "queue"} : Forget(a)[f] = a[f]
  BY DEF Forget, Adapters

LEMMA InhibitedFields ==
  ASSUME NEW a \in Adapters
  PROVE  /\ Inhibited(a) \in Adapters
         /\ Inhibited(a).probe = None /\ Inhibited(a).query = None
         /\ Inhibited(a).used = {} /\ Inhibited(a).ready = FALSE
         /\ Inhibited(a).probes = a.probes /\ Inhibited(a).stop = a.stop
         /\ Inhibited(a).queue = a.queue
<1> DEFINE forgotten == Forget(a)
<1>1. forgotten \in Adapters /\ Inhibited(a) = [forgotten EXCEPT !.ready = FALSE,
                                                  !.inhibited = TRUE, !.permit = None]
  BY ForgetFields DEF Inhibited
<1>2. /\ forgotten.probe = None /\ forgotten.query = None /\ forgotten.used = {}
      /\ forgotten.probes = a.probes /\ forgotten.stop = a.stop /\ forgotten.queue = a.queue
  BY ForgetFields
<1> HIDE DEF forgotten
<1> QED
  BY <1>1, <1>2 DEF Adapters

LEMMA ResetFields ==
  ASSUME NEW a \in Adapters
  PROVE  /\ Reset(a) \in Adapters
         /\ Reset(a).probe = None /\ Reset(a).query = None /\ Reset(a).stop = None
         /\ Reset(a).used = {} /\ Reset(a).ready = FALSE /\ Reset(a).queue = <<>>
         /\ Reset(a).probes = a.probes
<1> DEFINE forgotten == Forget(a)
<1>1. /\ forgotten \in Adapters
      /\ Reset(a) = [forgotten EXCEPT !.permit = None, !.ready = FALSE, !.inhibited = FALSE,
                                      !.journal = None, !.stop = None, !.queue = <<>>]
  BY ForgetFields DEF Reset
<1>2. /\ forgotten.probe = None /\ forgotten.query = None /\ forgotten.used = {}
      /\ forgotten.probes = a.probes
  BY ForgetFields
<1>3. <<>> \in Seq(Messages)
  OBVIOUS
<1> HIDE DEF forgotten
<1> QED
  BY <1>1, <1>2, <1>3 DEF Adapters

LEMMA InhibitedGood ==
  ASSUME NEW a, Good(a)
  PROVE  Good(Inhibited(a))
  BY InhibitedFields, GoodIfForgotten DEF Good, Bounded

\* A queue that got one more entry, and may have lost its oldest.
Longer(q, m) ==
  IF Len(Append(q, m)) > QueueSize THEN Tail(Append(q, m)) ELSE Append(q, m)

Prolonged(q, m, longer) ==
  /\ longer[Len(longer)] = m
  /\ \/ /\ Len(longer) = Len(q) + 1
        /\ \A i \in 1..Len(q) : longer[i] = q[i]
     \/ /\ Len(longer) = Len(q)
        /\ \A i \in 1..(Len(q) - 1) : longer[i] = q[i + 1]

LEMMA LongerQueue ==
  ASSUME NEW S, NEW q \in Seq(S), NEW m \in S, Len(q) <= QueueSize
  PROVE  /\ Longer(q, m) \in Seq(S) /\ Len(Longer(q, m)) <= QueueSize
         /\ Prolonged(q, m, Longer(q, m))
<1> DEFINE kept == Longer(q, m)
<1>1. /\ Append(q, m) \in Seq(S) /\ Append(q, m) # <<>>
      /\ Len(Append(q, m)) = Len(q) + 1
      /\ \A i \in 1..Len(q) : Append(q, m)[i] = q[i]
      /\ Append(q, m)[Len(q) + 1] = m
  BY AppendProperties
<1>2. Len(q) \in Nat
  OBVIOUS
<1>3. CASE Len(q) + 1 > QueueSize
  <2>1. kept = Tail(Append(q, m))
    BY <1>1, <1>3 DEF Longer
  <2>2. /\ kept \in Seq(S) /\ Len(kept) = Len(q)
        /\ \A i \in 1..Len(kept) : kept[i] = Append(q, m)[i + 1]
    BY SMTT(20), <1>1, <1>2, <2>1, HeadTailProperties
  <2>3. kept[Len(kept)] = m
    <3>1. Len(kept) \in 1..Len(kept)
      BY <1>2, <1>3, <2>2
    <3> QED
      BY <1>1, <2>2, <3>1
  <2>4. \A i \in 1..(Len(q) - 1) : kept[i] = q[i + 1]
    <3> TAKE i \in 1..(Len(q) - 1)
    <3>1. i \in 1..Len(kept) /\ i + 1 \in 1..Len(q)
      BY <1>2, <2>2
    <3> QED
      BY <1>1, <2>2, <3>1
  <2>5. Len(kept) <= QueueSize
    BY <1>2, <2>2
  <2> QED
    BY <2>2, <2>3, <2>4, <2>5 DEF Prolonged
<1>4. CASE ~(Len(q) + 1 > QueueSize)
  <2>1. kept = Append(q, m)
    BY <1>1, <1>4 DEF Longer
  <2>2. Len(kept) <= QueueSize
    BY <1>1, <1>2, <1>4, <2>1
  <2> QED
    BY <1>1, <2>1, <2>2 DEF Prolonged
<1> QED
  BY <1>3, <1>4

\* What Queued does to the queue, and leaves alone.
LEMMA QueuedFields ==
  ASSUME NEW a \in Adapters, NEW m \in Messages, Len(a.queue) <= QueueSize
  PROVE  /\ Queued(a, m) \in Adapters
         /\ Len(Queued(a, m).queue) <= QueueSize
         /\ \A f \in {"settingsReady", "blocked", "ready", "inhibited", "journal", "probe",
                      "probes", "used", "attempt", "query", "permit", "stop"} :
              Queued(a, m)[f] = a[f]
         /\ Prolonged(a.queue, m, Queued(a, m).queue)
<1> DEFINE kept == Longer(a.queue, m)
<1>1. a.queue \in Seq(Messages)
  BY DEF Adapters
<1>2. /\ kept \in Seq(Messages) /\ Len(kept) <= QueueSize
      /\ Prolonged(a.queue, m, kept)
  BY <1>1, LongerQueue
<1>3. Queued(a, m) = [a EXCEPT !.queue = kept]
  BY DEF Queued, Adapters, Longer
<1> HIDE DEF kept
<1>4. /\ Queued(a, m) \in Adapters /\ Queued(a, m).queue = kept
      /\ \A f \in {"settingsReady", "blocked", "ready", "inhibited", "journal", "probe",
                   "probes", "used", "attempt", "query", "permit", "stop"} :
           Queued(a, m)[f] = a[f]
  BY <1>2, <1>3 DEF Adapters
<1> QED
  BY <1>2, <1>4

\* What holds of the entries and of the new one holds of the longer queue.
LEMMA ProlongedKeeps ==
  ASSUME NEW q \in Seq(Messages), NEW m, NEW longer \in Seq(Messages), Prolonged(q, m, longer),
         NEW i \in 1..Len(longer)
  PROVE  longer[i] = m \/ \E j \in 1..Len(q) : longer[i] = q[j]
<1>1. Len(q) \in Nat /\ Len(longer) \in Nat
  OBVIOUS
<1>2. CASE i = Len(longer)
  BY <1>2 DEF Prolonged
<1>3. CASE i # Len(longer) /\ Len(longer) = Len(q) + 1
  <2>1. i \in 1..Len(q) /\ ~(Len(longer) = Len(q))
    BY <1>1, <1>3
  <2> QED
    BY <2>1 DEF Prolonged
<1>4. CASE i # Len(longer) /\ Len(longer) = Len(q)
  <2>1. i \in 1..(Len(q) - 1) /\ i + 1 \in 1..Len(q) /\ ~(Len(longer) = Len(q) + 1)
    BY <1>1, <1>4
  <2> QED
    BY <2>1 DEF Prolonged
<1> QED
  BY <1>2, <1>3, <1>4 DEF Prolonged

FreshMessage(a, m) ==
  m.type = "probe" =>
    /\ lastProbe < m.challenge /\ m.challenge <= a.probes
    /\ \A i \in 1..Len(a.queue) :
         a.queue[i].type = "probe" => a.queue[i].challenge < m.challenge

LEMMA ProlongedFresh ==
  ASSUME NEW a \in Adapters, NEW b \in Adapters, NEW m, Fresh(a), FreshMessage(a, m),
         b.probes = a.probes, Prolonged(a.queue, m, b.queue)
  PROVE  Fresh(b)
<1> DEFINE q == a.queue
           longer == b.queue
<1>1. q \in Seq(Messages) /\ longer \in Seq(Messages) /\ Len(q) \in Nat /\ Len(longer) \in Nat
  BY DEF Adapters
<1> SUFFICES ASSUME NEW i \in 1..Len(longer), longer[i].type = "probe"
             PROVE  /\ lastProbe < longer[i].challenge /\ longer[i].challenge <= a.probes
                    /\ \A j \in 1..(i - 1) :
                         longer[j].type = "probe" => longer[j].challenge < longer[i].challenge
  BY DEF Fresh
<1>2. CASE i = Len(longer)
  <2>1. longer[i] = m
    BY <1>2 DEF Prolonged
  <2>2. ASSUME NEW j \in 1..(i - 1), longer[j].type = "probe"
        PROVE  longer[j].challenge < longer[i].challenge
    <3>1. j \in 1..Len(longer) /\ j # Len(longer)
      BY <1>1, <1>2
    <3>2. \E k \in 1..Len(q) : longer[j] = q[k]
      <4>1. CASE Len(longer) = Len(q) + 1
        <5>1. j \in 1..Len(q) /\ ~(Len(longer) = Len(q))
          BY <1>1, <3>1, <4>1
        <5> QED
          BY <5>1 DEF Prolonged
      <4>2. CASE Len(longer) = Len(q)
        <5>1. j \in 1..(Len(q) - 1) /\ j + 1 \in 1..Len(q) /\ ~(Len(longer) = Len(q) + 1)
          BY <1>1, <3>1, <4>2
        <5> QED
          BY <5>1 DEF Prolonged
      <4> QED
        BY <4>1, <4>2 DEF Prolonged
    <3> QED
      BY <2>1, <2>2, <3>2 DEF FreshMessage
  <2> QED
    BY <2>1, <2>2 DEF FreshMessage
<1>3. CASE i # Len(longer) /\ Len(longer) = Len(q) + 1
  <2>1. \A k \in 1..i : k \in 1..Len(q)
    BY <1>1, <1>3
  <2>2. ~(Len(longer) = Len(q))
    BY <1>1, <1>3
  <2>3. \A k \in 1..i : longer[k] = q[k]
    BY <2>1, <2>2 DEF Prolonged
  <2>4. i \in 1..i /\ \A j \in 1..(i - 1) : j \in 1..i
    BY <1>1
  <2>5. i \in 1..Len(q)
    BY <2>1, <2>4
  <2> QED
    BY <2>3, <2>4, <2>5 DEF Fresh
<1>4. CASE i # Len(longer) /\ Len(longer) = Len(q)
  <2>1. \A k \in 1..i : k \in 1..(Len(q) - 1)
    BY <1>1, <1>4
  <2>2. ~(Len(longer) = Len(q) + 1)
    BY <1>1, <1>4
  <2>3. \A k \in 1..i : longer[k] = q[k + 1]
    BY <2>1, <2>2 DEF Prolonged
  <2>4. i \in 1..i /\ \A j \in 1..(i - 1) : j \in 1..i /\ j + 1 \in 1..((i + 1) - 1)
    BY <1>1
  <2>5. i + 1 \in 1..Len(q)
    BY <1>1, <1>4
  <2> QED
    BY <2>3, <2>4, <2>5 DEF Fresh
<1> QED
  BY <1>2, <1>3, <1>4 DEF Prolonged

LEMMA QueuedGood ==
  ASSUME NEW a, Good(a), NEW m \in Messages, TrueMessage(m), FreshMessage(a, m)
  PROVE  Good(Queued(a, m))
<1> DEFINE b == Queued(a, m)
<1>1. /\ b \in Adapters /\ Len(b.queue) <= QueueSize
      /\ b.probe = a.probe /\ b.probes = a.probes /\ b.query = a.query /\ b.stop = a.stop
  BY QueuedFields DEF Good, Bounded
<1>2. Truthful(b)
  <2>1. Prolonged(a.queue, m, b.queue)
    BY QueuedFields DEF Good, Bounded
  <2>2. \A i \in 1..Len(a.queue) : TrueMessage(a.queue[i])
    BY DEF Good, Truthful
  <2>3. a.queue \in Seq(Messages) /\ b.queue \in Seq(Messages)
    BY <1>1 DEF Good, Bounded, Adapters
  <2> HIDE DEF b
  <2> SUFFICES ASSUME NEW i \in 1..Len(b.queue)
               PROVE  TrueMessage(b.queue[i])
    BY DEF Truthful
  <2>4. b.queue[i] = m \/ \E j \in 1..Len(a.queue) : b.queue[i] = a.queue[j]
    BY <2>1, <2>3, ProlongedKeeps
  <2> QED
    BY <2>2, <2>4
<1>3. Fresh(b)
  BY <1>1, QueuedFields, ProlongedFresh DEF Good, Bounded
<1> HIDE DEF b
<1>4. Good(b)
  BY <1>1, <1>2, <1>3 DEF Good, Bounded, Confirming, Reconfirmed, Numbered
<1> QED
  BY <1>4 DEF b

\* A probe has a new challenge; the second probe follows not_found.
LEMMA ProbingGood ==
  ASSUME WorldTyped, NEW a, Good(a), NEW purpose \in {"reconcile", "confirm"},
         purpose = "confirm" /\ a.query # None => a.query.journal.operation \in notFound
  PROVE  /\ Good(Probing(a, purpose))
         /\ \A f \in {"ready", "inhibited", "journal", "used", "query", "stop"} :
              Probing(a, purpose)[f] = a[f]
<1>1. CASE ~CanProbe(a)
  BY <1>1 DEF Probing
<1>2. CASE CanProbe(a)
  <2> DEFINE b == [a EXCEPT !.probe = [challenge |-> a.probes + 1, purpose |-> purpose],
                            !.probes = @ + 1]
             m == [type |-> "probe", challenge |-> a.probes + 1]
  <2>1. a \in Adapters /\ a.probes \in 0..MaxProbes /\ a.probes < MaxProbes
    BY <1>2 DEF CanProbe, Good, Bounded, Adapters, Challenges
  <2>2. a.probes + 1 \in Challenges
    BY <2>1 DEF Challenges
  <2>3. m \in Messages /\ TrueMessage(m)
    BY <2>2 DEF Messages, TrueMessage
  <2>4. /\ b \in Adapters
        /\ b.probe = [challenge |-> a.probes + 1, purpose |-> purpose]
        /\ b.probes = a.probes + 1
        /\ \A f \in {"ready", "inhibited", "journal", "used", "query", "stop", "queue"} :
             b[f] = a[f]
    BY <2>1, <2>2 DEF Adapters, Probes
  <2>5. Probing(a, purpose) = Queued(b, m)
    BY <1>2 DEF Probing
  <2> HIDE DEF b, m
  <2>6. \A i \in 1..Len(snapshots) : snapshots[i].challenge <= a.probes
    BY DEF Good, Numbered
  <2>7. Confirming(b)
    BY <2>1, <2>4, <2>6 DEF Confirming, Shown
  <2>8. Numbered(b)
    <3>1. \A n \in Challenges : n <= a.probes => n <= a.probes + 1
      BY <2>1 DEF Challenges
    <3>2. ASSUME NEW i \in 1..Len(snapshots)
          PROVE  snapshots[i].challenge \in Challenges
      <4>1. snapshots[i] \in Snapshots
        BY DEF WorldTyped
      <4> QED
        BY <4>1 DEF Snapshots
    <3> QED
      BY <2>2, <2>4, <2>6, <3>1, <3>2 DEF Good, Numbered, WorldTyped, Challenges
  <2>9. /\ \A i \in 1..Len(a.queue) : a.queue[i].type = "probe" =>
             /\ a.queue[i].challenge <= a.probes
             /\ a.queue[i].challenge < a.probes + 1
             /\ a.queue[i].challenge <= a.probes + 1
        /\ lastProbe < a.probes + 1
    <3>1. ASSUME NEW i \in 1..Len(a.queue), a.queue[i].type = "probe"
          PROVE  a.queue[i].challenge \in Challenges /\ a.queue[i].challenge <= a.probes
      <4>1. a.queue[i] \in Messages
        BY <2>1 DEF Adapters
      <4> QED
        BY <3>1, <4>1 DEF Messages, Good, Fresh
    <3>2. lastProbe \in Challenges /\ lastProbe <= a.probes
      BY DEF WorldTyped, Good, Numbered
    <3>3. \A n \in Challenges : n <= a.probes => n < a.probes + 1 /\ n <= a.probes + 1
      BY <2>1 DEF Challenges
    <3> QED
      BY <3>1, <3>2, <3>3
  <2>10. Fresh(b)
    BY <2>4, <2>9 DEF Good, Fresh
  <2>11. Good(b)
    BY <2>4, <2>7, <2>8, <2>10 DEF Good, Bounded, Truthful, Reconfirmed
  <2>12. FreshMessage(b, m)
    BY <2>2, <2>4, <2>9 DEF FreshMessage, m, Challenges
  <2> QED
    BY <2>3, <2>4, <2>5, <2>11, <2>12, QueuedGood, QueuedFields DEF Good, Bounded
<1> QED
  BY <1>1, <1>2

LEMMA ReconcilingGood ==
  ASSUME WorldTyped, NEW a, Good(a)
  PROVE  /\ Good(Reconciling(a))
         /\ \A f \in {"ready", "inhibited", "journal", "used", "query", "stop"} :
              Reconciling(a)[f] = a[f]
  BY ProbingGood DEF Reconciling

\* An apply is sent only for what was shown again.
LEMMA SendingGood ==
  ASSUME NEW a, Good(a), NEW challenge \in Challenges, NEW mode \in {"query", "apply"},
         NEW record \in Active, mode = "apply" => record \in reconfirmed
  PROVE  /\ Good(Sending(a, challenge, mode, record))
         /\ \A f \in {"ready", "inhibited", "journal", "probe", "used", "query"} :
              Sending(a, challenge, mode, record)[f] = a[f]
<1>1. CASE ~CanSend(a)
  BY <1>1 DEF Sending
<1>2. CASE CanSend(a)
  <2> DEFINE attempt == [challenge |-> challenge, mode |-> mode, journal |-> record]
             b == [a EXCEPT !.attempt = attempt, !.stop = attempt]
  <2>1. attempt \in ActiveAttempts /\ attempt.mode = mode /\ attempt.journal = record
    BY DEF ActiveAttempts
  <2>2. Sending(a, challenge, mode, record) = b
    BY <1>2 DEF Sending
  <2> HIDE DEF attempt
  <2>3. /\ b \in Adapters /\ b.stop = attempt
        /\ \A f \in {"ready", "inhibited", "journal", "probe", "probes", "used", "query",
                     "queue"} : b[f] = a[f]
    BY <2>1 DEF Good, Bounded, Adapters
  <2> HIDE DEF b
  <2>4. Good(b)
    BY <2>1, <2>3 DEF Good, Bounded, Truthful, Confirming, Reconfirmed, Numbered, Fresh
  <2> QED
    BY <2>2, <2>3, <2>4
<1> QED
  BY <1>1, <1>2

(***************************************************************************)
(* handleLocalStopSnapshotV2                                               *)
(***************************************************************************)

LEMMA AcceptedGood ==
  ASSUME NEW a, Good(a), NEW s \in Snapshots
  PROVE  /\ Good(Accepted(a, s))
         /\ Accepted(a, s).probe = None /\ Accepted(a, s).used = a.used \cup {s}
         /\ Accepted(a, s).query = a.query
         /\ Accepted(a, s).ready = (s.journal.phase = "idle")
<1> DEFINE b == Accepted(a, s)
<1>1. s.journal \in Journals /\ a \in Adapters
  BY DEF Snapshots, Good, Bounded
<1>2. /\ b \in Adapters /\ b.probe = None /\ b.used = a.used \cup {s}
      /\ b.ready = (s.journal.phase = "idle")
      /\ b.probes = a.probes /\ b.query = a.query /\ b.stop = a.stop /\ b.queue = a.queue
  <2> DEFINE used == a.used \cup {s}
             idle == s.journal.phase = "idle"
             waits == s.journal.phase # "idle"
  <2>1. used \in SUBSET Snapshots /\ idle \in BOOLEAN /\ waits \in BOOLEAN
    BY <1>1 DEF Adapters
  <2>2. b = [a EXCEPT !.used = used, !.probe = None, !.journal = s.journal,
                      !.inhibited = waits, !.ready = idle]
    BY DEF Accepted
  <2> HIDE DEF used, idle, waits
  <2>3. /\ b \in Adapters /\ b.probe = None /\ b.used = used /\ b.ready = idle
        /\ b.probes = a.probes /\ b.query = a.query /\ b.stop = a.stop /\ b.queue = a.queue
    BY <1>1, <2>1, <2>2 DEF Adapters
  <2> QED
    BY <2>3 DEF used, idle
<1> HIDE DEF b
<1>3. Good(b)
  BY <1>2, GoodIfForgotten
<1> QED
  BY <1>2, <1>3 DEF b

\* The second probe shows the journal that was queried, or ends the query.
LEMMA ConfirmedGood ==
  ASSUME NEW a, Good(a), a.probe = None, NEW s \in Snapshots,
         Unchanged(a, s) => s.journal \in reconfirmed
  PROVE  /\ Good(Confirmed(a, s))
         /\ Confirmed(a, s).used = a.used /\ Confirmed(a, s).ready = a.ready
<1>1. CASE Unchanged(a, s)
  <2> DEFINE b == Sending(a, s.challenge, "apply", s.journal)
             query == IF CanSend(a) THEN None ELSE b.query
             c == [b EXCEPT !.query = query]
  <2>1. s.challenge \in Challenges /\ s.journal \in Active
    BY <1>1 DEF Unchanged, Snapshots, Active
  <2>2. Good(b) /\ b.used = a.used /\ b.ready = a.ready
    BY <1>1, <2>1, SendingGood
  <2>3. Confirmed(a, s) = c
    BY <1>1 DEF Confirmed
  <2> HIDE DEF b
  <2>4. b \in Adapters /\ query \in {b.query, None} /\ query \in ActiveQueries \cup {None}
    BY <2>2 DEF Good, Bounded, Adapters
  <2> HIDE DEF query
  <2>5. /\ c \in Adapters /\ c.query \in {b.query, None}
        /\ c.probe = b.probe /\ c.probes = b.probes /\ c.stop = b.stop /\ c.queue = b.queue
        /\ c.used = b.used /\ c.ready = b.ready
    BY <2>4 DEF Adapters
  <2> HIDE DEF c
  <2> QED
    BY <2>2, <2>3, <2>5, GoodIfForgotten
<1>2. CASE ~Unchanged(a, s)
  <2> DEFINE c == [a EXCEPT !.query = None]
  <2>1. Confirmed(a, s) = c
    BY <1>2 DEF Confirmed
  <2>2. /\ c \in Adapters /\ c.query = None
        /\ c.probe = a.probe /\ c.probes = a.probes /\ c.stop = a.stop /\ c.queue = a.queue
        /\ c.used = a.used /\ c.ready = a.ready
    BY DEF Good, Bounded, Adapters
  <2> HIDE DEF c
  <2> QED
    BY <2>1, <2>2, GoodIfForgotten
<1> QED
  BY <1>1, <1>2

\* What is queried is not newer than the journal.
LEMMA FollowingGood ==
  ASSUME NEW a, Good(a), a.probe = None, NEW s \in Snapshots,
         s.journal.revision <= journal.revision
  PROVE  /\ Good(Following(a, s))
         /\ Following(a, s).used = a.used /\ Following(a, s).ready = a.ready
<1> DEFINE query == [challenge |-> s.challenge, journal |-> s.journal]
<1>1. s.challenge \in Challenges /\ s.journal \in Journals
  BY DEF Snapshots
<1>2. CASE s.journal.phase = "preparing"
  <2> DEFINE b == [a EXCEPT !.permit = query]
  <2>1. query \in ActiveQueries
    BY <1>1, <1>2 DEF ActiveQueries, Active
  <2>2. Following(a, s) = b
    BY <1>2 DEF Following
  <2> HIDE DEF query
  <2>3. /\ b \in Adapters /\ b.query = a.query
        /\ b.probe = a.probe /\ b.probes = a.probes /\ b.stop = a.stop /\ b.queue = a.queue
        /\ b.used = a.used /\ b.ready = a.ready
    BY <2>1 DEF Good, Bounded, Adapters
  <2> HIDE DEF b
  <2> QED
    BY <2>2, <2>3, GoodIfForgotten
<1>3. CASE s.journal.phase = "prepared"
  <2> DEFINE b == [a EXCEPT !.query = query]
  <2>1. query \in ActiveQueries /\ query.journal = s.journal /\ s.journal \in Active
    BY <1>1, <1>3 DEF ActiveQueries, Active
  <2>2. Following(a, s) = Sending(b, s.challenge, "query", s.journal)
    BY <1>3 DEF Following
  <2> HIDE DEF query
  <2>3. /\ b \in Adapters /\ b.query = query
        /\ b.probe = a.probe /\ b.probes = a.probes /\ b.stop = a.stop /\ b.queue = a.queue
        /\ b.used = a.used /\ b.ready = a.ready
    BY <2>1 DEF Good, Bounded, Adapters
  <2> HIDE DEF b
  <2>4. Good(b)
    BY <2>1, <2>3 DEF Good, Bounded, Truthful, Confirming, Reconfirmed, Numbered, Fresh
  <2> QED
    BY <1>1, <2>1, <2>2, <2>3, <2>4, SendingGood
<1>4. CASE s.journal.phase = "uncertain"
  <2>1. s.journal \in Active
    BY <1>1, <1>4 DEF Active
  <2>2. Following(a, s) = Sending(a, s.challenge, "query", s.journal)
    BY <1>4 DEF Following
  <2> QED
    BY <1>1, <2>1, <2>2, SendingGood
<1>5. CASE s.journal.phase \in {"idle", "confirmed"}
  <2>1. Following(a, s) = a
    BY <1>5 DEF Following
  <2> QED
    BY <2>1
<1> QED
  BY <1>1, <1>2, <1>3, <1>4, <1>5, JournalFields

Received(s) == \E i \in 1..Len(snapshots) : snapshots[i] = s

\* Every snapshot leaves a good adapter; only what was used before, and this
\* one, is used; and only an idle journal leaves it ready.
LEMMA SnapshotGood ==
  ASSUME WorldTyped, NEW a, Good(a), NEW s \in Snapshots, s \notin a.used,
         s.journal.revision <= journal.revision, Received(s)
  PROVE  /\ Good(AfterSnapshot(a, s))
         /\ AfterSnapshot(a, s).used \subseteq a.used \cup {s}
         /\ AfterSnapshot(a, s).ready => s.journal.phase = "idle"
<1>0. Good(Inhibited(a)) /\ Inhibited(a).used = {} /\ Inhibited(a).ready = FALSE
  BY InhibitedGood, InhibitedFields DEF Good, Bounded
<1>1. CASE \E u \in a.used : u.challenge = s.challenge
  <2>1. AfterSnapshot(a, s) = Reconciling(Inhibited(a))
    BY <1>1 DEF AfterSnapshot, Repeated
  <2> QED
    BY <1>0, <2>1, ReconcilingGood
<1>2. CASE ~(\E u \in a.used : u.challenge = s.challenge) /\ ~connected
  <2>1. AfterSnapshot(a, s) = IF s.journal.phase # "idle" THEN Inhibited(a) ELSE a
    BY <1>2 DEF AfterSnapshot
  <2> QED
    BY <1>0, <2>1
<1> DEFINE unasked == a.probe = None \/ a.probe.challenge # s.challenge
<1>3. CASE ~(\E u \in a.used : u.challenge = s.challenge) /\ connected /\ unasked
  <2>1. AfterSnapshot(a, s) = Reconciling(IF s.journal.phase # "idle" THEN Inhibited(a) ELSE a)
    BY <1>3 DEF AfterSnapshot, Unasked
  <2> QED
    BY <1>0, <2>1, ReconcilingGood
<1>4. CASE ~(\E u \in a.used : u.challenge = s.challenge) /\ connected /\ ~unasked
  <2>1. CASE ~AcceptsRevision(a, s.journal)
    <3> DEFINE b == [Inhibited(a) EXCEPT !.used = {s}]
               c == Inhibited(a)
    <3>1. AfterSnapshot(a, s) = Reconciling(b)
      BY <1>4, <2>1 DEF AfterSnapshot
    <3>2. b = [c EXCEPT !.used = {s}] /\ c \in Adapters /\ Good(c) /\ c.ready = FALSE
      BY <1>0 DEF Good, Bounded
    <3> HIDE DEF b, c
    <3>3. /\ b \in Adapters /\ b.used = {s} /\ b.ready = FALSE
          /\ b.probe = c.probe /\ b.probes = c.probes /\ b.stop = c.stop /\ b.queue = c.queue
          /\ b.query = c.query
      BY <3>2 DEF Adapters
    <3> QED
      BY <3>1, <3>2, <3>3, GoodIfForgotten, ReconcilingGood
  <2>2. CASE AcceptsRevision(a, s.journal) /\ a.probe.purpose = "confirm"
    <3> DEFINE b == Accepted(a, s)
    <3>1. /\ Good(b) /\ b.probe = None /\ b.used = a.used \cup {s} /\ b.query = a.query
          /\ b.ready = (s.journal.phase = "idle")
      BY AcceptedGood
    <3>2. AfterSnapshot(a, s) = Confirmed(b, s)
      BY <1>4, <2>2 DEF AfterSnapshot
    <3> HIDE DEF b
    <3>3. Unchanged(b, s) => s.journal \in reconfirmed
      BY <1>4, <2>2, <3>1 DEF Unchanged, Good, Confirming, Shown, Received
    <3> QED
      BY ZenonT(30), <3>1, <3>2, <3>3, ConfirmedGood
  <2>3. CASE AcceptsRevision(a, s.journal) /\ a.probe.purpose # "confirm"
    <3> DEFINE b == Accepted(a, s)
    <3>1. /\ Good(b) /\ b.probe = None /\ b.used = a.used \cup {s}
          /\ b.ready = (s.journal.phase = "idle")
      BY AcceptedGood
    <3>2. AfterSnapshot(a, s) = Following(b, s)
      BY <1>4, <2>3 DEF AfterSnapshot
    <3> HIDE DEF b
    <3> QED
      BY ZenonT(30), <3>1, <3>2, FollowingGood
  <2> QED
    BY <2>1, <2>2, <2>3
<1> QED
  BY <1>1, <1>2, <1>3, <1>4

(***************************************************************************)
(* handleControlV2                                                         *)
(***************************************************************************)

LEMMA OfferGood ==
  ASSUME WorldTyped, NEW a, Good(a), NEW answer \in answers
  PROVE  /\ Good(AfterOffer(a, answer))
         /\ AfterOffer(a, answer).used = a.used /\ AfterOffer(a, answer).ready = a.ready
<1> DEFINE offered == /\ a.permit # None /\ a.permit.challenge = answer.challenge
                      /\ a.journal = a.permit.journal
           b == [a EXCEPT !.permit = None]
           m == Result("offer", a.journal, answer.fence)
<1>1. CASE ~offered
  <2>1. AfterOffer(a, answer) = a
    BY <1>1 DEF AfterOffer
  <2> QED
    BY <2>1
<1>2. CASE offered
  <2>1. a.journal \in Active /\ answer \in Replies
    BY <1>2 DEF Good, Bounded, Adapters, ActiveQueries, WorldTyped
  <2>2. m \in Messages /\ m.type = "offer"
    BY <2>1, JournalFields DEF Active, Replies, Result, Messages
  <2>3. AfterOffer(a, answer) = Queued(b, m)
    BY <1>2 DEF AfterOffer
  <2> HIDE DEF m
  <2>4. /\ b \in Adapters /\ b.query = a.query
        /\ b.probe = a.probe /\ b.probes = a.probes /\ b.stop = a.stop /\ b.queue = a.queue
        /\ b.used = a.used /\ b.ready = a.ready
    BY DEF Good, Bounded, Adapters
  <2> HIDE DEF b
  <2>5. Good(b) /\ TrueMessage(m) /\ FreshMessage(b, m)
    BY <2>2, <2>4, GoodIfForgotten DEF TrueMessage, FreshMessage
  <2> QED
    BY <2>2, <2>3, <2>4, <2>5, QueuedGood, QueuedFields DEF Good, Bounded
<1> QED
  BY <1>1, <1>2

\* What the server did not find is known to be so.
FoundNothing == \A answer \in answers : answer.result = "not_found" => answer.operation \in notFound

LEMMA StatusGood ==
  ASSUME WorldTyped, FoundNothing, NEW a, Good(a), NEW answer \in answers,
         answer.result # "none"
  PROVE  /\ Good(AfterStopStatus(a, answer))
         /\ AfterStopStatus(a, answer).used \subseteq a.used
         /\ AfterStopStatus(a, answer).ready => a.ready
<1>1. CASE ~Answers(a, answer)
  BY <1>1 DEF AfterStopStatus
<1>2. CASE Answers(a, answer) /\ ~StillMeant(a, answer)
  BY <1>2, InhibitedGood, InhibitedFields DEF AfterStopStatus, Good, Bounded
<1>3. CASE Answers(a, answer) /\ StillMeant(a, answer)
  <2> DEFINE attempt == a.attempt
             b == [a EXCEPT !.attempt = None]
             m == Result(answer.result, attempt.journal, answer.fence)
             told == Queued(b, m)
             ended == [told EXCEPT !.query = None]
             asks == /\ answer.result = "not_found"
                     /\ a.query = [challenge |-> attempt.challenge, journal |-> attempt.journal]
                     /\ a.journal = attempt.journal
  <2>1. AfterStopStatus(a, answer) =
          IF attempt.mode = "apply" THEN ended
          ELSE IF asks THEN AfterNotFound(told, attempt) ELSE told
    BY <1>3 DEF AfterStopStatus
  <2>2. /\ attempt.journal \in Active /\ attempt.journal.operation = answer.operation
        /\ answer \in Replies
    BY <1>3 DEF Answers, Good, Bounded, Adapters, ActiveAttempts, WorldTyped
  <2>3. m \in Messages /\ TrueMessage(m) /\ m.type # "probe"
    BY <2>2, JournalFields DEF Active, Replies, Answered, Result, Messages, TrueMessage
  <2> HIDE DEF m
  <2>4. /\ b \in Adapters /\ b.query = a.query
        /\ b.probe = a.probe /\ b.probes = a.probes /\ b.stop = a.stop /\ b.queue = a.queue
        /\ b.used = a.used /\ b.ready = a.ready
    BY DEF Good, Bounded, Adapters
  <2> HIDE DEF b
  <2>5. Good(b) /\ FreshMessage(b, m)
    BY <2>3, <2>4, GoodIfForgotten DEF FreshMessage
  <2>6. /\ Good(told) /\ told.query = a.query /\ told.used = a.used /\ told.ready = a.ready
    BY <2>3, <2>4, <2>5, QueuedGood, QueuedFields DEF Good, Bounded
  <2> HIDE DEF told
  <2>7. /\ Good(ended) /\ ended.used = a.used /\ ended.ready = a.ready
    <3>1. /\ ended \in Adapters /\ ended.query = None
          /\ ended.probe = told.probe /\ ended.probes = told.probes /\ ended.stop = told.stop
          /\ ended.queue = told.queue /\ ended.used = told.used /\ ended.ready = told.ready
      BY ZenonT(30), <2>6 DEF Good, Bounded, Adapters
    <3> HIDE DEF ended
    <3> QED
      BY <2>6, <3>1, GoodIfForgotten
  <2>8. CASE asks /\ CanProbe(told)
    <3>1. AfterNotFound(told, attempt) = Probing(told, "confirm")
      BY <2>8 DEF AfterNotFound
    <3>2. told.query.journal.operation \in notFound
      BY <2>2, <2>6, <2>8 DEF FoundNothing
    <3>3. /\ Good(Probing(told, "confirm"))
          /\ Probing(told, "confirm").used = told.used
          /\ Probing(told, "confirm").ready = told.ready
      BY <2>6, <3>2, ProbingGood
    <3> QED
      BY <2>1, <2>6, <2>7, <3>1, <3>3
  <2>9. CASE asks /\ ~CanProbe(told)
    <3>1. AfterNotFound(told, attempt) = ended
      BY <2>9 DEF AfterNotFound
    <3>2. AfterStopStatus(a, answer) = ended
      BY <2>1, <2>9, <3>1
    <3> HIDE DEF ended
    <3> QED
      BY <2>4, <2>6, <2>7, <3>2
  <2>10. CASE ~asks
    BY <2>1, <2>6, <2>7, <2>10
  <2> QED
    BY <2>8, <2>9, <2>10
<1> QED
  BY <1>1, <1>2, <1>3

(***************************************************************************)
(* The whole state.  The snapshots that are under way, and those that were  *)
(* used, are in the order in which the dashboard has sent them.             *)
(***************************************************************************)

\* The dashboard has sent s, up to now, and t after s.
Known(s) == s.challenge <= lastProbe /\ s.journal.revision <= journal.revision
Before(s, t) ==
  \/ s.challenge < t.challenge
  \/ s.challenge = t.challenge /\ s.journal.revision < t.journal.revision

Ordered ==
  /\ \A i \in 1..Len(snapshots) :
       /\ Known(snapshots[i])
       /\ \A j \in 1..(i - 1) : Before(snapshots[j], snapshots[i])
  /\ \A u \in adapter.used :
       /\ Known(u)
       /\ \A i \in 1..Len(snapshots) : Before(u, snapshots[i])

\* The adapter is ready only after an idle journal.
ReadyIsIdle == adapter.ready => lastHeard = "idle"

StopInv ==
  /\ WorldTyped /\ Good(adapter)
  /\ Ordered /\ FoundNothing /\ ReadyIsIdle /\ ResultIsTrue

(***************************************************************************)
(* A good value stays good                                                 *)
(***************************************************************************)

\* The snapshots that are left were there.
Shrinks ==
  \A i \in 1..Len(snapshots') : \E j \in 1..Len(snapshots) : snapshots'[i] = snapshots[j]

\* The journal has not moved, and more was answered and shown.
LEMMA GoodLater ==
  ASSUME NEW a, adapter' = a, Good(a), UNCHANGED <<journal, lastProbe>>, Shrinks,
         answers \subseteq answers', notFound \subseteq notFound',
         reconfirmed \subseteq reconfirmed'
  PROVE  Good(adapter)'
<1>1. Truthful(adapter)'
  BY DEF Good, Truthful, TrueMessage
<1>2. Confirming(adapter)'
  BY DEF Good, Confirming, Shown, Shrinks
<1>3. Reconfirmed(adapter)'
  BY DEF Good, Reconfirmed
<1>4. Numbered(adapter)'
  BY DEF Good, Numbered, Shrinks
<1>5. Bounded(adapter)' /\ Fresh(adapter)'
  BY DEF Good, Bounded, Fresh
<1> QED
  BY <1>1, <1>2, <1>3, <1>4, <1>5 DEF Good

\* It has nothing under way on the connection.
Blank(a) ==
  /\ a.query = None /\ a.stop = None
  /\ \A i \in 1..Len(a.queue) : a.queue[i].type = "probe"

LEMMA BlankStays ==
  ASSUME NEW a, adapter' = a, Good(a), Blank(a), UNCHANGED <<journal, lastProbe, snapshots>>
  PROVE  Good(adapter)'
<1>1. Truthful(adapter)'
  BY DEF Blank, Truthful, TrueMessage
<1>2. Confirming(adapter)' /\ Reconfirmed(adapter)'
  BY DEF Blank, Confirming, Reconfirmed
<1>3. Numbered(adapter)' /\ Bounded(adapter)' /\ Fresh(adapter)'
  BY DEF Good, Numbered, Bounded, Fresh
<1> QED
  BY <1>1, <1>2, <1>3 DEF Good

LEMMA ResetBlank ==
  ASSUME NEW a, Good(a)
  PROVE  /\ Good(Reset(a)) /\ Blank(Reset(a))
         /\ Reset(a).used = {} /\ Reset(a).ready = FALSE
<1> DEFINE b == Reset(a)
<1>1. /\ b \in Adapters /\ b.probe = None /\ b.query = None /\ b.stop = None
      /\ b.used = {} /\ b.ready = FALSE /\ b.queue = <<>> /\ b.probes = a.probes
  BY ResetFields DEF Good, Bounded
<1> HIDE DEF b
<1>2. Len(b.queue) = 0 /\ 1..Len(b.queue) = {}
  BY <1>1
<1>3. Good(b)
  BY <1>1, <1>2 DEF Good, Bounded, Truthful, Confirming, Reconfirmed, Numbered, Fresh
<1>4. Blank(b)
  BY <1>1, <1>2 DEF Blank
<1> QED
  BY <1>1, <1>3, <1>4 DEF b

\* The queue of a probe that was sent after a reset.
LEMMA ReconcilingBlank ==
  ASSUME WorldTyped, NEW a, Good(a), Blank(a)
  PROVE  Blank(Reconciling(a))
<1>1. CASE ~CanProbe(a)
  BY <1>1 DEF Reconciling, Probing
<1>2. CASE CanProbe(a)
  <2> DEFINE b == [a EXCEPT !.probe = [challenge |-> a.probes + 1, purpose |-> "reconcile"],
                            !.probes = @ + 1]
             m == [type |-> "probe", challenge |-> a.probes + 1]
  <2>1. a \in Adapters /\ a.probes \in 0..MaxProbes /\ a.probes < MaxProbes
    BY <1>2 DEF CanProbe, Good, Bounded, Adapters, Challenges
  <2>2. a.probes + 1 \in Challenges
    BY <2>1 DEF Challenges
  <2>3. m \in Messages /\ m.type = "probe"
    BY <2>2 DEF Messages
  <2>4. b \in Adapters /\ b.query = a.query /\ b.stop = a.stop /\ b.queue = a.queue
    BY <2>1, <2>2 DEF Adapters, Probes
  <2>5. Reconciling(a) = Queued(b, m)
    BY <1>2 DEF Reconciling, Probing
  <2> HIDE DEF b, m
  <2> DEFINE c == Queued(b, m)
  <2>6. /\ c \in Adapters /\ c.query = None /\ c.stop = None
        /\ Prolonged(b.queue, m, c.queue)
    BY <2>3, <2>4, QueuedFields DEF Good, Bounded, Blank
  <2>7. b.queue \in Seq(Messages) /\ c.queue \in Seq(Messages)
    BY <2>4, <2>6 DEF Adapters
  <2> HIDE DEF c
  <2>8. ASSUME NEW i \in 1..Len(c.queue)
        PROVE  c.queue[i].type = "probe"
    <3>1. c.queue[i] = m \/ \E j \in 1..Len(b.queue) : c.queue[i] = b.queue[j]
      BY SMTT(20), <2>6, <2>7, ProlongedKeeps
    <3> QED
      BY <2>3, <2>4, <3>1 DEF Blank
  <2>9. Blank(c)
    BY <2>6, <2>8 DEF Blank
  <2> QED
    BY <2>5, <2>9 DEF c
<1> QED
  BY <1>1, <1>2

(***************************************************************************)
(* Steps of the adapter alone                                              *)
(***************************************************************************)

\* The adapter gets a good value that has used and knows nothing more.
LEMMA QuietStep ==
  ASSUME StopInv, NEW a, adapter' = a, Good(a), a.used \subseteq adapter.used,
         a.ready => adapter.ready,
         UNCHANGED <<connected, connections, environmentVars, snapshots, answers, historyVars>>
  PROVE  StopInv'
<1>1. UNCHANGED <<connected, connections, journal, stops, lastProbe, generation, committed,
                  requests, snapshots, answers, notFound, reconfirmed, lastHeard, delivered>>
  BY DEF environmentVars, historyVars
<1>2. Good(adapter)'
  BY <1>1, GoodLater DEF Shrinks
<1>3. WorldTyped' /\ FoundNothing' /\ ResultIsTrue'
  BY <1>1 DEF StopInv, WorldTyped, FoundNothing, ResultIsTrue
<1>4. Ordered' /\ ReadyIsIdle'
  BY <1>1 DEF StopInv, Ordered, Known, Before, ReadyIsIdle
<1> QED
  BY <1>2, <1>3, <1>4 DEF StopInv

\* A new connection, or none, with nothing under way on it.
LEMMA ResetStep ==
  ASSUME StopInv, NEW a, adapter' = a, Good(a), Blank(a), a.used = {}, a.ready = FALSE,
         connected' \in BOOLEAN, connections' \in 0..MaxConnections,
         ForgetAnswers, UNCHANGED <<environmentVars, snapshots>>
  PROVE  StopInv'
<1>1. UNCHANGED <<journal, stops, lastProbe, generation, committed, requests, snapshots>>
  BY DEF environmentVars
<1>2. answers' = {} /\ delivered' = None
  BY DEF ForgetAnswers
<1>3. Good(adapter)'
  BY <1>1, BlankStays
<1>4. WorldTyped' /\ FoundNothing' /\ ResultIsTrue'
  BY <1>1, <1>2 DEF StopInv, WorldTyped, FoundNothing, ResultIsTrue
<1>5. Ordered' /\ ReadyIsIdle'
  BY SMTT(20), <1>1 DEF StopInv, Ordered, Known, Before, ReadyIsIdle
<1> QED
  BY <1>3, <1>4, <1>5 DEF StopInv

LEMMA StopConnections ==
  ASSUME StopInv, OnConnected \/ OnDisconnected
  PROVE  StopInv'
<1>1. WorldTyped /\ Good(adapter)
  BY DEF StopInv
<1>2. /\ Good(Reset(adapter)) /\ Blank(Reset(adapter))
      /\ Reset(adapter).used = {} /\ Reset(adapter).ready = FALSE
  BY <1>1, ResetBlank
<1>3. CASE OnConnected
  <2>1. /\ Good(Reconciling(Reset(adapter))) /\ Blank(Reconciling(Reset(adapter)))
        /\ Reconciling(Reset(adapter)).used = {} /\ Reconciling(Reset(adapter)).ready = FALSE
    BY <1>1, <1>2, ReconcilingGood, ReconcilingBlank
  <2>2. connected' \in BOOLEAN /\ connections' \in 0..MaxConnections
    BY <1>1, <1>3 DEF OnConnected, WorldTyped
  <2> QED
    BY <1>3, <2>1, <2>2, ResetStep DEF OnConnected
<1>4. CASE OnDisconnected
  <2>1. connected' \in BOOLEAN /\ connections' \in 0..MaxConnections
    BY <1>1, <1>4 DEF OnDisconnected, WorldTyped
  <2> QED
    BY <1>2, <1>4, <2>1, ResetStep DEF OnDisconnected
<1> QED
  BY <1>3, <1>4

LEMMA StopRefresh ==
  ASSUME StopInv, NEW value \in BOOLEAN, RefreshBlocked(value)
  PROVE  StopInv'
<1> DEFINE read == [adapter EXCEPT !.settingsReady = TRUE, !.blocked = value]
           probed == IF connected /\ ~adapter.settingsReady THEN Reconciling(read) ELSE read
<1>1. WorldTyped /\ Good(adapter)
  BY DEF StopInv
<1>2. /\ read \in Adapters
      /\ \A f \in {"ready", "probe", "probes", "query", "stop", "queue", "used"} :
           read[f] = adapter[f]
  BY <1>1 DEF Good, Bounded, Adapters
<1>3. adapter' = IF value \/ adapter.blocked
                   THEN IF connected THEN Reconciling(Inhibited(probed)) ELSE Inhibited(probed)
                   ELSE probed
  BY DEF RefreshBlocked
<1> HIDE DEF read
<1>4. Good(read)
  BY <1>1, <1>2, GoodIfForgotten
<1>5. Good(probed) /\ probed.used = adapter.used /\ probed.ready = adapter.ready
  BY <1>1, <1>2, <1>4, ReconcilingGood
<1> HIDE DEF probed
<1>6. /\ Good(Inhibited(probed)) /\ Inhibited(probed).used = {}
      /\ Inhibited(probed).ready = FALSE
  BY <1>5, InhibitedGood, InhibitedFields DEF Good, Bounded
<1>7. /\ Good(Reconciling(Inhibited(probed))) /\ Reconciling(Inhibited(probed)).used = {}
      /\ Reconciling(Inhibited(probed)).ready = FALSE
  BY <1>1, <1>6, ReconcilingGood
<1>8. Good(adapter') /\ adapter'.used \subseteq adapter.used /\ (adapter'.ready => adapter.ready)
  BY <1>3, <1>5, <1>6, <1>7
<1> QED
  BY <1>8, QuietStep DEF RefreshBlocked

LEMMA StopFails ==
  ASSUME StopInv, FailClosed \/ DeadlinePasses
  PROVE  StopInv'
<1>1. WorldTyped /\ Good(adapter) /\ adapter \in Adapters
  BY DEF StopInv, Good, Bounded
<1>2. CASE FailClosed
  <2> DEFINE b == Inhibited(adapter)
             c == [b EXCEPT !.settingsReady = FALSE, !.journal = None]
  <2>1. /\ Good(b) /\ b \in Adapters /\ b.used = {} /\ b.ready = FALSE
    BY <1>1, InhibitedGood, InhibitedFields
  <2>2. adapter' = c
    BY <1>2 DEF FailClosed
  <2> HIDE DEF b
  <2>3. /\ c \in Adapters
        /\ \A f \in {"ready", "probe", "probes", "query", "stop", "queue", "used"} : c[f] = b[f]
    BY <2>1 DEF Adapters
  <2> HIDE DEF c
  <2>4. Good(c) /\ c.used = {} /\ c.ready = FALSE
    BY <2>1, <2>3, GoodIfForgotten
  <2> QED
    BY <1>2, <2>2, <2>4, QuietStep DEF FailClosed
<1>3. CASE DeadlinePasses
  <2>1. /\ adapter' \in Adapters
        /\ adapter'.probe \in {adapter.probe, None} /\ adapter'.query \in {adapter.query, None}
        /\ adapter'.probes = adapter.probes /\ adapter'.stop = adapter.stop
        /\ adapter'.queue = adapter.queue /\ adapter'.used = adapter.used
        /\ adapter'.ready = adapter.ready
    <3>1. CASE adapter' = [adapter EXCEPT !.probe = None]
      BY <1>1, <3>1 DEF Adapters
    <3>2. CASE adapter' = [adapter EXCEPT !.attempt = None, !.query = None, !.permit = None,
                 !.probe = IF @ # None /\ @.purpose = "confirm" THEN None ELSE @]
      <4> DEFINE probe == IF adapter.probe # None /\ adapter.probe.purpose = "confirm"
                            THEN None ELSE adapter.probe
      <4>1. probe \in {adapter.probe, None} /\ probe \in Probes \cup {None}
        BY <1>1 DEF Adapters
      <4>2. adapter' = [adapter EXCEPT !.attempt = None, !.query = None, !.permit = None,
                          !.probe = probe]
        BY <3>2
      <4> HIDE DEF probe
      <4> QED
        BY <1>1, <4>1, <4>2 DEF Adapters
    <3> QED
      BY <1>3, <3>1, <3>2 DEF DeadlinePasses
  <2>2. Good(adapter')
    BY <1>1, <2>1, GoodIfForgotten
  <2> QED
    BY <1>3, <2>1, <2>2, QuietStep DEF DeadlinePasses
<1> QED
  BY <1>2, <1>3

LEMMA StopStatus ==
  ASSUME StopInv, HandleStatus
  PROVE  StopInv'
<1>1. WorldTyped /\ Good(adapter) /\ FoundNothing
  BY DEF StopInv
<1>2. PICK answer \in answers :
        adapter' = IF answer.result = "none" THEN AfterOffer(adapter, answer)
                   ELSE AfterStopStatus(adapter, answer)
  BY DEF HandleStatus
<1>3. Good(adapter') /\ adapter'.used \subseteq adapter.used /\ (adapter'.ready => adapter.ready)
  <2>1. CASE answer.result = "none"
    BY <1>1, <1>2, <2>1, OfferGood
  <2>2. CASE answer.result # "none"
    BY <1>1, <1>2, <2>2, StatusGood
  <2> QED
    BY <2>1, <2>2
<1> QED
  BY <1>3, QuietStep DEF HandleStatus

(***************************************************************************)
(* Snapshots and publications                                              *)
(***************************************************************************)

LEMMA StopSnapshot ==
  ASSUME StopInv, HandleSnapshot
  PROVE  StopInv'
<1> DEFINE s == Head(snapshots)
<1>1. /\ WorldTyped /\ Good(adapter) /\ Ordered
      /\ snapshots \in Seq(Snapshots) /\ snapshots # <<>>
  BY DEF StopInv, WorldTyped, HandleSnapshot
<1>2. /\ s \in Snapshots /\ s = snapshots[1] /\ 1 \in 1..Len(snapshots)
      /\ snapshots' \in Seq(Snapshots) /\ Len(snapshots) \in Nat
      /\ Len(snapshots') = Len(snapshots) - 1
      /\ \A i \in 1..Len(snapshots') : snapshots'[i] = snapshots[i + 1]
  BY <1>1, HeadTailProperties DEF HandleSnapshot
<1> HIDE DEF s
<1>3. UNCHANGED <<connected, connections, journal, stops, lastProbe, generation, committed,
                  requests, answers, notFound, reconfirmed, delivered>>
  BY DEF HandleSnapshot, environmentVars
<1>4. \A i \in 1..Len(snapshots') : i + 1 \in 1..Len(snapshots) /\ i + 1 # 1
  BY <1>2
<1>5. s \notin adapter.used /\ Known(s)
  <2>1. Known(s) /\ s.challenge \in Challenges /\ s.journal \in Journals
    BY <1>1, <1>2 DEF Ordered, Snapshots
  <2>2. ~Before(s, s)
    BY <2>1, JournalFields DEF Before, Challenges
  <2> QED
    BY <1>1, <1>2, <2>1, <2>2 DEF Ordered
<1>6. /\ Good(adapter') /\ adapter'.used \subseteq adapter.used \cup {s}
      /\ adapter'.ready => lastHeard' = "idle"
  <2>1. CASE adapter.settingsReady
    <3>1. adapter' = AfterSnapshot(adapter, s) /\ lastHeard' = s.journal.phase
      BY <2>1 DEF HandleSnapshot, s
    <3>2. s.journal.revision <= journal.revision /\ Received(s)
      BY <1>2, <1>5 DEF Known, Received
    <3>3. /\ Good(AfterSnapshot(adapter, s))
          /\ AfterSnapshot(adapter, s).used \subseteq adapter.used \cup {s}
          /\ AfterSnapshot(adapter, s).ready => s.journal.phase = "idle"
      BY <1>1, <1>2, <1>5, <3>2, SnapshotGood
    <3> QED
      BY <3>1, <3>3
  <2>2. CASE ~adapter.settingsReady
    BY <1>1, <2>2 DEF HandleSnapshot, StopInv, ReadyIsIdle
  <2> QED
    BY <2>1, <2>2
<1>7. Good(adapter)'
  BY <1>2, <1>3, <1>4, <1>6, GoodLater DEF Shrinks
<1>8. Ordered'
  <2>1. ASSUME NEW t \in Snapshots
        PROVE  (Known(t) => Known(t)')
    BY <1>3 DEF Known
  <2>2. ASSUME NEW i \in 1..Len(snapshots')
        PROVE  /\ Known(snapshots'[i]) /\ Before(s, snapshots'[i])
               /\ \A j \in 1..(i - 1) : Before(snapshots'[j], snapshots'[i])
               /\ \A u \in adapter.used : Before(u, snapshots'[i])
    <3>1. /\ i + 1 \in 1..Len(snapshots) /\ snapshots'[i] = snapshots[i + 1]
          /\ 1 \in 1..((i + 1) - 1)
      BY <1>2, <1>4
    <3>2. ASSUME NEW j \in 1..(i - 1)
          PROVE  Before(snapshots'[j], snapshots'[i])
      <4>1. j \in 1..Len(snapshots') /\ j + 1 \in 1..((i + 1) - 1)
        BY <1>2
      <4>2. snapshots'[j] = snapshots[j + 1]
        BY <1>2, <4>1
      <4> QED
        BY <1>1, <3>1, <4>1, <4>2 DEF Ordered
    <3> QED
      BY <1>1, <1>2, <3>1, <3>2 DEF Ordered
  <2>3. /\ \A i \in 1..Len(snapshots') :
             /\ Known(snapshots'[i])
             /\ \A j \in 1..(i - 1) : Before(snapshots'[j], snapshots'[i])
        /\ \A u \in adapter'.used :
             Known(u) /\ \A i \in 1..Len(snapshots') : Before(u, snapshots'[i])
    BY <1>1, <1>5, <1>6, <2>2 DEF Ordered
  <2> QED
    BY <1>3, <2>3 DEF Ordered, Known, Before
<1>9. WorldTyped' /\ FoundNothing' /\ ReadyIsIdle' /\ ResultIsTrue'
  BY <1>2, <1>3, <1>6 DEF StopInv, WorldTyped, FoundNothing, ReadyIsIdle, ResultIsTrue
<1> QED
  BY <1>7, <1>8, <1>9 DEF StopInv

LEMMA StopPublish ==
  ASSUME StopInv, PublishStop
  PROVE  StopInv'
<1>1. WorldTyped /\ Good(adapter) /\ adapter \in Adapters /\ adapter.stop # None
  BY DEF StopInv, Good, Bounded, PublishStop
<1>2. UNCHANGED <<connected, connections, journal, stops, lastProbe, generation, committed,
                  snapshots, answers, notFound, reconfirmed, lastHeard, delivered>>
  BY DEF PublishStop
<1>3. /\ adapter' \in Adapters /\ adapter'.stop = None
      /\ \A f \in {"ready", "probe", "probes", "query", "queue", "used"} :
           adapter'[f] = adapter[f]
  BY <1>1 DEF PublishStop, Adapters
<1>4. Good(adapter')
  BY <1>1, <1>3, GoodIfForgotten
<1>5. Good(adapter)'
  BY <1>2, <1>4, GoodLater DEF Shrinks
<1>6. requests' \subseteq ActiveAttempts
  BY <1>1 DEF PublishStop, Adapters, WorldTyped
<1>7. WorldTyped' /\ FoundNothing' /\ ReadyIsIdle' /\ ResultIsTrue'
  BY <1>2, <1>3, <1>6 DEF StopInv, WorldTyped, FoundNothing, ReadyIsIdle, ResultIsTrue
<1>8. Ordered'
  BY <1>2, <1>3 DEF StopInv, Ordered, Known, Before
<1> QED
  BY <1>5, <1>7, <1>8 DEF StopInv

\* What the server does to what the adapter and the dashboard rely on.
ServerKeeps ==
  /\ generation' \in Generations
  /\ committed' \subseteq [operation : Operations, fence : Generations]
  /\ requests' \subseteq ActiveAttempts /\ answers' \subseteq Replies
  /\ answers \subseteq answers' /\ notFound \subseteq notFound'
  /\ \A answer \in answers' \ answers :
       answer.result = "not_found" => answer.operation \in notFound'

Reply(request, result, fence) ==
  [challenge |-> request.challenge, operation |-> request.journal.operation,
   result |-> result, fence |-> fence]

\* The answer to a request.
Replied(request, result, fence) ==
  /\ answers' = answers \cup {Reply(request, result, fence)}
  /\ notFound' = IF result = "not_found" THEN notFound \cup {request.journal.operation}
                 ELSE notFound
  /\ \/ UNCHANGED <<generation, committed>>
     \/ /\ generation < MaxGeneration /\ generation' = generation + 1
        /\ committed' = committed \cup
             {[operation |-> request.journal.operation, fence |-> generation]}

LEMMA ServerReplies ==
  ASSUME WorldTyped, NEW request \in requests, AnswerStop(request)
  PROVE  \E result \in Answered, fence \in Generations \cup {None} :
           Replied(request, result, fence)
<1> DEFINE stop == request.journal
<1>1. stop.fence \in Generations \cup {None}
  BY JournalFields DEF WorldTyped, ActiveAttempts, Active
<1>2. CASE /\ \E c \in Commitments(stop.operation) :
                Answer(request.challenge, stop.operation, "committed", c.fence)
           /\ UNCHANGED <<generation, committed, notFound>>
  <2>1. PICK c \in Commitments(stop.operation) :
          Answer(request.challenge, stop.operation, "committed", c.fence)
    BY <1>2
  <2>2. c.fence \in Generations
    BY DEF Commitments, WorldTyped
  <2>3. Replied(request, "committed", c.fence)
    BY <1>2, <2>1 DEF Answer, Reply, Replied
  <2> QED
    BY <2>2, <2>3 DEF Answered
<1>3. CASE /\ Answer(request.challenge, stop.operation, "not_found", None)
           /\ notFound' = notFound \cup {stop.operation}
           /\ UNCHANGED <<generation, committed>>
  <2>1. Replied(request, "not_found", None)
    BY <1>3 DEF Answer, Reply, Replied
  <2> QED
    BY <2>1 DEF Answered
<1>4. CASE /\ stop.fence = generation /\ generation < MaxGeneration
           /\ generation' = generation + 1
           /\ committed' = committed \cup {[operation |-> stop.operation, fence |-> stop.fence]}
           /\ Answer(request.challenge, stop.operation, "committed", stop.fence)
           /\ UNCHANGED notFound
  <2>1. Replied(request, "committed", stop.fence)
    BY <1>4 DEF Answer, Reply, Replied
  <2> QED
    BY <1>1, <2>1 DEF Answered
<1>5. CASE /\ Answer(request.challenge, stop.operation, "superseded", stop.fence)
           /\ UNCHANGED <<generation, committed, notFound>>
  <2>1. Replied(request, "superseded", stop.fence)
    BY <1>5 DEF Answer, Reply, Replied
  <2> QED
    BY <1>1, <2>1 DEF Answered
<1>6. CASE /\ Answer(request.challenge, stop.operation, "error", None)
           /\ UNCHANGED <<generation, committed, notFound>>
  <2>1. Replied(request, "error", None)
    BY <1>6 DEF Answer, Reply, Replied
  <2> QED
    BY <2>1 DEF Answered
<1> QED
  BY <1>2, <1>3, <1>4, <1>5, <1>6 DEF AnswerStop

LEMMA ServerStep ==
  ASSUME WorldTyped, adapter \in Adapters, Server
  PROVE  ServerKeeps
<1>1. CASE AnswerHello /\ UNCHANGED requests
  <2> DEFINE reply == [challenge |-> adapter.permit.challenge, operation |-> None,
                       result |-> "none", fence |-> generation]
  <2>1. reply \in Replies /\ reply.result = "none"
    BY <1>1 DEF AnswerHello, Adapters, ActiveQueries, Replies, WorldTyped
  <2>2. answers' = answers \cup {reply} /\ UNCHANGED <<generation, committed, notFound>>
    BY <1>1 DEF AnswerHello, Answer
  <2> HIDE DEF reply
  <2> QED
    BY <1>1, <2>1, <2>2 DEF WorldTyped, ServerKeeps
<1>2. CASE ConsentChanges /\ UNCHANGED requests
  BY <1>2 DEF ConsentChanges, WorldTyped, Generations, ServerKeeps
<1>3. ASSUME NEW request \in requests, requests' = requests \ {request}, AnswerStop(request)
      PROVE  ServerKeeps
  <2>1. PICK result \in Answered, fence \in Generations \cup {None} :
          Replied(request, result, fence)
    BY <1>3, ServerReplies
  <2> DEFINE reply == Reply(request, result, fence)
  <2>2. /\ request \in ActiveAttempts /\ request.challenge \in Challenges
        /\ request.journal.operation \in Operations
    BY JournalFields DEF WorldTyped, ActiveAttempts, Active
  <2>3. /\ reply \in Replies /\ reply.result = result
        /\ reply.operation = request.journal.operation
    BY <2>2 DEF Reply, Replies
  <2>4. /\ generation' \in Generations
        /\ committed' \subseteq [operation : Operations, fence : Generations]
    BY <2>1, <2>2 DEF Replied, WorldTyped, Generations
  <2>5. /\ answers' = answers \cup {reply}
        /\ notFound' = IF result = "not_found" THEN notFound \cup {request.journal.operation}
                       ELSE notFound
    BY <2>1 DEF Replied
  <2> HIDE DEF reply
  <2> QED
    BY <1>3, <2>3, <2>4, <2>5 DEF WorldTyped, ServerKeeps
<1> QED
  BY <1>1, <1>2, <1>3 DEF Server

LEMMA StopServer ==
  ASSUME StopInv, Server
  PROVE  StopInv'
<1>1. WorldTyped /\ Good(adapter) /\ adapter \in Adapters
  BY DEF StopInv, Good, Bounded
<1>2. UNCHANGED <<connected, connections, adapter, journal, stops, lastProbe, snapshots,
                  reconfirmed, lastHeard, delivered>>
  BY DEF Server
<1>3. ServerKeeps
  BY <1>1, ServerStep
<1>4. Good(adapter)'
  BY <1>1, <1>2, <1>3, GoodLater DEF Shrinks, ServerKeeps
<1>5. WorldTyped' /\ FoundNothing' /\ ReadyIsIdle' /\ ResultIsTrue'
  <2>1. WorldTyped' /\ ReadyIsIdle'
    BY <1>2, <1>3 DEF StopInv, WorldTyped, ReadyIsIdle, ServerKeeps
  <2>2. FoundNothing'
    BY <1>3 DEF StopInv, FoundNothing, ServerKeeps
  <2>3. ResultIsTrue'
    BY <1>2, <1>3 DEF StopInv, ResultIsTrue, ServerKeeps
  <2> QED
    BY <2>1, <2>2, <2>3
<1>6. Ordered'
  BY <1>2 DEF StopInv, Ordered, Known, Before
<1> QED
  BY <1>4, <1>5, <1>6 DEF StopInv

(***************************************************************************)
(* The dashboard                                                           *)
(***************************************************************************)

\* A snapshot that is newer than all the dashboard has sent.
LEMMA Appended ==
  ASSUME WorldTyped, Ordered, adapter \in Adapters, NEW new \in Snapshots,
         snapshots' = Append(snapshots, new), adapter'.used = adapter.used,
         journal' \in Journals, journal.revision <= journal'.revision,
         lastProbe' \in Challenges, lastProbe <= lastProbe',
         new.challenge = lastProbe', new.journal = journal',
         lastProbe < lastProbe' \/ journal.revision < journal'.revision
  PROVE  Ordered'
<1>1. /\ snapshots' \in Seq(Snapshots) /\ Len(snapshots) \in Nat
      /\ Len(snapshots') = Len(snapshots) + 1
      /\ \A i \in 1..Len(snapshots) : snapshots'[i] = snapshots[i]
      /\ snapshots'[Len(snapshots) + 1] = new
  BY AppendProperties DEF WorldTyped
<1>2. ASSUME NEW t \in Snapshots, Known(t)
      PROVE  /\ t.challenge <= lastProbe' /\ t.journal.revision <= journal'.revision
             /\ Before(t, new)
  <2>1. /\ t.challenge \in Nat /\ t.journal.revision \in Nat
        /\ lastProbe \in Nat /\ lastProbe' \in Nat
        /\ journal.revision \in Nat /\ journal'.revision \in Nat
    BY JournalFields DEF Snapshots, WorldTyped, Challenges
  <2>2. t.challenge <= lastProbe /\ t.journal.revision <= journal.revision
    BY <1>2 DEF Known
  <2>3. t.challenge <= lastProbe' /\ t.journal.revision <= journal'.revision
    BY SMTT(20), <2>1, <2>2
  <2>4. CASE lastProbe < lastProbe'
    <3>1. t.challenge < new.challenge
      BY <2>1, <2>2, <2>4
    <3> QED
      BY <2>3, <3>1 DEF Before
  <2>5. CASE journal.revision < journal'.revision
    <3>1. t.journal.revision < new.journal.revision
      BY <2>1, <2>2, <2>5
    <3>2. t.challenge < new.challenge \/ t.challenge = new.challenge
      BY <2>1, <2>3
    <3> QED
      BY <2>3, <3>1, <3>2 DEF Before
  <2> QED
    BY <2>4, <2>5
<1>3. ASSUME NEW i \in 1..Len(snapshots')
      PROVE  /\ snapshots'[i].challenge <= lastProbe'
             /\ snapshots'[i].journal.revision <= journal'.revision
             /\ \A j \in 1..(i - 1) : Before(snapshots'[j], snapshots'[i])
             /\ \A u \in adapter.used : Before(u, snapshots'[i])
  <2>1. CASE i = Len(snapshots')
    <3>1. snapshots'[i] = new
      BY <1>1, <2>1
    <3>2. new.challenge <= lastProbe' /\ new.journal.revision <= journal'.revision
      BY JournalFields DEF Challenges
    <3>3. ASSUME NEW j \in 1..(i - 1)
          PROVE  Before(snapshots'[j], new)
      <4>1. j \in 1..Len(snapshots)
        BY <1>1, <2>1
      <4>2. snapshots[j] \in Snapshots /\ Known(snapshots[j]) /\ snapshots'[j] = snapshots[j]
        BY <1>1, <4>1 DEF WorldTyped, Ordered
      <4> QED
        BY <1>2, <4>2
    <3>4. ASSUME NEW u \in adapter.used
          PROVE  Before(u, new)
      <4>1. u \in Snapshots /\ Known(u)
        BY DEF Adapters, Ordered
      <4> QED
        BY <1>2, <4>1
    <3> QED
      BY <3>1, <3>2, <3>3, <3>4
  <2>2. CASE i # Len(snapshots')
    <3>1. i \in 1..Len(snapshots) /\ \A j \in 1..(i - 1) : j \in 1..Len(snapshots)
      BY <1>1, <2>2
    <3>2. snapshots'[i] = snapshots[i] /\ \A j \in 1..(i - 1) : snapshots'[j] = snapshots[j]
      BY <1>1, <3>1
    <3>3. snapshots[i] \in Snapshots /\ Known(snapshots[i])
      BY <3>1 DEF WorldTyped, Ordered
    <3>4. /\ \A j \in 1..(i - 1) : Before(snapshots[j], snapshots[i])
          /\ \A u \in adapter.used : Before(u, snapshots[i])
      BY <3>1 DEF Ordered
    <3> QED
      BY <1>2, <3>2, <3>3, <3>4
  <2> QED
    BY <2>1, <2>2
<1>4. ASSUME NEW u \in adapter.used
      PROVE  u.challenge <= lastProbe' /\ u.journal.revision <= journal'.revision
  <2>1. u \in Snapshots /\ Known(u)
    BY DEF Adapters, Ordered
  <2> QED
    BY <1>2, <2>1
<1> QED
  BY <1>3, <1>4 DEF Ordered, Known, Before

\* The journal moves on, and may be announced.
LEMMA Moves ==
  ASSUME StopInv, NEW a, adapter' = a, Good(a), a.used = adapter.used,
         journal' \in Journals, journal.revision < journal'.revision, Announces,
         UNCHANGED <<lastProbe, answers, notFound, reconfirmed>>
  PROVE  Good(adapter)' /\ Ordered' /\ snapshots' \in Seq(Snapshots)
<1> DEFINE new == [challenge |-> lastProbe, journal |-> journal']
<1>1. /\ WorldTyped /\ Ordered /\ adapter \in Adapters /\ a \in Adapters
      /\ journal \in Journals /\ lastProbe \in Challenges
  BY DEF StopInv, Good, Bounded, WorldTyped
<1>2. new \in Snapshots /\ new.challenge = lastProbe /\ new.journal = journal'
  BY <1>1 DEF Snapshots
<1>3. snapshots' = snapshots \/ snapshots' = Append(snapshots, new)
  BY DEF Announces
<1> HIDE DEF new
<1>4. /\ journal.revision \in Nat /\ journal'.revision \in Nat
      /\ journal.revision <= journal'.revision
  BY <1>1, JournalFields
<1>5. snapshots' \in Seq(Snapshots)
  <2>1. snapshots \in Seq(Snapshots)
    BY <1>1 DEF WorldTyped
  <2>2. Append(snapshots, new) \in Seq(Snapshots)
    BY <1>2, <2>1, AppendProperties
  <2> QED
    BY <1>3, <2>1, <2>2
<1>6. ASSUME NEW i \in 1..Len(snapshots')
      PROVE  snapshots'[i] = new \/ \E j \in 1..Len(snapshots) : snapshots'[i] = snapshots[j]
  <2>1. CASE snapshots' = snapshots
    BY <2>1
  <2>2. CASE snapshots' = Append(snapshots, new)
    <3>1. /\ Len(snapshots) \in Nat /\ Len(snapshots') = Len(snapshots) + 1
          /\ \A j \in 1..Len(snapshots) : snapshots'[j] = snapshots[j]
          /\ snapshots'[Len(snapshots) + 1] = new
      BY <1>1, <1>2, <2>2, AppendProperties DEF WorldTyped
    <3>2. i = Len(snapshots) + 1 \/ i \in 1..Len(snapshots)
      BY <3>1
    <3> QED
      BY <3>1, <3>2
  <2> QED
    BY <1>3, <2>1, <2>2
<1>7. a.query # None => a.query.journal # journal' /\ a.query.journal.revision <= journal'.revision
  <2> SUFFICES ASSUME a.query # None
               PROVE  a.query.journal # journal' /\ a.query.journal.revision <= journal'.revision
    OBVIOUS
  <2>1. a.query.journal.revision <= journal.revision /\ a.query.journal \in Journals
    BY <1>1 DEF Good, Numbered, Adapters, ActiveQueries, Active
  <2>2. a.query.journal.revision \in Nat
    BY <2>1, JournalFields
  <2> QED
    BY <1>4, <2>1, <2>2
<1>8. Confirming(adapter)'
  BY <1>2, <1>6, <1>7 DEF Good, Confirming, Shown
<1>9. Numbered(adapter)'
  BY <1>2, <1>6, <1>7 DEF Good, Numbered
<1>10. Good(adapter)'
  <2>1. Bounded(adapter)' /\ Fresh(adapter)' /\ Reconfirmed(adapter)'
    BY DEF Good, Bounded, Fresh, Reconfirmed
  <2>2. Truthful(adapter)'
    BY DEF Good, Truthful, TrueMessage
  <2> QED
    BY <1>8, <1>9, <2>1, <2>2 DEF Good
<1>11. Ordered'
  <2>1. CASE snapshots' = snapshots
    <3>1. ASSUME NEW s \in Snapshots, Known(s)
          PROVE  s.challenge <= lastProbe /\ s.journal.revision <= journal'.revision
      <4>1. s.journal.revision \in Nat
        BY JournalFields DEF Snapshots
      <4> QED
        BY <1>4, <3>1, <4>1 DEF Known
    <3>2. \A i \in 1..Len(snapshots) : snapshots[i] \in Snapshots
      BY <1>1 DEF WorldTyped
    <3>3. \A u \in adapter.used : u \in Snapshots
      BY <1>1 DEF Adapters
    <3>4. /\ \A i \in 1..Len(snapshots) : /\ snapshots[i].challenge <= lastProbe
                                          /\ snapshots[i].journal.revision <= journal'.revision
          /\ \A u \in adapter.used : /\ u.challenge <= lastProbe
                                     /\ u.journal.revision <= journal'.revision
      BY <1>1, <3>1, <3>2, <3>3 DEF Ordered
    <3> QED
      BY <1>1, <2>1, <3>4 DEF Ordered, Known, Before
  <2>2. CASE snapshots' = Append(snapshots, new)
    <3>1. lastProbe <= lastProbe' /\ lastProbe' \in Challenges
      BY <1>1 DEF Challenges
    <3> QED
      BY <1>1, <1>2, <1>4, <2>2, <3>1, Appended
  <2> QED
    BY <1>3, <2>1, <2>2
<1> QED
  BY <1>5, <1>10, <1>11

LEMMA MoveTyped ==
  ASSUME journal \in Journals, journal.operation \in Operations,
         NEW phase \in {"prepared", "confirmed", "uncertain"},
         NEW fence \in Generations \cup {None}, Move(phase, fence)
  PROVE  journal' \in Journals /\ journal.revision < journal'.revision
<1>1. journal.revision \in Nat /\ journal.revision + 1 \in Revisions
  BY JournalFields DEF Move, Revisions
<1>2. journal' = [phase |-> phase, operation |-> journal.operation,
                  revision |-> journal.revision + 1, fence |-> fence]
  BY DEF Move, Journals
<1> QED
  BY <1>1, <1>2 DEF Journals

LEMMA StopDashboard ==
  ASSUME StopInv, Dashboard
  PROVE  StopInv'
<1>1. WorldTyped /\ Good(adapter) /\ journal \in Journals
  BY DEF StopInv, WorldTyped
<1>2. /\ UNCHANGED <<connected, connections, adapter, lastProbe, generation, committed, requests,
                     answers, notFound, reconfirmed, lastHeard, delivered>>
      /\ Announces
  BY DEF Dashboard, historyVars
<1>3. /\ journal' \in Journals /\ journal.revision < journal'.revision /\ stops' \in 0..MaxStops
  <2>1. journal.revision \in Nat /\ journal.revision \in Revisions
    BY <1>1, JournalFields
  <2>2. CASE /\ journal.phase = "idle" /\ stops < MaxStops /\ journal.revision < MaxRevision
             /\ stops' = stops + 1
             /\ journal' = [phase |-> "preparing", operation |-> stops + 1, fence |-> None,
                            revision |-> journal.revision + 1]
    <3>1. /\ stops + 1 \in Operations /\ stops' \in 0..MaxStops
          /\ journal.revision + 1 \in Revisions /\ journal.revision < journal.revision + 1
      BY SMTT(20), <1>1, <2>1, <2>2 DEF WorldTyped, Operations, Revisions
    <3>2. journal' \in Journals /\ journal'.revision = journal.revision + 1
      BY <2>2, <3>1 DEF Journals
    <3> QED
      BY <3>1, <3>2
  <2>3. CASE journal.phase = "prepared" /\ Move("uncertain", journal.fence) /\ UNCHANGED stops
    <3>1. journal.operation \in Operations /\ journal.fence \in Generations \cup {None}
      BY <1>1, <2>3, JournalFields
    <3> QED
      BY <1>1, <2>3, <3>1, MoveTyped DEF WorldTyped
  <2>4. CASE /\ journal.revision < MaxRevision
             /\ journal' = [Idle EXCEPT !.revision = journal.revision + 1]
             /\ UNCHANGED stops
    <3>1. journal' = [phase |-> "idle", operation |-> None, revision |-> journal.revision + 1,
                      fence |-> None]
      BY <2>4 DEF Idle
    <3>2. journal.revision + 1 \in Revisions /\ journal.revision < journal.revision + 1
      BY <2>1, <2>4 DEF Revisions
    <3>3. journal' \in Journals /\ journal'.revision = journal.revision + 1
      BY <3>1, <3>2 DEF Journals
    <3> QED
      BY <1>1, <2>4, <3>2, <3>3 DEF WorldTyped
  <2> QED
    BY <2>2, <2>3, <2>4 DEF Dashboard, MoveJournal
<1>4. Good(adapter)' /\ Ordered' /\ snapshots' \in Seq(Snapshots)
  BY <1>1, <1>2, <1>3, Moves
<1>5. WorldTyped' /\ FoundNothing' /\ ReadyIsIdle' /\ ResultIsTrue'
  BY <1>2, <1>3, <1>4 DEF StopInv, WorldTyped, FoundNothing, ReadyIsIdle, ResultIsTrue
<1> QED
  BY <1>4, <1>5 DEF StopInv

\* Places in a sequence and in its tail.
LEMMA LaterPlace ==
  ASSUME NEW n \in Nat, NEW i \in 1..n, NEW j \in 1..(i - 1)
  PROVE  j \in 1..n /\ j + 1 \in 1..((i + 1) - 1)
  OBVIOUS

\* What is in a sequence that one element was appended to.
LEMMA AppendedElements ==
  ASSUME NEW S, NEW s \in Seq(S), NEW x \in S, NEW t, t = Append(s, x)
  PROVE  /\ t \in Seq(S)
         /\ \A i \in 1..Len(t) : t[i] = x \/ \E j \in 1..Len(s) : t[i] = s[j]
<1>1. /\ t \in Seq(S) /\ Len(s) \in Nat /\ Len(t) = Len(s) + 1
      /\ \A j \in 1..Len(s) : t[j] = s[j]
      /\ t[Len(s) + 1] = x
  BY AppendProperties
<1>2. \A i \in 1..Len(t) : i = Len(s) + 1 \/ i \in 1..Len(s)
  BY <1>1
<1> QED
  BY <1>1, <1>2

\* Without the oldest entry of its queue.
LEMMA TailGood ==
  ASSUME NEW a, Good(a), a.queue # <<>>, NEW b, b = [a EXCEPT !.queue = Tail(@)]
  PROVE  /\ Good(b) /\ b.used = a.used /\ b.ready = a.ready /\ b.probe = a.probe
         /\ b.query = a.query /\ b.stop = a.stop /\ b.probes = a.probes
         /\ Head(a.queue) \in Messages /\ TrueMessage(Head(a.queue))
         /\ Head(a.queue).type = "probe" =>
              /\ lastProbe < Head(a.queue).challenge /\ Head(a.queue).challenge <= a.probes
              /\ \A i \in 1..Len(b.queue) : b.queue[i].type = "probe" =>
                   Head(a.queue).challenge < b.queue[i].challenge
<1> DEFINE tail == Tail(a.queue)
<1>1. a \in Adapters /\ a.queue \in Seq(Messages)
  BY DEF Good, Bounded, Adapters
<1>2. /\ tail \in Seq(Messages) /\ Len(a.queue) \in Nat /\ Len(tail) = Len(a.queue) - 1
      /\ \A i \in 1..Len(tail) : tail[i] = a.queue[i + 1]
      /\ Head(a.queue) \in Messages /\ Head(a.queue) = a.queue[1] /\ 1 \in 1..Len(a.queue)
  BY <1>1, HeadTailProperties
<1> HIDE DEF tail
<1>3. /\ b \in Adapters /\ b.queue = tail
      /\ \A f \in {"ready", "probe", "probes", "query", "stop", "used"} : b[f] = a[f]
  BY <1>1, <1>2 DEF Adapters, tail
<1>4. \A i \in 1..Len(tail) : i + 1 \in 1..Len(a.queue) /\ 1 \in 1..((i + 1) - 1)
  BY SMTT(20), <1>2
<1>5. Len(b.queue) <= QueueSize
  BY <1>2, <1>3 DEF Good, Bounded
<1>6. Truthful(b)
  BY <1>2, <1>3, <1>4 DEF Good, Truthful
<1>7. Fresh(b)
  <2> SUFFICES ASSUME NEW i \in 1..Len(tail), tail[i].type = "probe"
               PROVE  /\ lastProbe < tail[i].challenge /\ tail[i].challenge <= a.probes
                      /\ \A j \in 1..(i - 1) :
                           tail[j].type = "probe" => tail[j].challenge < tail[i].challenge
    BY <1>3 DEF Fresh
  <2>1. i + 1 \in 1..Len(a.queue) /\ tail[i] = a.queue[i + 1]
    BY <1>2, <1>4
  <2>2. ASSUME NEW j \in 1..(i - 1)
        PROVE  j \in 1..Len(tail) /\ j + 1 \in 1..((i + 1) - 1)
    <3>1. Len(tail) \in Nat
      BY <1>2
    <3> QED
      BY <3>1, LaterPlace
  <2>3. \A j \in 1..(i - 1) : tail[j] = a.queue[j + 1]
    BY <1>2, <2>2
  <2> QED
    BY <2>1, <2>2, <2>3 DEF Good, Fresh
<1>8. Good(b)
  BY <1>3, <1>5, <1>6, <1>7 DEF Good, Bounded, Confirming, Reconfirmed, Numbered
<1>9. TrueMessage(Head(a.queue))
  <2>1. TrueMessage(a.queue[1])
    BY <1>2 DEF Good, Truthful
  <2> QED
    BY <1>2, <2>1
<1>10. a.queue[1].type = "probe" =>
         /\ lastProbe < a.queue[1].challenge /\ a.queue[1].challenge <= a.probes
         /\ \A i \in 1..Len(tail) : tail[i].type = "probe" =>
              a.queue[1].challenge < tail[i].challenge
  BY <1>2, <1>4 DEF Good, Fresh
<1> QED
  BY <1>2, <1>3, <1>8, <1>9, <1>10

\* A probe that reaches the dashboard, which shows its journal.
LEMMA StopProbed ==
  ASSUME StopInv, NEW message, message.type = "probe", message = Head(adapter.queue),
         adapter.queue # <<>>, adapter' = [adapter EXCEPT !.queue = Tail(@)],
         lastProbe' = message.challenge,
         snapshots' = Append(snapshots, [challenge |-> message.challenge, journal |-> journal]),
         reconfirmed' = IF journal.operation \in notFound THEN reconfirmed \cup {journal}
                        ELSE reconfirmed,
         UNCHANGED <<connected, connections, journal, stops, generation, committed, requests,
                     answers, notFound, lastHeard, delivered>>
  PROVE  StopInv'
<1> DEFINE new == [challenge |-> message.challenge, journal |-> journal]
           a == [adapter EXCEPT !.queue = Tail(@)]
<1>1. WorldTyped /\ Ordered /\ Good(adapter) /\ adapter \in Adapters
  BY DEF StopInv, Good, Bounded
<1>2. /\ Good(a) /\ a.used = adapter.used /\ a.ready = adapter.ready
      /\ message \in Messages
      /\ lastProbe < message.challenge /\ message.challenge <= a.probes
      /\ \A i \in 1..Len(a.queue) :
           a.queue[i].type = "probe" => message.challenge < a.queue[i].challenge
  BY <1>1, TailGood
<1>3. adapter' = a
  OBVIOUS
<1> HIDE DEF a
<1>4. message.challenge \in Challenges
  BY <1>2 DEF Messages
<1>5. new \in Snapshots /\ new.challenge = message.challenge /\ new.journal = journal
  BY <1>1, <1>4 DEF Snapshots, WorldTyped
<1>6. snapshots' = Append(snapshots, new)
  OBVIOUS
<1> HIDE DEF new
<1>7. /\ snapshots' \in Seq(Snapshots)
      /\ \A i \in 1..Len(snapshots') :
           snapshots'[i] = new \/ \E j \in 1..Len(snapshots) : snapshots'[i] = snapshots[j]
  <2>1. snapshots \in Seq(Snapshots)
    BY <1>1 DEF WorldTyped
  <2> QED
    BY <1>5, <1>6, <2>1, AppendedElements
<1>8. Confirming(adapter)'
  <2> SUFFICES ASSUME a.probe # None, a.probe.purpose = "confirm", a.query # None
               PROVE  /\ a.query.journal.operation \in notFound
                      /\ \A i \in 1..Len(snapshots') :
                           (snapshots'[i].challenge = a.probe.challenge
                              /\ snapshots'[i].journal = a.query.journal)
                             => a.query.journal \in reconfirmed'
    BY <1>3 DEF Confirming, Shown
  <2>1. /\ a.query.journal.operation \in notFound
        /\ Shown(a.query.journal, a.probe.challenge)
    BY <1>2 DEF Good, Confirming
  <2>2. a.query.journal = journal => a.query.journal \in reconfirmed'
    BY <2>1
  <2>3. reconfirmed \subseteq reconfirmed'
    OBVIOUS
  <2> QED
    BY <1>5, <1>7, <2>1, <2>2, <2>3 DEF Shown
<1>9. Reconfirmed(adapter)' /\ Bounded(adapter)' /\ Truthful(adapter)'
  BY ZenonT(30), <1>2, <1>3 DEF Good, Reconfirmed, Bounded, Truthful, TrueMessage
<1>10. Numbered(adapter)'
  BY <1>2, <1>3, <1>5, <1>7 DEF Good, Numbered
<1>11. Fresh(adapter)'
  BY <1>2, <1>3 DEF Good, Fresh
<1>12. Ordered'
  <2>1. lastProbe <= lastProbe'
    <3>1. lastProbe \in Nat /\ message.challenge \in Nat
      BY <1>1, <1>4 DEF WorldTyped, Challenges
    <3>2. lastProbe < message.challenge /\ lastProbe' = message.challenge
      BY <1>2
    <3> QED
      BY <3>1, <3>2
  <2>2. journal.revision <= journal'.revision
    <3>1. journal.revision \in Nat
      BY <1>1, JournalFields DEF WorldTyped
    <3> QED
      BY <3>1
  <2> QED
    BY <1>1, <1>2, <1>3, <1>4, <1>5, <1>6, <2>1, <2>2, Appended DEF WorldTyped
<1>13. WorldTyped' /\ FoundNothing' /\ ReadyIsIdle' /\ ResultIsTrue'
  BY <1>2, <1>3, <1>4, <1>7
     DEF StopInv, WorldTyped, FoundNothing, ReadyIsIdle, ResultIsTrue
<1> QED
  BY <1>8, <1>9, <1>10, <1>11, <1>12, <1>13 DEF StopInv, Good

\* A result that reaches it.
LEMMA StopTold ==
  ASSUME StopInv, NEW message, message.type # "probe", message = Head(adapter.queue),
         adapter.queue # <<>>, adapter' = [adapter EXCEPT !.queue = Tail(@)],
         delivered' = message, TakeResult(message),
         IF journal' # journal THEN Announces ELSE UNCHANGED snapshots,
         UNCHANGED <<connected, connections, lastProbe, stops, generation, committed, requests,
                     answers, notFound, reconfirmed, lastHeard>>
  PROVE  StopInv'
<1> DEFINE a == [adapter EXCEPT !.queue = Tail(@)]
<1>1. WorldTyped /\ Ordered /\ Good(adapter) /\ journal \in Journals
  BY DEF StopInv, WorldTyped
<1>2. /\ Good(a) /\ a.used = adapter.used /\ a.ready = adapter.ready
      /\ message \in Messages /\ TrueMessage(message)
  BY <1>1, TailGood
<1>3. adapter' = a
  OBVIOUS
<1> HIDE DEF a
<1>4. message.operation \in Operations /\ message.fence \in Generations \cup {None}
  BY <1>2 DEF Messages
<1>5. journal' = journal \/ (journal' \in Journals /\ journal.revision < journal'.revision)
  <2>1. ASSUME message.operation = journal.operation, journal' # journal
        PROVE  \E phase \in {"prepared", "confirmed", "uncertain"},
                  fence \in Generations \cup {None} : Move(phase, fence)
    <3>1. journal.fence \in Generations \cup {None}
      BY <1>1, JournalFields
    <3>2. \/ Move("prepared", message.fence) \/ Move("confirmed", journal.fence)
          \/ Move("uncertain", journal.fence)
      BY <2>1 DEF TakeResult
    <3> QED
      BY <1>4, <3>1, <3>2
  <2>2. CASE message.operation = journal.operation
    BY <1>1, <1>4, <2>1, <2>2, MoveTyped
  <2>3. CASE message.operation # journal.operation
    BY <2>3 DEF TakeResult
  <2> QED
    BY <2>2, <2>3
<1>6. Good(adapter)' /\ Ordered' /\ snapshots' \in Seq(Snapshots)
  <2>1. CASE journal' = journal
    <3>1. snapshots' = snapshots
      BY <2>1
    <3>2. Good(adapter)'
      BY <1>2, <1>3, <2>1, <3>1, GoodLater DEF Shrinks
    <3>3. Ordered'
      BY <1>1, <1>2, <1>3, <2>1, <3>1 DEF Ordered, Known, Before
    <3> QED
      BY <1>1, <3>1, <3>2, <3>3 DEF WorldTyped
  <2>2. CASE journal' # journal
    <3>1. Announces /\ journal' \in Journals /\ journal.revision < journal'.revision
      BY <1>5, <2>2
    <3> QED
      BY <1>2, <1>3, <3>1, Moves
  <2> QED
    BY <2>1, <2>2
<1>7. WorldTyped' /\ FoundNothing' /\ ReadyIsIdle'
  BY <1>1, <1>2, <1>3, <1>5, <1>6 DEF StopInv, WorldTyped, FoundNothing, ReadyIsIdle
<1>8. ResultIsTrue'
  BY <1>2 DEF ResultIsTrue, TrueMessage
<1> QED
  BY <1>6, <1>7, <1>8 DEF StopInv

LEMMA StopDelivers ==
  ASSUME StopInv, DeliverToDashboard
  PROVE  StopInv'
<1> DEFINE message == Head(adapter.queue)
           a == [adapter EXCEPT !.queue = Tail(@)]
<1>1. /\ adapter.queue # <<>> /\ adapter' = a
      /\ UNCHANGED <<connected, connections, stops, generation, committed, requests, answers,
                     notFound, lastHeard, applied>>
  BY DEF DeliverToDashboard
<1>2. CASE /\ message.type = "probe" /\ lastProbe' = message.challenge
           /\ snapshots' = Append(snapshots,
                [challenge |-> message.challenge, journal |-> journal])
           /\ reconfirmed' = IF journal.operation \in notFound THEN reconfirmed \cup {journal}
                             ELSE reconfirmed
           /\ UNCHANGED <<journal, delivered>>
  BY <1>1, <1>2, StopProbed
<1>3. CASE /\ message.type # "probe" /\ delivered' = message /\ TakeResult(message)
           /\ IF journal' # journal THEN Announces ELSE UNCHANGED snapshots
           /\ UNCHANGED <<lastProbe, reconfirmed>>
  BY <1>1, <1>3, StopTold
<1>4. CASE UNCHANGED <<journal, lastProbe, snapshots, reconfirmed, delivered>>
  <2>1. /\ Good(a) /\ a.used = adapter.used /\ a.ready = adapter.ready
    BY <1>1, TailGood DEF StopInv
  <2> HIDE DEF a
  <2> QED
    BY <1>1, <1>4, <2>1, QuietStep DEF environmentVars, historyVars
<1> QED
  BY <1>2, <1>3, <1>4 DEF DeliverToDashboard

(***************************************************************************)
(* The theorems                                                            *)
(***************************************************************************)

LEMMA StopInit ==
  ASSUME Init
  PROVE  StopInv
<1>1. Idle \in Journals /\ [phase |-> "uncertain", operation |-> 1, revision |-> 1,
                            fence |-> 0] \in Journals
  <2>1. 1 \in Revisions /\ 1 \in Operations /\ 0 \in Generations
    BY DEF Revisions, Operations, Generations
  <2> QED
    BY <2>1 DEF Idle, Journals
<1>2. journal \in Journals /\ stops \in 0..MaxStops
  <2>1. 0 \in 0..MaxStops /\ 1 \in 0..MaxStops
    OBVIOUS
  <2> QED
    BY <1>1, <2>1 DEF Init
<1>3. /\ committed \subseteq [operation : Operations, fence : Generations]
      /\ generation \in Generations
  <2> DEFINE c == [operation |-> 1, fence |-> 0]
  <2>1. c \in [operation : Operations, fence : Generations]
    BY DEF Operations, Generations
  <2>2. committed = {} \/ committed = {c}
    BY DEF Init
  <2>3. generation = Cardinality(committed)
    BY DEF Init
  <2> HIDE DEF c
  <2>4. generation = 0 \/ generation = 1
    BY <2>2, <2>3, FS_EmptySet, FS_Singleton
  <2>5. generation \in Generations
    BY <2>4 DEF Generations
  <2> QED
    BY <2>1, <2>2, <2>5
<1>4. /\ snapshots = <<>> /\ snapshots \in Seq(Snapshots) /\ Len(snapshots) = 0
      /\ 1..Len(snapshots) = {}
  BY DEF Init
<1>5. lastProbe \in Challenges
  BY DEF Init, Challenges
<1>6. WorldTyped
  <2>1. connected = FALSE /\ connections = 0 /\ requests = {} /\ answers = {}
    BY DEF Init
  <2>2. connected \in BOOLEAN
    BY <2>1
  <2>3. connections \in 0..MaxConnections
    <3>1. 0 \in 0..MaxConnections
      OBVIOUS
    <3> QED
      BY <2>1, <3>1
  <2> QED
    BY <1>2, <1>3, <1>4, <1>5, <2>1, <2>2, <2>3 DEF WorldTyped
<1>7. /\ adapter \in Adapters /\ adapter.queue = <<>> /\ adapter.probes = 0
      /\ adapter.used = {} /\ adapter.ready = FALSE
      /\ adapter.probe = None /\ adapter.query = None /\ adapter.stop = None
  <2>1. <<>> \in Seq(Messages) /\ 0 \in Challenges
    BY DEF Challenges
  <2> QED
    BY <2>1 DEF Init, Adapters
<1>8. Len(adapter.queue) = 0 /\ 1..Len(adapter.queue) = {} /\ 0 <= QueueSize
  BY <1>7
<1>9. lastProbe = 0
  BY DEF Init
<1>10. Good(adapter)
  BY <1>4, <1>7, <1>8, <1>9
     DEF Good, Bounded, Truthful, Confirming, Reconfirmed, Numbered, Fresh
<1>11. Ordered /\ FoundNothing /\ ReadyIsIdle /\ ResultIsTrue
  BY <1>4, <1>7 DEF Init, Ordered, FoundNothing, ReadyIsIdle, ResultIsTrue
<1> QED
  BY <1>6, <1>10, <1>11 DEF StopInv

LEMMA StopNext ==
  ASSUME StopInv, [Next]_vars
  PROVE  StopInv'
<1>1. ASSUME NEW value \in BOOLEAN, RefreshBlocked(value)
      PROVE  StopInv'
  BY <1>1, StopRefresh
<1>2. CASE OnConnected \/ OnDisconnected
  BY <1>2, StopConnections
<1>3. CASE FailClosed \/ DeadlinePasses
  BY <1>3, StopFails
<1>4. CASE HandleSnapshot
  BY <1>4, StopSnapshot
<1>5. CASE HandleStatus
  BY <1>5, StopStatus
<1>6. CASE PublishStop
  BY <1>6, StopPublish
<1>7. CASE DeliverToDashboard
  BY <1>7, StopDelivers
<1>8. CASE Dashboard
  BY <1>8, StopDashboard
<1>9. CASE Server
  BY <1>9, StopServer
<1>10. CASE UNCHANGED vars
  <2>1. UNCHANGED <<connected, connections, adapter, environmentVars, snapshots, answers,
                    historyVars>>
    BY <1>10 DEF vars
  <2>2. Good(adapter) /\ adapter.used \subseteq adapter.used
    BY DEF StopInv
  <2> QED
    BY <2>1, <2>2, QuietStep
<1> QED
  BY <1>1, <1>2, <1>3, <1>4, <1>5, <1>6, <1>7, <1>8, <1>9, <1>10 DEF Next

\* What holds of the adapter, its queue and the snapshots under way, always
\* holds.
THEOREM StopInvHolds == Spec => []StopInv
  BY StopInit, StopNext, PTL DEF Spec

\* All state has its type, and the egress queue is never longer than
\* redisEgressQueueSize.
THEOREM TypeCorrect == Spec => []TypeOK
<1>1. ASSUME StopInv
      PROVE  TypeOK
  <2>1. WorldTyped /\ adapter \in Adapters /\ Len(adapter.queue) <= QueueSize
    BY <1>1 DEF StopInv, Good, Bounded
  <2>2. ActiveAttempts \subseteq Attempts /\ ActiveQueries \subseteq Queries
    BY DEF ActiveAttempts, ActiveQueries, Active, Attempts, Queries
  <2>3. /\ {adapter.settingsReady, adapter.blocked, adapter.ready, adapter.inhibited}
             \subseteq BOOLEAN
        /\ adapter.journal \in Journals \cup {None}
        /\ adapter.probe \in Probes \cup {None} /\ adapter.probes \in 0..MaxProbes
        /\ adapter.used \subseteq Snapshots
    BY <2>1 DEF Adapters, Challenges
  <2>4. /\ {adapter.attempt, adapter.stop} \subseteq Attempts \cup {None}
        /\ {adapter.query, adapter.permit} \subseteq Queries \cup {None}
        /\ adapter.queue \in Seq(Messages)
    BY <2>1, <2>2 DEF Adapters
  <2> QED
    BY <2>1, <2>3, <2>4 DEF TypeOK, WorldTyped
<1> QED
  BY <1>1, StopInvHolds, PTL

\* What the dashboard is told of an operation is what the server answered for
\* it on the same connection, however answers, snapshots and the entries of
\* the queue are mixed.
THEOREM ResultsAreTrue == Spec => []ResultIsTrue
<1>1. StopInv => ResultIsTrue
  BY DEF StopInv
<1> QED
  BY <1>1, StopInvHolds, PTL

\* Sharing is possible only while the last snapshot that was handled showed an
\* idle journal.
THEOREM GateIsFaithful == Spec => []GateFollowsJournal
<1>1. StopInv => GateFollowsJournal
  BY DEF StopInv, ReadyIsIdle, GateFollowsJournal, GateOpen
<1> QED
  BY <1>1, StopInvHolds, PTL

\* The second probe: an apply that is sent is for a journal that the dashboard
\* has shown unchanged after the server did not find the operation.
THEOREM AppliesAreConfirmed == Spec => ApplyIsConfirmed
<1>1. ASSUME StopInv, [Next]_vars
      PROVE  [applied' # applied => applied' \in reconfirmed]_vars
  <2> SUFFICES ASSUME applied' # applied
               PROVE  applied' \in reconfirmed
    OBVIOUS
  <2>1. PublishStop
    BY <1>1 DEF Next, vars, historyVars, OnConnected, OnDisconnected, RefreshBlocked,
       FailClosed, DeadlinePasses, HandleSnapshot, HandleStatus, DeliverToDashboard,
       Dashboard, Server
  <2>2. adapter.stop # None /\ adapter.stop.mode = "apply" /\ applied' = adapter.stop.journal
    BY <2>1 DEF PublishStop
  <2> QED
    BY <1>1, <2>2 DEF StopInv, Good, Reconfirmed
<1> QED
  BY <1>1, StopInvHolds, PTL DEF Spec, ApplyIsConfirmed
=============================================================================
