---------------------------- MODULE EventsProofs ----------------------------
(***************************************************************************)
(* Proofs about internal/events: Events, for any number of events, flushes, *)
(* retries, crashes and failed writes (its types, that the buffer keeps     *)
(* what it owes, that one process sends no event twice), Movement, for any  *)
(* places, states and times (its types, when a confirmation may start and   *)
(* what it may confirm), and Notifications, for any rules, callbacks and    *)
(* notifiers (its types, what a rule that fires has seen, its cooldown, how *)
(* often a notifier sends, which faults are reported).                      *)
(***************************************************************************)
EXTENDS Events, Notifications, Movement, SequenceTheorems, FiniteSetTheorems, TLAPS

USE EventsAssumption DEF EventsAssumption

(***************************************************************************)
(* Lists of buffered entries                                               *)
(***************************************************************************)

\* A list that begins with another has the same entries at its places.
LEMMA PrefixPlaces ==
  ASSUME NEW S, NEW s \in Seq(S), NEW t \in Seq(S)
  PROVE  IsPrefix(s, t) <=> /\ Len(s) <= Len(t)
                            /\ \A i \in 1..Len(s) : s[i] = t[i]
<1>1. ASSUME Len(s) <= Len(t)
      PROVE  /\ SubSeq(s, 1, Len(s)) = s
             /\ SubSeq(t, 1, Len(s)) \in Seq(S)
             /\ Len(SubSeq(t, 1, Len(s))) = Len(s)
             /\ \A i \in 1..Len(s) : SubSeq(t, 1, Len(s))[i] = t[i]
  BY <1>1
<1>2. CASE Len(s) <= Len(t)
  <2>1. s = SubSeq(t, 1, Len(s)) <=> \A i \in 1..Len(s) : s[i] = t[i]
    BY <1>1, <1>2
  <2> QED
    BY <2>1, <1>1, <1>2 DEF IsPrefix
<1>3. CASE ~(Len(s) <= Len(t))
  BY <1>3 DEF IsPrefix
<1> QED
  BY <1>2, <1>3

(***************************************************************************)
(* Types                                                                   *)
(***************************************************************************)

LEMMA TypeInit == Init => TypeOK
<1> SUFFICES ASSUME Init
             PROVE  TypeOK
  OBVIOUS
<1> USE DEF Init
<1>1. /\ events \in Seq(BufferedEvent)
      /\ snapshot \in Seq(BufferedEvent)
      /\ batch \in [Flushers -> Seq(BufferedEvent)]
      /\ failed \in [Flushers -> Seq(BufferedEvent)]
  OBVIOUS
<1>2. acked \in [Occurrences -> Nat] /\ failures \in [Occurrences -> 0..MaxRetries]
  OBVIOUS
<1>3. position \in [Flushers -> Nat \ {0}]
  OBVIOUS
<1>4. crashes \in 0..MaxCrashes /\ saveFailures \in 0..MaxSaveFailures
  OBVIOUS
<1>5. /\ handler \in [Occurrences -> {"undetected", "publish", "add", "done"}]
      /\ flusher \in [Flushers -> {"idle", "spawned", "flush", "copy", "send", "next"}]
  OBVIOUS
<1> QED
  BY <1>1, <1>2, <1>3, <1>4, <1>5 DEF TypeOK

LEMMA PersistType ==
  ASSUME TypeOK, NEW list \in Seq(BufferedEvent), Persist(list)
  PROVE  /\ snapshot' \in Seq(BufferedEvent)
         /\ unsaved' \in BOOLEAN
         /\ saveFailures' \in 0..MaxSaveFailures
<1>1. snapshot \in Seq(BufferedEvent) /\ saveFailures \in 0..MaxSaveFailures
  BY DEF TypeOK
<1>2. CASE snapshot' = list /\ unsaved' = FALSE /\ UNCHANGED saveFailures
  BY <1>1, <1>2
<1>3. CASE /\ saveFailures < MaxSaveFailures
           /\ saveFailures' = saveFailures + 1
           /\ snapshot' \in {snapshot, list}
           /\ unsaved' = TRUE
  <2>1. saveFailures' \in 0..MaxSaveFailures
    BY <1>1, <1>3
  <2>2. snapshot' \in Seq(BufferedEvent)
    BY <1>1, <1>3
  <2> QED
    BY <1>3, <2>1, <2>2
<1> QED
  BY <1>2, <1>3 DEF Persist

\* The entry that is sent next is one.
LEMMA CurrentType ==
  ASSUME TypeOK, NEW f \in Flushers, MoreToSend(f)
  PROVE  /\ position[f] \in 1..Len(batch[f])
         /\ Current(f) \in BufferedEvent
         /\ Current(f).event \in Occurrences
         /\ Current(f).retries \in 0..MaxRetries
<1>1. batch[f] \in Seq(BufferedEvent) /\ position[f] \in Nat \ {0}
  BY DEF TypeOK
<1>2. position[f] \in 1..Len(batch[f])
  BY <1>1 DEF MoreToSend
<1>3. Current(f) \in BufferedEvent
  BY <1>1, <1>2, ElementOfSeq DEF Current
<1> QED
  BY <1>2, <1>3 DEF BufferedEvent

\* A copy is never longer than the list it was taken from.
LEMMA BatchFits ==
  ASSUME TypeOK, SnapshotIsPrefix, NEW f \in Flushers, flusher[f] = "send"
  PROVE  /\ Len(batch[f]) \in 0..Len(events)
         /\ \A i \in 1..Len(batch[f]) : events[i] = batch[f][i]
<1>1. batch[f] \in Seq(BufferedEvent) /\ events \in Seq(BufferedEvent)
  BY DEF TypeOK
<1>2. IsPrefix(batch[f], events)
  BY DEF SnapshotIsPrefix
<1> QED
  BY <1>1, <1>2, PrefixPlaces

LEMMA RemainingType ==
  ASSUME TypeOK, NEW f \in Flushers
  PROVE  Remaining(f) \in Seq(BufferedEvent)
<1> DEFINE m == Len(batch[f]) + 1
<1>1. /\ events \in Seq(BufferedEvent)
      /\ failed[f] \in Seq(BufferedEvent)
      /\ m \in Nat \ {0}
  BY DEF TypeOK
<1>2. \A i \in m..Len(events) : events[i] \in BufferedEvent
  BY <1>1, ElementOfSeq
<1>3. SubSeq(events, m, Len(events)) \in Seq(BufferedEvent)
  <2> HIDE DEF m
  <2> QED
    BY <1>1, <1>2, SubSeqProperties
<1> QED
  BY <1>1, <1>3, ConcatProperties DEF Remaining

LEMMA TypeStep == TypeOK /\ [Next]_vars => TypeOK'
<1> SUFFICES ASSUME TypeOK, [Next]_vars
             PROVE  TypeOK'
  OBVIOUS
<1> USE DEF bufferVars, flushVars, faultVars, historyVars
<1>1. ASSUME NEW e \in Occurrences, Detect(e)
      PROVE  TypeOK'
  BY <1>1 DEF TypeOK, Detect
<1>2. ASSUME NEW e \in Occurrences, PublishAcked(e)
      PROVE  TypeOK'
  BY <1>2 DEF TypeOK, PublishAcked
<1>3. ASSUME NEW e \in Occurrences, PublishFails(e)
      PROVE  TypeOK'
  BY <1>3 DEF TypeOK, PublishFails
<1>4. ASSUME NEW e \in Occurrences, AddEvent(e)
      PROVE  TypeOK'
  <2>1. [event |-> e, retries |-> 0] \in BufferedEvent
    BY DEF BufferedEvent
  <2>2. events' \in Seq(BufferedEvent)
    BY <1>4, <2>1 DEF TypeOK, AddEvent, Add
  <2>3. /\ snapshot' \in Seq(BufferedEvent)
        /\ unsaved' \in BOOLEAN
        /\ saveFailures' \in 0..MaxSaveFailures
    BY <1>4, <2>2, PersistType DEF AddEvent
  <2> QED
    BY <1>4, <2>2, <2>3 DEF TypeOK, AddEvent
<1>5. ASSUME NEW f \in Flushers, CheckConnected(f)
      PROVE  TypeOK'
  BY <1>5 DEF TypeOK, CheckConnected
<1>6. ASSUME NEW f \in Flushers, EnterFlush(f)
      PROVE  TypeOK'
  BY <1>6 DEF TypeOK, EnterFlush, Coalesces
<1>7. ASSUME NEW f \in Flushers, CopyBatch(f)
      PROVE  TypeOK'
  BY <1>7 DEF TypeOK, CopyBatch
<1>8. ASSUME NEW f \in Flushers, Discard(f)
      PROVE  TypeOK'
  BY <1>8 DEF TypeOK, Discard
<1>9. ASSUME NEW f \in Flushers, SendAcked(f)
      PROVE  TypeOK'
  <2>1. acked' \in [Occurrences -> Nat]
    <3>1. Current(f).event \in Occurrences /\ acked \in [Occurrences -> Nat]
      BY <1>9, CurrentType DEF TypeOK, SendAcked
    <3>2. acked' = [acked EXCEPT ![Current(f).event] = @ + 1]
      BY <1>9 DEF SendAcked
    <3> QED
      BY <3>1, <3>2
  <2>2. position' \in [Flushers -> Nat \ {0}]
    BY <1>9 DEF TypeOK, SendAcked
  <2> QED
    BY <1>9, <2>1, <2>2 DEF TypeOK, SendAcked
<1>10. ASSUME NEW f \in Flushers, SendFails(f)
       PROVE  TypeOK'
  <2>1. [Current(f) EXCEPT !.retries = @ + 1] \in BufferedEvent
    BY <1>10, CurrentType DEF BufferedEvent, SendFails, Exhausted
  <2>2. failed' \in [Flushers -> Seq(BufferedEvent)]
    <3>1. failed \in [Flushers -> Seq(BufferedEvent)]
      BY DEF TypeOK
    <3> DEFINE entry == [Current(f) EXCEPT !.retries = @ + 1]
    <3>2. failed' = [failed EXCEPT ![f] = Append(failed[f], entry)]
      BY <1>10 DEF SendFails
    <3>3. entry \in BufferedEvent
      BY <2>1
    <3> HIDE DEF entry
    <3>4. Append(failed[f], entry) \in Seq(BufferedEvent)
      BY <3>1, <3>3
    <3> QED
      BY <3>1, <3>2, <3>4
  <2>3. failures' \in [Occurrences -> 0..MaxRetries]
    <3> DEFINE e == Current(f).event
    <3>1. e \in Occurrences /\ failures \in [Occurrences -> 0..MaxRetries]
      BY <1>10, CurrentType DEF TypeOK, SendFails
    <3>2. failures' = [failures EXCEPT ![e] = IF @ < MaxRetries THEN @ + 1 ELSE @]
      BY <1>10 DEF SendFails
    <3> HIDE DEF e
    <3>3. failures[e] < MaxRetries => failures[e] + 1 \in 0..MaxRetries
      BY <3>1
    <3> QED
      BY <3>1, <3>2, <3>3
  <2>4. position' \in [Flushers -> Nat \ {0}]
    BY <1>10 DEF TypeOK, SendFails
  <2> QED
    BY <1>10, <2>2, <2>3, <2>4 DEF TypeOK, SendFails
<1>11. ASSUME NEW f \in Flushers, FinishBatch(f)
       PROVE  TypeOK'
  <2>1. events' \in Seq(BufferedEvent)
    BY <1>11, RemainingType DEF FinishBatch
  <2>2. /\ snapshot' \in Seq(BufferedEvent)
        /\ unsaved' \in BOOLEAN
        /\ saveFailures' \in 0..MaxSaveFailures
    BY <1>11, <2>1, PersistType DEF FinishBatch
  <2> QED
    BY <1>11, <2>1, <2>2 DEF TypeOK, FinishBatch
<1>12. ASSUME NEW f \in Flushers, NextBatch(f)
       PROVE  TypeOK'
  BY <1>12 DEF TypeOK, NextBatch, Answered
<1>13. CASE ConnectionChanges
  BY <1>13 DEF TypeOK, ConnectionChanges
<1>14. CASE CrashAndRestart
  <2> USE DEF CrashAndRestart
  <2>1. PICK f \in Flushers : StartUpFlush(f)
    BY <1>14
  <2>2. /\ flusher' \in [Flushers -> {"idle", "spawned", "flush", "copy", "send", "next"}]
        /\ position' \in [Flushers -> Nat \ {0}]
    BY <2>1 DEF StartUpFlush
  <2>3. /\ batch' \in [Flushers -> Seq(BufferedEvent)]
        /\ failed' \in [Flushers -> Seq(BufferedEvent)]
    BY <2>1 DEF StartUpFlush
  <2>4. handler' \in [Occurrences -> {"undetected", "publish", "add", "done"}]
    BY <1>14 DEF TypeOK
  <2>5. lost' \in SUBSET Occurrences
    BY <1>14 DEF TypeOK
  <2>6. crashes' \in 0..MaxCrashes
    BY <1>14 DEF TypeOK
  <2> QED
    BY <1>14, <2>2, <2>3, <2>4, <2>5, <2>6 DEF TypeOK
<1>15. CASE UNCHANGED vars
  BY <1>15 DEF TypeOK, vars
<1> QED
  BY <1>1, <1>2, <1>3, <1>4, <1>5, <1>6, <1>7, <1>8, <1>9, <1>10, <1>11, <1>12,
     <1>13, <1>14, <1>15 DEF Next, HandlerStep, FlushStep

\* Every variable keeps its type, whatever crashes and fails.
THEOREM TypeCorrect == Spec => []TypeOK
<1>1. TypeOK /\ [Next]_vars => TypeOK'
  BY TypeStep
<1> QED
  BY <1>1, TypeInit, PTL DEF Spec

(***************************************************************************)
(* The buffer keeps what it owes                                           *)
(***************************************************************************)

\* What an appended list holds, and how it is counted.
LEMMA AppendedEntry ==
  ASSUME NEW list \in Seq(BufferedEvent), NEW entry \in BufferedEvent
  PROVE  /\ \A e : Holds(Append(list, entry), e) <=> Holds(list, e) \/ e = entry.event
         /\ Counted(list) /\ entry.retries <= failures[entry.event]
              => Counted(Append(list, entry))
<1> DEFINE longer == Append(list, entry)
<1>1. /\ DOMAIN list = 1..Len(list)
      /\ Len(list) \in Nat
  BY LenProperties
<1>2. /\ longer \in Seq(BufferedEvent)
      /\ Len(longer) = Len(list) + 1
      /\ \A i \in 1..Len(list) : longer[i] = list[i]
      /\ longer[Len(list) + 1] = entry
  BY AppendProperties
<1>3. DOMAIN longer = 1..Len(list) + 1
  BY <1>2, LenProperties
<1> HIDE DEF longer
<1>4. \A e : Holds(list, e) => Holds(longer, e)
  BY <1>1, <1>2, <1>3 DEF Holds
<1>5. Holds(longer, entry.event)
  BY <1>1, <1>2, <1>3 DEF Holds
<1>7. ASSUME NEW e, Holds(longer, e)
      PROVE  Holds(list, e) \/ e = entry.event
  <2>1. PICK i \in 1..Len(list) + 1 : longer[i].event = e
    BY <1>3, <1>7 DEF Holds
  <2>2. i \in 1..Len(list) \/ i = Len(list) + 1
    BY <1>1
  <2> QED
    BY <2>1, <2>2, <1>1, <1>2 DEF Holds
<1>6. ASSUME Counted(list), entry.retries <= failures[entry.event]
      PROVE  Counted(longer)
  <2> SUFFICES ASSUME NEW i \in 1..Len(list) + 1
               PROVE  longer[i].retries <= failures[longer[i].event]
    BY <1>3 DEF Counted
  <2>1. CASE i \in 1..Len(list)
    BY <2>1, <1>1, <1>2, <1>6 DEF Counted
  <2>2. CASE i = Len(list) + 1
    BY <2>2, <1>2, <1>6
  <2> QED
    BY <2>1, <2>2, <1>1
<1> QED
  BY <1>4, <1>5, <1>6, <1>7 DEF longer

\* A step that leaves the list, the file and what running flushes hold alone.
LEMMA Untouched ==
  ASSUME KeptInv,
         UNCHANGED <<events, snapshot, unsaved, batch, position, failed, failures>>,
         flushing => flushing',
         \A e \in Occurrences : Owed(e)' => Owed(e),
         \A e \in Occurrences : handler[e] = "done" => handler'[e] = "done",
         \A f \in Flushers : (Running(f)' => Running(f)) /\ (flusher'[f] = "send" => flusher[f] = "send")
  PROVE  KeptInv'
<1>1. Kept'
  BY DEF KeptInv, Kept, Holds
<1>2. SnapshotIsPrefix'
  BY DEF KeptInv, SnapshotIsPrefix
<1>3. OneFlush'
  BY DEF KeptInv, OneFlush
<1>4. RetriesCounted'
  BY DEF KeptInv, RetriesCounted, Counted
<1>5. BatchAccounted'
  BY DEF KeptInv, BatchAccounted, Holds, Ahead
<1>6. Entered'
  BY DEF KeptInv, Entered, Holds
<1> QED
  BY <1>1, <1>2, <1>3, <1>4, <1>5, <1>6 DEF KeptInv

LEMMA KeptInit == Init => KeptInv
BY DEF Init, KeptInv, Kept, Owed, SnapshotIsPrefix, OneFlush, Running, RetriesCounted,
       Counted, BatchAccounted, Entered, Holds

LEMMA EnterFlushKept ==
  ASSUME TypeOK, KeptInv, NEW f \in Flushers, EnterFlush(f)
  PROVE  KeptInv'
<1> USE DEF EnterFlush, faultVars, historyVars
<1>1. \A e \in Occurrences : Owed(e)' => Owed(e)
  BY DEF Owed
<1>2. CASE flushing
  <2>1. \A g \in Flushers : (Running(g)' => Running(g)) /\ (flusher'[g] = "send" => flusher[g] = "send")
    BY <1>2 DEF TypeOK, Running, Coalesces
  <2> QED
    BY <1>1, <2>1, Untouched
<1>3. CASE ~flushing
  <2>1. \A g \in Flushers : ~Running(g)
    BY <1>3 DEF KeptInv, OneFlush
  <2>2. \A g \in Flushers : flusher'[g] = IF g = f THEN "copy" ELSE flusher[g]
    BY <1>3 DEF TypeOK, Coalesces
  <2>3. \A g \in Flushers : (Running(g)' => g = f) /\ flusher'[g] # "send"
    BY <2>1, <2>2 DEF Running
  <2>4. Kept'
    BY <1>1 DEF KeptInv, Kept, Holds
  <2>5. SnapshotIsPrefix' /\ OneFlush' /\ BatchAccounted'
    BY <2>3 DEF SnapshotIsPrefix, OneFlush, BatchAccounted
  <2>6. RetriesCounted' /\ Entered'
    BY <2>3 DEF KeptInv, RetriesCounted, Counted, Entered, Holds
  <2> QED
    BY <2>4, <2>5, <2>6 DEF KeptInv
<1> QED
  BY <1>2, <1>3

LEMMA CopyBatchKept ==
  ASSUME TypeOK, KeptInv, NEW f \in Flushers, CopyBatch(f)
  PROVE  KeptInv'
<1> USE DEF CopyBatch, bufferVars, faultVars, historyVars
<1>1. \A e \in Occurrences : Owed(e)' <=> Owed(e)
  BY DEF Owed
<1>2. \A g \in Flushers : (Running(g) => g = f) /\ (Running(g)' => g = f)
  BY DEF TypeOK, KeptInv, OneFlush, Running
<1>3. \A g \in Flushers : flusher'[g] = "send" => g = f
  BY <1>2 DEF Running
<1>4. /\ batch'[f] = events
      /\ position'[f] = 1
      /\ failed'[f] = <<>>
  BY DEF TypeOK
<1>5. events \in Seq(BufferedEvent) /\ Len(events) \in Nat /\ DOMAIN events = 1..Len(events)
  BY LenProperties DEF TypeOK
<1>6. Kept'
  BY <1>1 DEF KeptInv, Kept, Holds
<1>7. SnapshotIsPrefix'
  <2>1. IsPrefix(events, events)
    BY <1>5, PrefixPlaces
  <2> QED
    BY <1>3, <1>4, <2>1 DEF SnapshotIsPrefix
<1>8. OneFlush'
  <2>1. flushing
    BY DEF KeptInv, OneFlush, Running
  <2> QED
    BY <1>2, <2>1 DEF OneFlush
<1>9. RetriesCounted'
  BY <1>3, <1>4 DEF KeptInv, RetriesCounted, Counted
<1>10. BatchAccounted'
  <2>1. \A e \in Occurrences : Holds(events, e) => \E i \in 1..Len(events) : events[i].event = e
    BY <1>5 DEF Holds
  <2> QED
    BY <1>3, <1>4, <1>5, <2>1 DEF BatchAccounted, Ahead, Holds
<1>11. Entered'
  <2>1. \A e : ~Holds(failed'[f], e)
    BY <1>4 DEF Holds
  <2> QED
    BY <1>3, <2>1 DEF KeptInv, Entered, Holds
<1> QED
  BY <1>6, <1>7, <1>8, <1>9, <1>10, <1>11 DEF KeptInv

\* The entry whose turn it is is still in the buffer, at the same place.
LEMMA CurrentPlace ==
  ASSUME TypeOK, SnapshotIsPrefix, NEW f \in Flushers, MoreToSend(f)
  PROVE  position[f] \in DOMAIN events /\ events[position[f]] = Current(f)
<1>1. flusher[f] = "send"
  BY DEF MoreToSend
<1>2. position[f] \in 1..Len(batch[f])
  BY CurrentType
<1>3. /\ Len(batch[f]) \in 0..Len(events)
      /\ events[position[f]] = Current(f)
  BY <1>1, <1>2, BatchFits DEF Current
<1>4. DOMAIN events = 1..Len(events) /\ Len(events) \in Nat
  BY LenProperties DEF TypeOK
<1> QED
  BY <1>2, <1>3, <1>4

\* What an entry is counted by when its turn comes.
LEMMA CurrentCounted ==
  ASSUME TypeOK, KeptInv, NEW f \in Flushers, MoreToSend(f)
  PROVE  /\ Current(f).retries <= failures[Current(f).event]
         /\ failures[Current(f).event] \in 0..MaxRetries
<1>1. position[f] \in DOMAIN events /\ events[position[f]] = Current(f)
  BY CurrentPlace DEF KeptInv
<1>2. Current(f).event \in Occurrences
  BY CurrentType
<1> QED
  BY <1>1, <1>2 DEF TypeOK, KeptInv, RetriesCounted, Counted

\* What is ahead of the next position, or is the current entry.
LEMMA AheadStep ==
  ASSUME TypeOK, NEW f \in Flushers, MoreToSend(f), NEW e,
         batch'[f] = batch[f], position'[f] = position[f] + 1,
         Ahead(f, e)
  PROVE  Ahead(f, e)' \/ Current(f).event = e
<1>1. position[f] \in 1..Len(batch[f]) /\ Len(batch[f]) \in Nat
  BY CurrentType, LenProperties DEF TypeOK
<1>2. PICK i \in position[f]..Len(batch[f]) : batch[f][i].event = e
  BY DEF Ahead
<1>3. i = position[f] \/ i \in position[f] + 1..Len(batch[f])
  BY <1>1
<1> QED
  BY <1>1, <1>2, <1>3 DEF Ahead, Current

\* A step of the flush to the next position: everything but the account of
\* its copy is as before.
LEMMA PositionStep ==
  ASSUME TypeOK, KeptInv, NEW f \in Flushers, MoreToSend(f),
         UNCHANGED <<handler, events, flushing, snapshot, unsaved, flusher, batch, lost>>,
         position' = [position EXCEPT ![f] = @ + 1],
         \A e \in Occurrences : Owed(e)' => Owed(e),
         RetriesCounted',
         \A e \in Occurrences : Owed(e)' /\ Current(f).event = e => Holds(failed'[f], e),
         \A e \in Occurrences : Holds(failed[f], e) => Holds(failed'[f], e),
         \A e \in Occurrences : Holds(failed'[f], e) => Holds(failed[f], e) \/ e = Current(f).event
  PROVE  KeptInv'
<1>1. Kept'
  BY DEF KeptInv, Kept, Holds
<1>2. SnapshotIsPrefix'
  BY DEF KeptInv, SnapshotIsPrefix
<1>3. OneFlush'
  BY DEF KeptInv, OneFlush, Running
<1>4. \A g \in Flushers : flusher[g] = "send" => g = f
  BY DEF KeptInv, OneFlush, Running, MoreToSend
<1>5. /\ position'[f] = position[f] + 1
      /\ batch'[f] = batch[f]
  BY DEF TypeOK
<1>6. BatchAccounted'
  <2>1. position'[f] \in 1..Len(batch[f]) + 1
    BY <1>5, CurrentType, LenProperties DEF TypeOK
  <2>2. ASSUME NEW e \in Occurrences, Owed(e)', Holds(batch[f], e)
        PROVE  Ahead(f, e)' \/ Holds(failed'[f], e)
    <3>1. Ahead(f, e) \/ Holds(failed[f], e)
      BY <2>2 DEF KeptInv, BatchAccounted, MoreToSend
    <3> QED
      BY <2>2, <3>1, <1>5, AheadStep
  <2> QED
    BY <2>1, <2>2, <1>4, <1>5 DEF BatchAccounted, Holds
<1>7. Entered'
  <2>1. Holds(events, Current(f).event)
    BY CurrentPlace DEF KeptInv, Holds
  <2>2. \A e \in Occurrences : Holds(failed'[f], e) => handler[e] = "done"
    BY <2>1 DEF KeptInv, Entered, MoreToSend
  <2> QED
    BY <2>2, <1>4 DEF KeptInv, Entered, Holds
<1> QED
  BY <1>1, <1>2, <1>3, <1>6, <1>7 DEF KeptInv

LEMMA DiscardKept ==
  ASSUME TypeOK, KeptInv, NEW f \in Flushers, Discard(f)
  PROVE  KeptInv'
<1> USE DEF Discard, bufferVars, faultVars, historyVars
<1>1. \A e \in Occurrences : Owed(e)' <=> Owed(e)
  BY DEF Owed
<1>2. ~Owed(Current(f).event)
  BY CurrentCounted, CurrentType DEF Owed, Exhausted
<1>3. RetriesCounted'
  BY DEF KeptInv, RetriesCounted, Counted
<1> QED
  BY <1>1, <1>2, <1>3, PositionStep

LEMMA SendAckedKept ==
  ASSUME TypeOK, KeptInv, NEW f \in Flushers, SendAcked(f)
  PROVE  KeptInv'
<1> USE DEF SendAcked, bufferVars, faultVars, historyVars
<1>1. Current(f).event \in Occurrences
  BY CurrentType
<1>2. \A e \in Occurrences : acked'[e] = IF e = Current(f).event THEN acked[e] + 1 ELSE acked[e]
  BY <1>1 DEF TypeOK
<1>3. \A e \in Occurrences : Owed(e)' => Owed(e) /\ e # Current(f).event
  BY <1>2 DEF Owed, TypeOK
<1>4. RetriesCounted'
  BY DEF KeptInv, RetriesCounted, Counted
<1> QED
  BY <1>3, <1>4, PositionStep

LEMMA SendFailsKept ==
  ASSUME TypeOK, KeptInv, NEW f \in Flushers, SendFails(f)
  PROVE  KeptInv'
<1> DEFINE entry == [Current(f) EXCEPT !.retries = @ + 1]
<1> USE DEF SendFails, bufferVars, faultVars
<1>1. /\ Current(f) \in BufferedEvent
      /\ Current(f).event \in Occurrences
      /\ Current(f).retries \in 0..MaxRetries
      /\ Current(f).retries < MaxRetries
  BY CurrentType DEF Exhausted
<1>2. /\ entry \in BufferedEvent
      /\ entry.event = Current(f).event
      /\ entry.retries = Current(f).retries + 1
  BY <1>1 DEF BufferedEvent
<1>3. failed'[f] = Append(failed[f], entry) /\ failed[f] \in Seq(BufferedEvent)
  BY DEF TypeOK
<1>4. /\ \A e \in Occurrences : /\ failures[e] \in 0..MaxRetries
                                  /\ failures'[e] \in 0..MaxRetries
                                  /\ failures[e] <= failures'[e]
      /\ entry.retries <= failures'[entry.event]
  <2>1. \A e \in Occurrences : failures[e] \in 0..MaxRetries
    BY DEF TypeOK
  <2>2. \A e \in Occurrences :
          failures'[e] = IF e = Current(f).event /\ failures[e] < MaxRetries
                         THEN failures[e] + 1 ELSE failures[e]
    BY <1>1 DEF TypeOK
  <2>3. Current(f).retries <= failures[Current(f).event]
    BY CurrentCounted
  <2> HIDE DEF SendFails, entry
  <2>4. \A e \in Occurrences : failures'[e] \in 0..MaxRetries /\ failures[e] <= failures'[e]
    BY <2>1, <2>2
  <2>5. entry.retries <= failures'[entry.event]
    BY <1>1, <1>2, <2>1, <2>2, <2>3
  <2> QED
    BY <2>1, <2>4, <2>5
<1> HIDE DEF entry
<1>5. \A e \in Occurrences : Owed(e)' => Owed(e)
  BY <1>4 DEF Owed, TypeOK
<1>6. ASSUME NEW list \in Seq(BufferedEvent), Counted(list)
      PROVE  \A i \in DOMAIN list : list[i].retries <= failures'[list[i].event]
  <2> TAKE i \in DOMAIN list
  <2>1. list[i] \in BufferedEvent
    BY LenProperties, ElementOfSeq
  <2>2. list[i].event \in Occurrences /\ list[i].retries \in 0..MaxRetries
    BY <2>1 DEF BufferedEvent
  <2>3. list[i].retries <= failures[list[i].event]
    BY <1>6 DEF Counted
  <2> HIDE DEF SendFails
  <2> QED
    BY <1>4, <2>2, <2>3
<1>7. \A g \in Flushers : flusher[g] = "send" => g = f
  BY DEF KeptInv, OneFlush, Running, MoreToSend
<1>8. RetriesCounted'
  <2>1. flusher[f] = "send"
    BY DEF MoreToSend
  <2>2. Counted(failed[f]) /\ Counted(events) /\ Counted(snapshot)
    BY <2>1 DEF KeptInv, RetriesCounted
  <2>3. \A i \in DOMAIN failed'[f] : failed'[f][i].retries <= failures'[failed'[f][i].event]
    <3>1. /\ DOMAIN failed[f] = 1..Len(failed[f])
          /\ DOMAIN failed'[f] = 1..Len(failed[f]) + 1
          /\ Len(failed[f]) \in Nat
          /\ \A i \in 1..Len(failed[f]) : failed'[f][i] = failed[f][i]
          /\ failed'[f][Len(failed[f]) + 1] = entry
      BY <1>2, <1>3, AppendProperties, LenProperties
    <3>2. \A i \in 1..Len(failed[f]) : failed[f][i].retries <= failures'[failed[f][i].event]
      BY <1>3, <1>6, <2>2, <3>1
    <3> HIDE DEF SendFails
    <3> TAKE i \in DOMAIN failed'[f]
    <3>3. i \in 1..Len(failed[f]) \/ i = Len(failed[f]) + 1
      BY <3>1
    <3> QED
      BY <1>4, <3>1, <3>2, <3>3
  <2>4. Counted(events)' /\ Counted(snapshot)'
    <3>1. events \in Seq(BufferedEvent) /\ snapshot \in Seq(BufferedEvent)
      BY DEF TypeOK
    <3> QED
      BY <3>1, <2>2, <1>6 DEF Counted
  <2> QED
    BY <2>3, <2>4, <1>7 DEF RetriesCounted, Counted
<1>9. \A e \in Occurrences :
        Holds(failed'[f], e) <=> Holds(failed[f], e) \/ e = Current(f).event
  <2>1. \A e : Holds(Append(failed[f], entry), e) <=> Holds(failed[f], e) \/ e = entry.event
    BY <1>2, <1>3, AppendedEntry
  <2> HIDE DEF SendFails
  <2> QED
    BY <1>2, <1>3, <2>1
<1> QED
  BY <1>5, <1>8, <1>9, PositionStep

\* After a write of the list, the file holds it unless the write failed.
LEMMA PersistKept ==
  ASSUME TypeOK, NEW list, Persist(list)
  PROVE  /\ unsaved' \/ snapshot' = list
         /\ snapshot' \in {snapshot, list}
BY DEF Persist, TypeOK

LEMMA AddEventKept ==
  ASSUME TypeOK, KeptInv, NEW e \in Occurrences, AddEvent(e)
  PROVE  KeptInv'
<1> DEFINE entry == [event |-> e, retries |-> 0]
<1> USE DEF AddEvent, flushVars, historyVars
<1>1. /\ entry \in BufferedEvent
      /\ entry.event = e
      /\ entry.retries = 0
      /\ events' = Append(events, entry)
  BY DEF BufferedEvent, Add
<1>2. events \in Seq(BufferedEvent) /\ failures \in [Occurrences -> 0..MaxRetries]
  BY DEF TypeOK
<1>3. /\ unsaved' \/ snapshot' = events'
      /\ snapshot' \in {snapshot, events'}
  BY PersistKept
<1> HIDE DEF entry
<1>4. \A x \in Occurrences : Owed(x)' => x = e \/ Owed(x)
  BY DEF TypeOK, Owed
<1>5. \A x \in Occurrences : Holds(events', x) <=> x = e \/ Holds(events, x)
  BY <1>1, <1>2, AppendedEntry
<1>6. Kept'
  <2>1. \A x \in Occurrences : Owed(x)' => Holds(events', x)
    BY <1>4, <1>5 DEF KeptInv, Kept
  <2> QED
    BY <2>1, <1>3 DEF Kept, Holds
<1>7. SnapshotIsPrefix'
  <2> SUFFICES ASSUME NEW f \in Flushers, flusher[f] = "send"
               PROVE  IsPrefix(batch[f], events')
    BY DEF SnapshotIsPrefix
  <2>1. batch[f] \in Seq(BufferedEvent) /\ Len(batch[f]) \in Nat /\ Len(events) \in Nat
    BY <1>2, LenProperties DEF TypeOK
  <2>2. /\ Len(batch[f]) \in 0..Len(events)
        /\ \A i \in 1..Len(batch[f]) : events[i] = batch[f][i]
    BY BatchFits DEF KeptInv
  <2>3. /\ events' \in Seq(BufferedEvent)
        /\ Len(events') = Len(events) + 1
        /\ \A i \in 1..Len(events) : events'[i] = events[i]
    BY <1>1, <1>2, AppendProperties
  <2>4. \A i \in 1..Len(batch[f]) : batch[f][i] = events'[i]
    BY <2>1, <2>2, <2>3
  <2> QED
    BY <2>1, <2>2, <2>3, <2>4, PrefixPlaces
<1>8. OneFlush'
  BY DEF KeptInv, OneFlush, Running
<1>9. RetriesCounted'
  <2>1. 0 <= failures[e]
    BY <1>2
  <2>2. \A i \in DOMAIN events' : events'[i].retries <= failures[events'[i].event]
    <3>1. Counted(Append(events, entry))
      BY <1>1, <1>2, <2>1, AppendedEntry DEF KeptInv, RetriesCounted
    <3> QED
      BY <1>1, <3>1 DEF Counted
  <2>3. \A i \in DOMAIN snapshot' : snapshot'[i].retries <= failures[snapshot'[i].event]
    BY <1>3, <2>2 DEF KeptInv, RetriesCounted, Counted
  <2> QED
    BY <2>2, <2>3 DEF KeptInv, RetriesCounted, Counted
<1>10. BatchAccounted'
  <2> SUFFICES ASSUME NEW f \in Flushers, flusher[f] = "send", NEW x \in Occurrences,
                      Owed(x)', Holds(batch[f], x)
               PROVE  Ahead(f, x) \/ Holds(failed[f], x)
    BY DEF KeptInv, BatchAccounted, Ahead, Holds
  <2>1. Owed(x) \/ x = e
    BY <1>4
  <2>2. CASE Owed(x)
    BY <2>2 DEF KeptInv, BatchAccounted
  <2>3. CASE x = e
    <3>1. Holds(events, x)
      <4>1. /\ Len(batch[f]) \in 0..Len(events)
            /\ \A i \in 1..Len(batch[f]) : events[i] = batch[f][i]
        BY BatchFits DEF KeptInv
      <4>2. /\ DOMAIN batch[f] = 1..Len(batch[f]) /\ Len(batch[f]) \in Nat
            /\ DOMAIN events = 1..Len(events) /\ Len(events) \in Nat
        BY LenProperties DEF TypeOK
      <4> QED
        BY <4>1, <4>2 DEF Holds
    <3> QED
      BY <2>3, <3>1 DEF KeptInv, Entered
  <2> QED
    BY <2>1, <2>2, <2>3
<1>11. Entered'
  <2>1. handler' = [handler EXCEPT ![e] = "done"]
    OBVIOUS
  <2>2. \A x \in Occurrences : handler[x] = "done" => handler'[x] = "done"
    BY <2>1 DEF TypeOK
  <2>3. handler'[e] = "done"
    BY <2>1 DEF TypeOK
  <2>4. \A x \in Occurrences : Holds(snapshot', x) => Holds(snapshot, x) \/ Holds(events', x)
    BY <1>3
  <2> QED
    BY <1>5, <2>2, <2>3, <2>4 DEF KeptInv, Entered, Holds
<1> QED
  BY <1>6, <1>7, <1>8, <1>9, <1>10, <1>11 DEF KeptInv

\* The entries of the list that flushBatch leaves: what failed, then what was
\* added behind the copy.
LEMMA RemainingEntries ==
  ASSUME TypeOK, SnapshotIsPrefix, NEW f \in Flushers, flusher[f] = "send"
  PROVE  LET n == Len(batch[f])
             s == failed[f]
             r == Remaining(f)
         IN /\ n \in 0..Len(events)
            /\ r \in Seq(BufferedEvent)
            /\ Len(r) = Len(s) + Len(events) - n
            /\ \A i \in 1..Len(s) : r[i] = s[i]
            /\ \A i \in n+1..Len(events) : r[Len(s) + i - n] = events[i]
            /\ \A i \in Len(s)+1..Len(r) : r[i] = events[i - Len(s) + n]
<1> DEFINE n == Len(batch[f])
           s == failed[f]
           r == Remaining(f)
<1>1. /\ s \in Seq(BufferedEvent)
      /\ events \in Seq(BufferedEvent)
      /\ batch[f] \in Seq(BufferedEvent)
  BY DEF TypeOK
<1>2. /\ n \in 0..Len(events)
      /\ \A i \in 1..n : events[i] = batch[f][i]
  BY BatchFits
<1>3. /\ Len(s) \in Nat /\ DOMAIN s = 1..Len(s)
      /\ Len(events) \in Nat /\ DOMAIN events = 1..Len(events)
      /\ DOMAIN batch[f] = 1..n
  BY <1>1, LenProperties
<1>4. /\ r \in Seq(BufferedEvent)
      /\ Len(r) = Len(s) + Len(events) - n
      /\ \A i \in 1..Len(s) : r[i] = s[i]
      /\ \A i \in n+1..Len(events) : r[Len(s) + i - n] = events[i]
      /\ \A i \in Len(s)+1..Len(r) : r[i] = events[i - Len(s) + n]
  <2> DEFINE u == SubSeq(events, n + 1, Len(events))
  <2>1. r = s \o u
    BY DEF Remaining
  <2> HIDE DEF r, s, n
  <2>2. /\ u \in Seq(BufferedEvent)
        /\ Len(u) = Len(events) - n
        /\ \A i \in 1..Len(u) : u[i] = events[i + n]
    <3> DEFINE m == n + 1
    <3>1. /\ m \in Int /\ n \in Int /\ m = n + 1 /\ m <= Len(events) + 1
          /\ Len(events) \in Int
          /\ \A i \in m..Len(events) : events[i] \in BufferedEvent
      BY <1>1, <1>2, <1>3, ElementOfSeq
    <3> HIDE DEF m
    <3>2. /\ SubSeq(events, m, Len(events)) \in Seq(BufferedEvent)
          /\ Len(SubSeq(events, m, Len(events)))
               = IF m <= Len(events) THEN Len(events) - m + 1 ELSE 0
          /\ \A i \in 1..Len(events) - m + 1 :
               SubSeq(events, m, Len(events))[i] = events[m + i - 1]
      BY <3>1, SubSeqProperties
    <3>3. u = SubSeq(events, m, Len(events))
      BY DEF m
    <3> HIDE DEF u
    <3>4. Len(u) = Len(events) - n
      <4>1. (IF m <= Len(events) THEN Len(events) - m + 1 ELSE 0) = Len(events) - n
        BY <3>1
      <4> QED
        BY <3>2, <3>3, <4>1, Zenon
    <3>5. ASSUME NEW i \in 1..Len(u)
          PROVE  u[i] = events[i + n]
      <4>1. /\ m \in Int /\ n \in Int /\ m = n + 1 /\ Len(events) \in Int
            /\ i \in 1..Len(events) - n
        BY <3>1, <3>4, Zenon
      <4>2. Len(events) - m + 1 = Len(events) - n /\ m + i - 1 = i + n
        BY <4>1
      <4> QED
        BY <3>2, <3>3, <4>1, <4>2, Zenon
    <3> QED
      BY <3>2, <3>3, <3>4, <3>5, Zenon
  <2> HIDE DEF u
  <2>3. /\ r \in Seq(BufferedEvent)
        /\ Len(r) = Len(s) + Len(u)
        /\ \A i \in 1..Len(s) + Len(u) : r[i] = IF i <= Len(s) THEN s[i] ELSE u[i - Len(s)]
    BY <1>1, <2>1, <2>2, ConcatProperties
  <2>4. \A i \in 1..Len(s) : r[i] = s[i]
    BY <1>2, <1>3, <2>2, <2>3
  <2>5. \A i \in n+1..Len(events) : r[Len(s) + i - n] = events[i]
    <3> TAKE i \in n+1..Len(events)
    <3>1. /\ Len(s) + i - n \in Len(s)+1..Len(s) + Len(u)
          /\ (Len(s) + i - n) - Len(s) = i - n
          /\ i - n \in 1..Len(u)
          /\ (i - n) + n = i
      BY <1>2, <1>3, <2>2
    <3> DEFINE k == Len(s) + i - n
    <3>2. k \in 1..Len(s) + Len(u) /\ ~(k <= Len(s)) /\ k - Len(s) = i - n
      BY <1>3, <2>2, <3>1
    <3> HIDE DEF k
    <3>3. r[k] = u[i - n]
      BY <2>3, <3>2
    <3>4. u[i - n] = events[i]
      BY <2>2, <3>1
    <3> QED
      BY <3>3, <3>4 DEF k
  <2>6. \A i \in Len(s)+1..Len(r) : r[i] = events[i - Len(s) + n]
    <3> TAKE i \in Len(s)+1..Len(r)
    <3>1. i - Len(s) \in 1..Len(u) /\ i \in 1..Len(s) + Len(u) /\ ~(i <= Len(s))
      BY <1>2, <1>3, <2>2, <2>3
    <3> QED
      BY <2>2, <2>3, <3>1
  <2> QED
    BY <1>2, <1>3, <2>2, <2>3, <2>4, <2>5, <2>6
<1> QED
  BY <1>2, <1>4

\* What a flush leaves of the buffer: what failed, and what was added.
LEMMA RemainingPlaces ==
  ASSUME TypeOK, SnapshotIsPrefix, NEW f \in Flushers, flusher[f] = "send"
  PROVE  /\ \A e : Holds(failed[f], e) => Holds(Remaining(f), e)
         /\ \A e : Holds(events, e) => Holds(batch[f], e) \/ Holds(Remaining(f), e)
         /\ \A e : Holds(Remaining(f), e) => Holds(failed[f], e) \/ Holds(events, e)
         /\ Counted(failed[f]) /\ Counted(events) => Counted(Remaining(f))
<1> DEFINE n == Len(batch[f])
           s == failed[f]
           r == Remaining(f)
<1>1. /\ s \in Seq(BufferedEvent)
      /\ events \in Seq(BufferedEvent)
      /\ batch[f] \in Seq(BufferedEvent)
  BY DEF TypeOK
<1>2. /\ n \in 0..Len(events)
      /\ \A i \in 1..n : events[i] = batch[f][i]
  BY BatchFits
<1>3. /\ Len(s) \in Nat /\ DOMAIN s = 1..Len(s)
      /\ Len(events) \in Nat /\ DOMAIN events = 1..Len(events)
      /\ DOMAIN batch[f] = 1..n
  BY <1>1, LenProperties
<1>4. /\ r \in Seq(BufferedEvent)
      /\ Len(r) = Len(s) + Len(events) - n
      /\ \A i \in 1..Len(s) : r[i] = s[i]
      /\ \A i \in n+1..Len(events) : r[Len(s) + i - n] = events[i]
      /\ \A i \in Len(s)+1..Len(r) : r[i] = events[i - Len(s) + n]
  BY RemainingEntries
<1>5. DOMAIN r = 1..Len(r)
  BY <1>4, LenProperties
<1> HIDE DEF r, s, n
<1>6. ASSUME NEW e, Holds(s, e)
      PROVE  Holds(r, e)
  <2>1. PICK i \in 1..Len(s) : s[i].event = e
    BY <1>3, <1>6 DEF Holds
  <2>2. i \in 1..Len(r)
    BY <1>2, <1>3, <1>4
  <2> QED
    BY <2>1, <2>2, <1>4, <1>5 DEF Holds
<1>7. ASSUME NEW e, Holds(events, e)
      PROVE  Holds(batch[f], e) \/ Holds(r, e)
  <2>1. PICK i \in 1..Len(events) : events[i].event = e
    BY <1>3, <1>7 DEF Holds
  <2>2. CASE i \in 1..n
    BY <2>1, <2>2, <1>2, <1>3 DEF Holds
  <2>3. CASE i \in n+1..Len(events)
    <3>1. Len(s) + i - n \in 1..Len(r)
      BY <2>3, <1>2, <1>3, <1>4
    <3> QED
      BY <2>1, <2>3, <3>1, <1>4, <1>5 DEF Holds
  <2> QED
    BY <2>2, <2>3, <1>2, <1>3
<1>8. \A i \in 1..Len(r) : i \in 1..Len(s) \/ i \in Len(s)+1..Len(r)
  BY <1>2, <1>3, <1>4
<1>9. \A i \in Len(s)+1..Len(r) : i - Len(s) + n \in 1..Len(events)
  BY <1>2, <1>3, <1>4
<1>10. ASSUME NEW e, Holds(r, e)
       PROVE  Holds(s, e) \/ Holds(events, e)
  <2>1. PICK i \in 1..Len(r) : r[i].event = e
    BY <1>5, <1>10 DEF Holds
  <2>2. CASE i \in 1..Len(s)
    BY <2>1, <2>2, <1>3, <1>4 DEF Holds
  <2>3. CASE i \in Len(s)+1..Len(r)
    BY <2>1, <2>3, <1>3, <1>4, <1>9 DEF Holds
  <2> QED
    BY <2>2, <2>3, <1>8
<1>11. ASSUME Counted(s), Counted(events)
       PROVE  Counted(r)
  <2> SUFFICES ASSUME NEW i \in 1..Len(r)
               PROVE  r[i].retries <= failures[r[i].event]
    BY <1>5 DEF Counted
  <2>1. CASE i \in 1..Len(s)
    BY <2>1, <1>3, <1>4, <1>11 DEF Counted
  <2>2. CASE i \in Len(s)+1..Len(r)
    BY <2>2, <1>3, <1>4, <1>9, <1>11 DEF Counted
  <2> QED
    BY <2>1, <2>2, <1>8
<1> QED
  BY <1>6, <1>7, <1>10, <1>11 DEF r, s

LEMMA FinishBatchKept ==
  ASSUME TypeOK, KeptInv, NEW f \in Flushers, FinishBatch(f)
  PROVE  KeptInv'
<1> USE DEF FinishBatch, historyVars
<1>1. \A e \in Occurrences : Owed(e)' <=> Owed(e)
  BY DEF Owed
<1>2. \A g \in Flushers : (Running(g) => g = f) /\ (Running(g)' => g = f)
  BY DEF TypeOK, KeptInv, OneFlush, Running
<1>3. \A g \in Flushers : flusher'[g] # "send"
  BY <1>2 DEF TypeOK, Running
<1>4. /\ unsaved' \/ snapshot' = events'
      /\ snapshot' \in {snapshot, events'}
  BY PersistKept
<1>5. /\ \A e : Holds(failed[f], e) => Holds(events', e)
      /\ \A e : Holds(events, e) => Holds(batch[f], e) \/ Holds(events', e)
      /\ \A e : Holds(events', e) => Holds(failed[f], e) \/ Holds(events, e)
      /\ Counted(failed[f]) /\ Counted(events) => Counted(Remaining(f))
  BY RemainingPlaces DEF KeptInv
<1>6. \A e \in Occurrences : ~Ahead(f, e)
  BY LenProperties DEF TypeOK, Ahead, MoreToSend
<1>7. Kept'
  <2>1. \A e \in Occurrences : Owed(e) => Holds(events', e)
    BY <1>5, <1>6 DEF KeptInv, Kept, BatchAccounted
  <2> QED
    BY <2>1, <1>1, <1>4 DEF Kept, Holds
<1>8. SnapshotIsPrefix' /\ BatchAccounted'
  BY <1>3 DEF SnapshotIsPrefix, BatchAccounted
<1>9. OneFlush'
  BY <1>2 DEF KeptInv, OneFlush, Running
<1>10. RetriesCounted'
  <2>1. Counted(Remaining(f))
    BY <1>5 DEF KeptInv, RetriesCounted
  <2>2. Counted(events)'
    BY <2>1 DEF Counted
  <2>3. Counted(snapshot)'
    BY <1>4, <2>2 DEF KeptInv, RetriesCounted, Counted
  <2> QED
    BY <1>3, <2>2, <2>3 DEF RetriesCounted
<1>11. Entered'
  BY <1>3, <1>4, <1>5 DEF KeptInv, Entered, Holds
<1> QED
  BY <1>7, <1>8, <1>9, <1>10, <1>11 DEF KeptInv

LEMMA NextBatchKept ==
  ASSUME TypeOK, KeptInv, NEW f \in Flushers, NextBatch(f)
  PROVE  KeptInv'
<1> USE DEF NextBatch, faultVars, historyVars
<1>1. \A e \in Occurrences : Owed(e)' <=> Owed(e)
  BY DEF Owed
<1>2. \A g \in Flushers : Running(g) => g = f
  BY DEF TypeOK, KeptInv, OneFlush, Running
<1>3. \A g \in Flushers : flusher'[g] = IF g = f THEN IF Answered THEN "idle" ELSE "copy"
                                       ELSE flusher[g]
  BY DEF TypeOK
<1>4. \A g \in Flushers : (Running(g)' => g = f /\ flushing') /\ flusher'[g] # "send"
  <2>1. ~Answered => flushing'
    OBVIOUS
  <2>2. CASE Answered
    BY <2>2, <1>2, <1>3 DEF Running
  <2>3. CASE ~Answered
    <3>1. \A g \in Flushers : (Running(g)' => g = f) /\ flusher'[g] # "send"
      BY <2>3, <1>2, <1>3 DEF Running
    <3> QED
      BY <2>1, <2>3, <3>1, Zenon
  <2> QED
    BY <2>2, <2>3
<1>5. Kept'
  BY <1>1 DEF KeptInv, Kept, Holds
<1>6. SnapshotIsPrefix' /\ BatchAccounted' /\ OneFlush'
  BY <1>4 DEF SnapshotIsPrefix, BatchAccounted, OneFlush
<1>7. RetriesCounted' /\ Entered'
  BY <1>4 DEF KeptInv, RetriesCounted, Counted, Entered, Holds
<1> QED
  BY <1>5, <1>6, <1>7 DEF KeptInv

LEMMA CrashKept ==
  ASSUME TypeOK, KeptInv, CrashAndRestart
  PROVE  KeptInv'
<1> USE DEF CrashAndRestart
<1>1. PICK f \in Flushers : StartUpFlush(f)
  OBVIOUS
<1>2. \A g \in Flushers : flusher'[g] \in {"spawned", "idle"}
  BY <1>1 DEF StartUpFlush
<1>3. \A g \in Flushers : ~Running(g)' /\ flusher'[g] # "send"
  BY <1>2 DEF Running
<1>4. \A e \in Occurrences : handler[e] = "done" => handler'[e] = "done"
  OBVIOUS
<1>5. \A e \in Occurrences : Owed(e)' => Owed(e) /\ (unsaved /\ Holds(events, e) => Holds(snapshot, e))
  BY DEF TypeOK, Owed
<1>6. Kept'
  <2>1. \A e \in Occurrences : Owed(e)' => Holds(snapshot, e)
    BY <1>5 DEF KeptInv, Kept
  <2> QED
    BY <2>1 DEF Kept, Holds
<1>7. SnapshotIsPrefix' /\ OneFlush' /\ BatchAccounted'
  BY <1>3 DEF SnapshotIsPrefix, OneFlush, BatchAccounted
<1>8. RetriesCounted' /\ Entered'
  BY <1>3, <1>4 DEF KeptInv, RetriesCounted, Counted, Entered, Holds
<1> QED
  BY <1>6, <1>7, <1>8 DEF KeptInv

LEMMA KeptStep == TypeOK /\ KeptInv /\ [Next]_vars => KeptInv'
<1> SUFFICES ASSUME TypeOK, KeptInv, [Next]_vars
             PROVE  KeptInv'
  OBVIOUS
<1> USE DEF bufferVars, flushVars, faultVars, historyVars
<1>1. ASSUME NEW e \in Occurrences, Detect(e) \/ PublishFails(e)
      PROVE  KeptInv'
  <2>1. \A x \in Occurrences : (Owed(x)' => Owed(x)) /\ (handler[x] = "done" => handler'[x] = "done")
    BY <1>1 DEF TypeOK, Owed, Detect, PublishFails
  <2> QED
    BY <1>1, <2>1, Untouched DEF Detect, PublishFails, Running
<1>2. ASSUME NEW e \in Occurrences, PublishAcked(e)
      PROVE  KeptInv'
  <2>1. \A x \in Occurrences : (Owed(x)' => Owed(x)) /\ (handler[x] = "done" => handler'[x] = "done")
    BY <1>2 DEF TypeOK, Owed, PublishAcked
  <2>2. \A f \in Flushers : (Running(f)' => Running(f)) /\ (flusher'[f] = "send" => flusher[f] = "send")
    BY <1>2 DEF TypeOK, PublishAcked, Running
  <2> QED
    BY <1>2, <2>1, <2>2, Untouched DEF PublishAcked
<1>3. ASSUME NEW f \in Flushers, CheckConnected(f)
      PROVE  KeptInv'
  <2>1. \A g \in Flushers : (Running(g)' => Running(g)) /\ (flusher'[g] = "send" => flusher[g] = "send")
    BY <1>3 DEF TypeOK, CheckConnected, Running
  <2>2. \A x \in Occurrences : Owed(x)' => Owed(x)
    BY <1>3 DEF CheckConnected, Owed
  <2> QED
    BY <1>3, <2>1, <2>2, Untouched DEF CheckConnected
<1>4. CASE ConnectionChanges \/ UNCHANGED vars
  <2>1. \A x \in Occurrences : Owed(x)' => Owed(x)
    BY <1>4 DEF ConnectionChanges, vars, Owed
  <2> QED
    BY <1>4, <2>1, Untouched DEF ConnectionChanges, vars, Running
<1> QED
  BY <1>1, <1>2, <1>3, <1>4, AddEventKept, EnterFlushKept, CopyBatchKept, DiscardKept,
     SendAckedKept, SendFailsKept, FinishBatchKept, NextBatchKept, CrashKept
     DEF Next, HandlerStep, FlushStep

\* The inductive invariant: one flush, whose copy is the beginning of the
\* buffer, accounts for everything that is owed.
THEOREM InvariantHolds == Spec => []KeptInv
<1>1. Spec => [](TypeOK /\ KeptInv)
  <2>1. Init => TypeOK /\ KeptInv
    BY TypeInit, KeptInit
  <2>2. (TypeOK /\ KeptInv) /\ [Next]_vars => (TypeOK /\ KeptInv)'
    BY TypeStep, KeptStep
  <2> QED
    BY <2>1, <2>2, PTL DEF Spec
<1> QED
  BY <1>1, PTL

\* Whatever flushes and additions overlap, and whatever crashes, an event that
\* is still to be delivered is in the buffer, and in the file unless its last
\* write failed.
THEOREM BufferKeeps == Spec => []Kept
<1>1. KeptInv => Kept
  BY DEF KeptInv
<1> QED
  BY <1>1, InvariantHolds, PTL

\* The entries a flush is sending are the first of the buffer.
THEOREM CopyIsPrefix == Spec => []SnapshotIsPrefix
<1>1. KeptInv => SnapshotIsPrefix
  BY DEF KeptInv
<1> QED
  BY <1>1, InvariantHolds, PTL


(***************************************************************************)
(* Nothing is sent twice                                                   *)
(***************************************************************************)

\* A list to which an event is added that it does not have.
LEMMA AppendDistinct ==
  ASSUME NEW list, NEW longer, NEW n \in Nat, Len(list) = n, Len(longer) = n + 1,
         \A i \in 1..n : longer[i] = list[i],
         \A i, j \in 1..n : list[i].event = list[j].event => i = j,
         \A i \in 1..n : list[i].event # longer[n + 1].event
  PROVE  Distinct(longer)
<1>1. \A i \in 1..Len(longer) : i \in 1..n \/ i = n + 1
  OBVIOUS
<1> QED
  BY <1>1 DEF Distinct

\* A step that leaves the list, the file and what is being sent alone.
LEMMA OnceUntouched ==
  ASSUME OnceInv, UNCHANGED <<events, snapshot, acked, crashes>>,
         \A f \in Flushers : flusher'[f] = "send" <=> flusher[f] = "send",
         \A f \in Flushers : flusher[f] = "send" =>
           batch'[f] = batch[f] /\ position'[f] = position[f] /\ failed'[f] = failed[f],
         \A e \in Occurrences : handler'[e] # "done" => handler[e] # "done"
  PROVE  OnceInv'
<1>1. SentOnce' /\ Distinct(events)' /\ Distinct(snapshot)'
  BY DEF OnceInv, SentOnce, Distinct
<1>2. FailedAreBehind'
  <2> SUFFICES ASSUME NEW f \in Flushers, flusher'[f] = "send"
               PROVE  /\ Distinct(failed'[f])
                      /\ \A i \in 1..Len(failed'[f]) :
                           \E j \in 1..(position'[f] - 1) : failed'[f][i].event = batch'[f][j].event
    BY DEF FailedAreBehind
  <2>1. batch'[f] = batch[f] /\ position'[f] = position[f] /\ failed'[f] = failed[f]
    OBVIOUS
  <2>2. /\ Distinct(failed[f])
        /\ \A i \in 1..Len(failed[f]) :
             \E j \in 1..(position[f] - 1) : failed[f][i].event = batch[f][j].event
    BY DEF OnceInv, FailedAreBehind
  <2> QED
    BY <2>1, <2>2
<1>3. PendingIsUnsent'
  BY DEF OnceInv, PendingIsUnsent, Unsent
<1> QED
  BY <1>1, <1>2, <1>3 DEF OnceInv

\* What has not left its handler is nowhere in the buffer.
LEMMA NotEntered ==
  ASSUME TypeOK, KeptInv, NEW e \in Occurrences, handler[e] # "done"
  PROVE  /\ \A i \in 1..Len(events) : events[i].event # e
         /\ \A i \in 1..Len(snapshot) : snapshot[i].event # e
         /\ \A f \in Flushers : flusher[f] = "send" =>
              \A i \in 1..Len(failed[f]) : failed[f][i].event # e
<1>1. /\ events \in Seq(BufferedEvent) /\ snapshot \in Seq(BufferedEvent)
      /\ \A f \in Flushers : failed[f] \in Seq(BufferedEvent)
  BY DEF TypeOK
<1>2. /\ DOMAIN events = 1..Len(events) /\ DOMAIN snapshot = 1..Len(snapshot)
      /\ \A f \in Flushers : DOMAIN failed[f] = 1..Len(failed[f])
  BY <1>1, LenProperties
<1> QED
  BY <1>2 DEF KeptInv, Entered, Holds

\* The entries of a list are of detected events.
LEMMA EventsOfList ==
  ASSUME NEW list \in Seq(BufferedEvent), NEW i \in 1..Len(list)
  PROVE  list[i] \in BufferedEvent /\ list[i].event \in Occurrences
<1>1. list[i] \in BufferedEvent
  BY ElementOfSeq
<1> QED
  BY <1>1 DEF BufferedEvent

LEMMA OncePublishAcked ==
  ASSUME TypeOK, KeptInv, OnceInv, NEW e \in Occurrences, PublishAcked(e)
  PROVE  OnceInv'
<1>1. /\ UNCHANGED <<events, snapshot, batch, position, failed, crashes>>
      /\ handler[e] = "publish" /\ handler' = [handler EXCEPT ![e] = "done"]
      /\ acked' = [acked EXCEPT ![e] = @ + 1]
  BY DEF PublishAcked, bufferVars
<1>2. \A f \in Flushers : flusher'[f] = "send" <=> flusher[f] = "send"
  BY DEF PublishAcked, TypeOK
<1>3. /\ handler \in [Occurrences -> {"undetected", "publish", "add", "done"}]
      /\ acked \in [Occurrences -> Nat] /\ crashes \in Nat
  BY DEF TypeOK
<1>4. /\ \A x \in Occurrences : x # e => acked'[x] = acked[x] /\ handler'[x] = handler[x]
      /\ acked'[e] = acked[e] + 1 /\ handler'[e] = "done" /\ acked[e] <= crashes
  BY <1>1, <1>3 DEF OnceInv, PendingIsUnsent, Unsent
<1>5. SentOnce'
  BY <1>1, <1>3, <1>4 DEF OnceInv, SentOnce
<1>6. Distinct(events)' /\ Distinct(snapshot)' /\ FailedAreBehind'
  <2>1. Distinct(events)' /\ Distinct(snapshot)'
    BY <1>1 DEF OnceInv, Distinct
  <2>2. batch' = batch /\ position' = position /\ failed' = failed
    BY <1>1
  <2>3. FailedAreBehind'
    BY <1>2, <2>2 DEF OnceInv, FailedAreBehind, Distinct
  <2> QED
    BY <2>1, <2>3
<1>7. PendingIsUnsent'
  <2>1. /\ \A i \in 1..Len(events) : events[i].event \in Occurrences /\ events[i].event # e
        /\ \A f \in Flushers : flusher[f] = "send" => \A i \in 1..Len(failed[f]) :
             failed[f][i].event \in Occurrences /\ failed[f][i].event # e
    <3>1. \A list \in Seq(BufferedEvent) : \A i \in 1..Len(list) : list[i].event \in Occurrences
      BY EventsOfList
    <3> QED
      BY <1>1, <3>1, NotEntered DEF TypeOK
  <2>2. \A x \in Occurrences : x # e /\ Unsent(x) => Unsent(x)'
    BY <1>1, <1>4 DEF Unsent
  <2>3. \A f \in Flushers : flusher[f] = "send" =>
          \A i \in position[f]..Len(events) : i \in 1..Len(events)
    BY DEF TypeOK
  <2>4. \A x \in Occurrences : handler'[x] # "done" => x # e /\ handler[x] # "done"
    BY <1>4
  <2> QED
    BY <1>1, <1>2, <2>1, <2>2, <2>3, <2>4 DEF OnceInv, PendingIsUnsent
<1> QED
  BY <1>5, <1>6, <1>7 DEF OnceInv

LEMMA OnceAddEvent ==
  ASSUME TypeOK, KeptInv, OnceInv, NEW e \in Occurrences, AddEvent(e)
  PROVE  OnceInv'
<1> DEFINE entry == [event |-> e, retries |-> 0]
<1>1. /\ UNCHANGED <<flusher, batch, position, failed, acked, crashes>>
      /\ handler[e] = "add" /\ handler' = [handler EXCEPT ![e] = "done"]
      /\ events' = Append(events, entry)
  BY DEF AddEvent, flushVars, historyVars, Add
<1>2. entry \in BufferedEvent /\ entry.event = e
  BY DEF BufferedEvent
<1> HIDE DEF entry
<1>3. events \in Seq(BufferedEvent) /\ Len(events) \in Nat
  BY DEF TypeOK
<1>4. /\ Distinct(events') /\ Len(events') = Len(events) + 1
      /\ events'[Len(events) + 1] = entry
      /\ \A i \in 1..Len(events) : events'[i] = events[i]
      /\ \A i \in 1..Len(events') : i \in 1..Len(events) \/ i = Len(events) + 1
  <2>1. /\ Len(events') = Len(events) + 1
        /\ events'[Len(events) + 1] = entry
        /\ \A i \in 1..Len(events) : events'[i] = events[i]
    BY <1>1, <1>2, <1>3, AppendProperties
  <2>2. \A i, j \in 1..Len(events) : events[i].event = events[j].event => i = j
    BY DEF OnceInv, Distinct
  <2>3. \A i \in 1..Len(events) : events[i].event # entry.event
    BY <1>1, <1>2, NotEntered
  <2>4. PICK n \in Nat : n = Len(events)
    BY <1>3
  <2>5. PICK longer : longer = events'
    OBVIOUS
  <2>6. Distinct(longer)
    <3>1. /\ Len(events) = n /\ Len(longer) = n + 1
          /\ \A i \in 1..n : longer[i] = events[i]
          /\ \A i \in 1..n : events[i].event # longer[n + 1].event
      BY <2>1, <2>3, <2>4, <2>5
    <3>2. \A i, j \in 1..n : events[i].event = events[j].event => i = j
      BY <2>2, <2>4
    <3> QED
      BY <3>1, <3>2, AppendDistinct
  <2>7. \A i \in 1..Len(events') : i \in 1..Len(events) \/ i = Len(events) + 1
    BY <1>3, <2>1
  <2> QED
    BY <2>1, <2>5, <2>6, <2>7
<1>5. snapshot' \in {snapshot, events'}
  BY PersistKept DEF AddEvent
<1>6. Distinct(events)' /\ Distinct(snapshot)'
  BY <1>4, <1>5 DEF OnceInv, Distinct
<1>7. SentOnce' /\ FailedAreBehind'
  BY <1>1 DEF OnceInv, SentOnce, FailedAreBehind, Distinct
<1>8. PendingIsUnsent'
  <2>1. \A x : Unsent(x)' <=> Unsent(x)
    BY <1>1 DEF Unsent
  <2>2. Unsent(e)
    BY <1>1 DEF OnceInv, PendingIsUnsent
  <2>3. \A x \in Occurrences : handler'[x] # "done" => handler[x] # "done"
    BY <1>1 DEF TypeOK
  <2>4. ASSUME NEW f \in Flushers, flusher[f] = "send"
        PROVE  \A i \in position[f]..Len(events') : Unsent(events'[i].event)
    <3>1. position[f] \in Nat \ {0}
      BY DEF TypeOK
    <3>2. \A i \in position[f]..Len(events') :
            i \in position[f]..Len(events) \/ i = Len(events) + 1
      BY <1>3, <1>4, <3>1
    <3>3. \A i \in position[f]..Len(events) : events'[i] = events[i]
      BY <1>4, <3>1
    <3>4. \A i \in position[f]..Len(events) : Unsent(events[i].event)
      BY <2>4 DEF OnceInv, PendingIsUnsent
    <3> QED
      BY <1>2, <1>4, <2>2, <3>2, <3>3, <3>4
  <2>5. ASSUME \A f \in Flushers : flusher[f] # "send"
        PROVE  \A i \in 1..Len(events') : Unsent(events'[i].event)
    <3>1. \A i \in 1..Len(events) : Unsent(events[i].event)
      BY <2>5 DEF OnceInv, PendingIsUnsent
    <3> QED
      BY <1>2, <1>4, <2>2, <3>1
  <2>6. \A f \in Flushers : flusher[f] = "send" =>
          \A i \in 1..Len(failed[f]) : Unsent(failed[f][i].event)
    BY DEF OnceInv, PendingIsUnsent
  <2>7. \A x \in Occurrences : handler'[x] # "done" => Unsent(x)
    BY <2>3 DEF OnceInv, PendingIsUnsent
  <2> QED
    BY <1>1, <2>1, <2>4, <2>5, <2>6, <2>7 DEF PendingIsUnsent
<1> QED
  BY <1>6, <1>7, <1>8 DEF OnceInv

LEMMA OnceCopyBatch ==
  ASSUME TypeOK, KeptInv, OnceInv, NEW f \in Flushers, CopyBatch(f)
  PROVE  OnceInv'
<1>1. /\ UNCHANGED <<handler, events, snapshot, acked, crashes>> /\ flusher[f] = "copy"
      /\ position' = [position EXCEPT ![f] = 1] /\ failed' = [failed EXCEPT ![f] = <<>>]
  BY DEF CopyBatch, bufferVars, historyVars
<1>2. \A g \in Flushers : flusher[g] # "send" /\ (flusher'[g] = "send" => g = f)
  BY DEF CopyBatch, TypeOK, KeptInv, OneFlush, Running
<1>3. position'[f] = 1 /\ failed'[f] = <<>> /\ Len(failed'[f]) = 0
  BY <1>1 DEF TypeOK
<1>4. SentOnce' /\ Distinct(events)' /\ Distinct(snapshot)'
  BY <1>1 DEF OnceInv, SentOnce, Distinct
<1>5. FailedAreBehind'
  BY <1>2, <1>3 DEF FailedAreBehind, Distinct
<1>6. PendingIsUnsent'
  <2>1. \A x : Unsent(x)' <=> Unsent(x)
    BY <1>1 DEF Unsent
  <2> QED
    BY <1>1, <1>2, <1>3, <2>1 DEF OnceInv, PendingIsUnsent
<1> QED
  BY <1>4, <1>5, <1>6 DEF OnceInv

\* Where a flush is, when it is about to send an entry.
LEMMA AtCurrent ==
  ASSUME TypeOK, KeptInv, OnceInv, NEW f \in Flushers, MoreToSend(f)
  PROVE  /\ position[f] \in 1..Len(events)
         /\ \A g \in Flushers : flusher[g] = "send" <=> g = f
         /\ events[position[f]].event = Current(f).event
         /\ Current(f).event \in Occurrences
         /\ handler[Current(f).event] = "done"
         /\ Unsent(Current(f).event)
         /\ \A i \in 1..Len(events) :
              i # position[f] => events[i].event # Current(f).event
         /\ \A i \in 1..Len(failed[f]) : failed[f][i].event # Current(f).event
<1>1. /\ position[f] \in 1..Len(batch[f]) /\ Current(f).event \in Occurrences
      /\ Len(events) \in Nat /\ DOMAIN events = 1..Len(events)
  BY CurrentType, LenProperties DEF TypeOK
<1>2. flusher[f] = "send" /\ \A g \in Flushers : flusher[g] = "send" <=> g = f
  BY DEF MoreToSend, KeptInv, OneFlush, Running
<1>3. /\ position[f] \in 1..Len(events) /\ events[position[f]] = Current(f)
      /\ Len(batch[f]) \in 0..Len(events)
      /\ \A i \in 1..Len(batch[f]) : events[i] = batch[f][i]
  BY <1>1, <1>2, CurrentPlace, BatchFits DEF KeptInv
<1>4. handler[Current(f).event] = "done"
  BY <1>1, <1>3 DEF KeptInv, Entered, Holds
<1>5. Unsent(Current(f).event)
  <2>1. position[f] \in position[f]..Len(events)
    BY <1>3
  <2>2. Unsent(events[position[f]].event)
    BY <1>2, <2>1 DEF OnceInv, PendingIsUnsent
  <2> QED
    BY <1>3, <2>2
<1>6. \A i \in 1..Len(events) : i # position[f] => events[i].event # Current(f).event
  BY <1>3 DEF OnceInv, Distinct
<1>7. ASSUME NEW i \in 1..Len(failed[f])
      PROVE  failed[f][i].event # Current(f).event
  <2>1. PICK j \in 1..(position[f] - 1) : failed[f][i].event = batch[f][j].event
    BY <1>2 DEF OnceInv, FailedAreBehind
  <2>2. j \in 1..Len(events) /\ j # position[f] /\ events[j] = batch[f][j]
    BY <1>1, <1>3
  <2> QED
    BY <1>6, <2>1, <2>2
<1> QED
  BY <1>1, <1>2, <1>3, <1>4, <1>5, <1>6, <1>7

\* The places of a flush that goes on to the next entry.
LEMMA NextPlace ==
  ASSUME TypeOK, NEW f \in Flushers, MoreToSend(f),
         position' = [position EXCEPT ![f] = @ + 1]
  PROVE  /\ position'[f] = position[f] + 1
         /\ \A i \in 1..(position[f] - 1) : i \in 1..(position'[f] - 1)
         /\ position[f] \in 1..(position'[f] - 1)
         /\ \A i \in position'[f]..Len(events) :
              i \in position[f]..Len(events) /\ i \in 1..Len(events) /\ i # position[f]
<1>1. position[f] \in Nat \ {0} /\ position'[f] = position[f] + 1
  BY DEF TypeOK
<1>2. Len(events) \in Nat
  BY DEF TypeOK
<1> QED
  BY <1>1, <1>2

\* What has failed stays behind a flush that goes on.
LEMMA StillBehind ==
  ASSUME TypeOK, OnceInv, NEW f \in Flushers, MoreToSend(f),
         position' = [position EXCEPT ![f] = @ + 1],
         NEW i \in 1..Len(failed[f])
  PROVE  \E j \in 1..(position'[f] - 1) : failed[f][i].event = batch[f][j].event
<1>1. flusher[f] = "send"
  BY DEF MoreToSend
<1>2. PICK j \in 1..(position[f] - 1) : failed[f][i].event = batch[f][j].event
  BY <1>1 DEF OnceInv, FailedAreBehind
<1>3. j \in 1..(position'[f] - 1)
  BY NextPlace
<1> QED
  BY <1>2, <1>3

LEMMA OnceDiscard ==
  ASSUME TypeOK, KeptInv, OnceInv, NEW f \in Flushers, Discard(f)
  PROVE  OnceInv'
<1>1. /\ UNCHANGED <<handler, events, snapshot, flusher, batch, failed, acked, crashes>>
      /\ MoreToSend(f) /\ position' = [position EXCEPT ![f] = @ + 1]
  BY DEF Discard, bufferVars, historyVars
<1>2. \A g \in Flushers : flusher[g] = "send" => g = f
  BY <1>1, AtCurrent
<1>3. SentOnce' /\ Distinct(events)' /\ Distinct(snapshot)'
  BY <1>1 DEF OnceInv, SentOnce, Distinct
<1>4. FailedAreBehind'
  <2>1. flusher[f] = "send" => Distinct(failed[f])'
    BY <1>1 DEF OnceInv, FailedAreBehind, Distinct
  <2>2. flusher[f] = "send" => \A i \in 1..Len(failed[f]) :
          \E j \in 1..(position'[f] - 1) : failed[f][i].event = batch[f][j].event
    BY <1>1, StillBehind
  <2> QED
    BY <1>1, <1>2, <2>1, <2>2 DEF FailedAreBehind
<1>5. PendingIsUnsent'
  <2>1. \A x : Unsent(x)' <=> Unsent(x)
    BY <1>1 DEF Unsent
  <2>2. flusher[f] = "send" =>
          \A i \in position'[f]..Len(events) : Unsent(events[i].event)
    BY <1>1, NextPlace DEF OnceInv, PendingIsUnsent
  <2> QED
    BY <1>1, <1>2, <2>1, <2>2 DEF OnceInv, PendingIsUnsent
<1> QED
  BY <1>3, <1>4, <1>5 DEF OnceInv

LEMMA OnceSendAcked ==
  ASSUME TypeOK, KeptInv, OnceInv, NEW f \in Flushers, SendAcked(f)
  PROVE  OnceInv'
<1> DEFINE e == Current(f).event
<1>1. /\ UNCHANGED <<handler, events, snapshot, flusher, batch, failed, crashes>>
      /\ MoreToSend(f) /\ position' = [position EXCEPT ![f] = @ + 1]
      /\ acked' = [acked EXCEPT ![e] = @ + 1]
  BY DEF SendAcked, bufferVars
<1>2. /\ flusher[f] = "send" /\ \A g \in Flushers : flusher[g] = "send" => g = f
      /\ e \in Occurrences /\ handler[e] = "done" /\ Unsent(e)
      /\ \A i \in 1..Len(events) : i # position[f] => events[i].event # e
      /\ \A i \in 1..Len(failed[f]) : failed[f][i].event # e
  BY <1>1, AtCurrent
<1> HIDE DEF e
<1>3. /\ acked \in [Occurrences -> Nat] /\ crashes \in Nat
      /\ \A x \in Occurrences : x # e => acked'[x] = acked[x]
      /\ acked'[e] = acked[e] + 1 /\ acked[e] <= crashes
  BY <1>1, <1>2 DEF TypeOK, Unsent
<1>4. SentOnce'
  BY <1>1, <1>2, <1>3 DEF OnceInv, SentOnce
<1>5. Distinct(events)' /\ Distinct(snapshot)'
  BY <1>1 DEF OnceInv, Distinct
<1>6. FailedAreBehind'
  <2>1. Distinct(failed[f])'
    BY <1>1, <1>2 DEF OnceInv, FailedAreBehind, Distinct
  <2>2. \A i \in 1..Len(failed[f]) :
          \E j \in 1..(position'[f] - 1) : failed[f][i].event = batch[f][j].event
    BY <1>1, <1>2, StillBehind
  <2> QED
    BY <1>1, <1>2, <2>1, <2>2 DEF FailedAreBehind
<1>7. PendingIsUnsent'
  <2>1. \A x \in Occurrences : x # e /\ Unsent(x) => Unsent(x)'
    BY <1>1, <1>3 DEF Unsent
  <2>2. \A i \in position'[f]..Len(events) :
          /\ events[i].event \in Occurrences /\ events[i].event # e
          /\ Unsent(events[i].event)
    BY <1>1, <1>2, NextPlace, EventsOfList DEF OnceInv, PendingIsUnsent, TypeOK
  <2>3. \A i \in 1..Len(failed[f]) :
          /\ failed[f][i].event \in Occurrences /\ failed[f][i].event # e
          /\ Unsent(failed[f][i].event)
    BY <1>2, EventsOfList DEF OnceInv, PendingIsUnsent, TypeOK
  <2>4. \A x \in Occurrences : handler[x] # "done" => Unsent(x)'
    BY <1>2, <2>1 DEF OnceInv, PendingIsUnsent
  <2>5. /\ \A i \in position'[f]..Len(events) : Unsent(events[i].event)'
        /\ \A i \in 1..Len(failed[f]) : Unsent(failed[f][i].event)'
    BY <1>1, <2>1, <2>2, <2>3
  <2> QED
    BY <1>1, <1>2, <2>4, <2>5 DEF PendingIsUnsent
<1> QED
  BY <1>4, <1>5, <1>6, <1>7 DEF OnceInv

LEMMA OnceSendFails ==
  ASSUME TypeOK, KeptInv, OnceInv, NEW f \in Flushers, SendFails(f)
  PROVE  OnceInv'
<1> DEFINE e == Current(f).event
           entry == [Current(f) EXCEPT !.retries = @ + 1]
<1>1. /\ UNCHANGED <<handler, events, snapshot, flusher, batch, acked, crashes>>
      /\ MoreToSend(f) /\ ~Exhausted(f)
      /\ position' = [position EXCEPT ![f] = @ + 1]
      /\ failed' = [failed EXCEPT ![f] = Append(@, entry)]
  BY DEF SendFails, bufferVars
<1>2. /\ flusher[f] = "send" /\ \A g \in Flushers : flusher[g] = "send" => g = f
      /\ e \in Occurrences /\ Unsent(e)
      /\ \A i \in 1..Len(failed[f]) : failed[f][i].event # e
  BY <1>1, AtCurrent
<1>3. entry \in BufferedEvent /\ entry.event = e
  <2>1. Current(f) \in BufferedEvent /\ Current(f).retries \in 0..MaxRetries
    BY <1>1, CurrentType
  <2>2. Current(f).retries + 1 \in 0..MaxRetries
    BY <1>1, <2>1, EventsAssumption DEF Exhausted
  <2> QED
    BY <2>1, <2>2 DEF BufferedEvent
<1>4. e = batch[f][position[f]].event
  BY DEF Current
<1> HIDE DEF e, entry
<1>5. failed[f] \in Seq(BufferedEvent) /\ failed'[f] = Append(failed[f], entry)
  BY <1>1 DEF TypeOK
<1>6. PICK list \in Seq(BufferedEvent), n \in Nat : list = failed[f] /\ n = Len(list)
  BY <1>5
<1>7. PICK longer : longer = failed'[f]
  OBVIOUS
<1>8. /\ Distinct(longer)
      /\ longer[n + 1] = entry
      /\ \A i \in 1..n : longer[i] = list[i]
      /\ \A i \in 1..Len(longer) : i \in 1..n \/ i = n + 1
  <2>1. longer = Append(list, entry)
    BY <1>5, <1>6, <1>7
  <2>2. /\ Len(longer) = n + 1 /\ longer[n + 1] = entry
        /\ \A i \in 1..n : longer[i] = list[i]
    BY <1>3, <1>6, <2>1, AppendProperties
  <2>3. \A i, j \in 1..n : list[i].event = list[j].event => i = j
    BY <1>2, <1>6 DEF OnceInv, FailedAreBehind, Distinct
  <2>4. \A i \in 1..n : list[i].event # longer[n + 1].event
    BY <1>2, <1>3, <1>6, <2>2
  <2>5. Len(list) = n /\ Len(longer) = n + 1 /\ \A i \in 1..n : longer[i] = list[i]
    BY <1>6, <2>2
  <2>6. Distinct(longer)
    BY <2>3, <2>4, <2>5, AppendDistinct
  <2>7. \A i \in 1..Len(longer) : i \in 1..n \/ i = n + 1
    BY <2>5
  <2> QED
    BY <2>2, <2>6, <2>7
<1>9. SentOnce' /\ Distinct(events)' /\ Distinct(snapshot)'
  BY <1>1 DEF OnceInv, SentOnce, Distinct
<1>10. FailedAreBehind'
  <2>1. ASSUME NEW i \in 1..Len(longer)
        PROVE  \E j \in 1..(position'[f] - 1) : longer[i].event = batch[f][j].event
    <3>1. CASE i \in 1..n
      <4>1. i \in 1..Len(failed[f]) /\ longer[i] = failed[f][i]
        BY <1>6, <1>8, <3>1
      <4>2. PICK j \in 1..(position'[f] - 1) : failed[f][i].event = batch[f][j].event
        BY <1>1, <4>1, StillBehind
      <4> QED
        BY <4>1, <4>2
    <3>2. CASE i = n + 1
      <4>1. position[f] \in 1..(position'[f] - 1)
        BY <1>1, NextPlace
      <4> QED
        BY <1>3, <1>4, <1>8, <3>2, <4>1
    <3> QED
      BY <1>8, <3>1, <3>2
  <2>2. Distinct(failed'[f])
    BY <1>7, <1>8
  <2>3. \A i \in 1..Len(failed'[f]) :
          \E j \in 1..(position'[f] - 1) : failed'[f][i].event = batch'[f][j].event
    BY <1>1, <1>7, <2>1
  <2>4. Distinct(failed[f])'
    BY <2>2 DEF Distinct
  <2>5. \A g \in Flushers : flusher'[g] = "send" => g = f
    BY <1>1, <1>2
  <2> QED
    BY <2>3, <2>4, <2>5 DEF FailedAreBehind
<1>11. PendingIsUnsent'
  <2>1. \A x : Unsent(x)' <=> Unsent(x)
    BY <1>1 DEF Unsent
  <2>2. \A i \in position'[f]..Len(events) : Unsent(events[i].event)
    BY <1>1, <1>2, NextPlace DEF OnceInv, PendingIsUnsent
  <2>3. \A i \in 1..Len(longer) : Unsent(longer[i].event)
    <3>1. \A i \in 1..n : Unsent(list[i].event)
      BY <1>2, <1>6 DEF OnceInv, PendingIsUnsent
    <3> QED
      BY <1>2, <1>3, <1>8, <3>1
  <2>4. \A i \in 1..Len(failed'[f]) : Unsent(failed'[f][i].event)
    BY <1>7, <2>3
  <2>5. \A x \in Occurrences : handler[x] # "done" => Unsent(x)
    BY DEF OnceInv, PendingIsUnsent
  <2> QED
    BY <1>1, <1>2, <2>1, <2>2, <2>4, <2>5 DEF PendingIsUnsent
<1> QED
  BY <1>9, <1>10, <1>11 DEF OnceInv

\* What a flush leaves has no event twice, and all of it is unsent.
LEMMA RemainingOnce ==
  ASSUME TypeOK, KeptInv, OnceInv, NEW f \in Flushers, FinishBatch(f),
         NEW r, r = Remaining(f)
  PROVE  /\ Distinct(r)
         /\ \A i \in 1..Len(r) : Unsent(r[i].event)
<1> DEFINE n == Len(batch[f])
           m == Len(failed[f])
<1>1. /\ flusher[f] = "send" /\ ~MoreToSend(f) /\ position[f] \in Nat \ {0}
      /\ n \in Nat /\ m \in Nat /\ Len(events) \in Nat
  BY DEF FinishBatch, TypeOK
<1>2. /\ n \in 0..Len(events)
      /\ Len(r) = m + Len(events) - n
      /\ \A i \in 1..m : r[i] = failed[f][i]
      /\ \A i \in m+1..Len(r) : r[i] = events[i - m + n]
      /\ \A i \in 1..n : events[i] = batch[f][i]
  BY <1>1, RemainingEntries, BatchFits DEF KeptInv
<1>3. position[f] \in 1..(n + 1) /\ ~(position[f] <= n)
  BY <1>1 DEF MoreToSend, KeptInv, BatchAccounted
<1> HIDE DEF n, m
<1>4. position[f] = n + 1
  BY <1>1, <1>3
<1>5. ASSUME NEW i \in 1..m
      PROVE  \E j \in 1..n : r[i].event = events[j].event
  <2>1. PICK j \in 1..(position[f] - 1) : failed[f][i].event = batch[f][j].event
    BY <1>1 DEF OnceInv, FailedAreBehind, m
  <2>2. j \in 1..n
    BY <1>1, <1>4
  <2> QED
    BY <1>2, <2>1, <2>2
<1>6. ASSUME NEW i \in m+1..Len(r)
      PROVE  i - m + n \in n+1..Len(events) /\ r[i] = events[i - m + n]
  BY <1>1, <1>2
<1>7. \A i \in 1..Len(r) : i \in 1..m \/ i \in m+1..Len(r)
  BY <1>1, <1>2
<1>8. Distinct(r)
  <2>1. ASSUME NEW i \in 1..m, NEW j \in 1..m, r[i].event = r[j].event
        PROVE  i = j
    <3>1. i \in 1..Len(failed[f]) /\ j \in 1..Len(failed[f])
      BY DEF m
    <3>2. failed[f][i].event = failed[f][j].event
      BY <1>2, <2>1
    <3> QED
      BY <1>1, <3>1, <3>2 DEF OnceInv, FailedAreBehind, Distinct
  <2>2. ASSUME NEW i \in 1..m, NEW j \in m+1..Len(r)
        PROVE  r[i].event # r[j].event
    <3>1. PICK k \in 1..n : r[i].event = events[k].event
      BY <1>5
    <3>2. PICK l \in n+1..Len(events) : r[j] = events[l]
      BY <1>6
    <3>3. k \in 1..Len(events) /\ l \in 1..Len(events) /\ k # l
      BY <1>1, <1>2
    <3> QED
      BY <3>1, <3>2, <3>3 DEF OnceInv, Distinct
  <2>3. ASSUME NEW i \in m+1..Len(r), NEW j \in m+1..Len(r), r[i].event = r[j].event
        PROVE  i = j
    <3>1. /\ i - m + n \in 1..Len(events) /\ j - m + n \in 1..Len(events)
          /\ r[i] = events[i - m + n] /\ r[j] = events[j - m + n]
      BY <1>1, <1>6
    <3>2. i - m + n = j - m + n
      BY <2>3, <3>1 DEF OnceInv, Distinct
    <3> QED
      BY <1>1, <3>2
  <2> QED
    BY <1>7, <2>1, <2>2, <2>3 DEF Distinct
<1>9. ASSUME NEW i \in 1..Len(r)
      PROVE  Unsent(r[i].event)
  <2>1. CASE i \in 1..m
    BY <1>1, <1>2, <2>1 DEF OnceInv, PendingIsUnsent, m
  <2>2. CASE i \in m+1..Len(r)
    <3>1. PICK l \in n+1..Len(events) : r[i] = events[l]
      BY <1>6, <2>2
    <3>2. l \in position[f]..Len(events)
      BY <1>4
    <3> QED
      BY <1>1, <3>1, <3>2 DEF OnceInv, PendingIsUnsent
  <2> QED
    BY <1>7, <2>1, <2>2
<1> QED
  BY <1>8, <1>9

LEMMA OnceFinishBatch ==
  ASSUME TypeOK, KeptInv, OnceInv, NEW f \in Flushers, FinishBatch(f)
  PROVE  OnceInv'
<1>1. /\ UNCHANGED <<handler, acked, crashes>> /\ events' = Remaining(f)
      /\ flusher' = [flusher EXCEPT ![f] = "next"]
  BY DEF FinishBatch, historyVars
<1>2. \A g \in Flushers : flusher'[g] # "send"
  BY <1>1 DEF FinishBatch, TypeOK, KeptInv, OneFlush, Running
<1>3. snapshot' \in {snapshot, events'}
  BY PersistKept DEF FinishBatch
<1>4. PICK r : r = Remaining(f)
  OBVIOUS
<1>5. /\ Distinct(r) /\ events' = r
      /\ \A i \in 1..Len(r) : Unsent(r[i].event)
  BY <1>1, <1>4, RemainingOnce
<1>6. SentOnce' /\ Distinct(events)' /\ Distinct(snapshot)'
  BY <1>1, <1>3, <1>5 DEF OnceInv, SentOnce, Distinct
<1>7. FailedAreBehind'
  BY <1>2 DEF FailedAreBehind
<1>8. PendingIsUnsent'
  BY <1>1, <1>2, <1>5 DEF OnceInv, PendingIsUnsent, Unsent
<1> QED
  BY <1>6, <1>7, <1>8 DEF OnceInv

\* A process that starts anew may send everything once more.
LEMMA OnceCrash ==
  ASSUME TypeOK, OnceInv, CrashAndRestart
  PROVE  OnceInv'
<1>1. /\ UNCHANGED <<snapshot, acked>> /\ events' = snapshot /\ crashes' = crashes + 1
  BY DEF CrashAndRestart
<1>2. \A g \in Flushers : flusher'[g] # "send"
  BY DEF CrashAndRestart, StartUpFlush
<1>3. crashes \in Nat /\ \A x \in Occurrences : acked[x] \in Nat /\ acked[x] <= 1 + crashes
  BY DEF TypeOK, OnceInv, SentOnce
<1>4. \A x \in Occurrences : Unsent(x)'
  BY <1>1, <1>3 DEF Unsent
<1>5. SentOnce' /\ Distinct(events)' /\ Distinct(snapshot)'
  BY <1>1, <1>3 DEF OnceInv, SentOnce, Distinct
<1>6. FailedAreBehind'
  BY <1>2 DEF FailedAreBehind
<1>7. PendingIsUnsent'
  <2>1. \A i \in 1..Len(snapshot) : snapshot[i].event \in Occurrences
    BY EventsOfList DEF TypeOK
  <2> QED
    BY <1>1, <1>2, <1>4, <2>1 DEF PendingIsUnsent
<1> QED
  BY <1>5, <1>6, <1>7 DEF OnceInv

LEMMA OnceInit == Init => OnceInv
  BY DEF Init, OnceInv, SentOnce, Distinct, FailedAreBehind, PendingIsUnsent, Unsent

LEMMA OnceStep == TypeOK /\ KeptInv /\ OnceInv /\ [Next]_vars => OnceInv'
<1> SUFFICES ASSUME TypeOK, KeptInv, OnceInv, [Next]_vars
             PROVE  OnceInv'
  OBVIOUS
<1>1. ASSUME NEW e \in Occurrences, Detect(e) \/ PublishFails(e)
      PROVE  OnceInv'
  <2>1. /\ UNCHANGED <<events, snapshot, acked, crashes, flusher, batch, position, failed>>
        /\ \A x \in Occurrences : handler'[x] # "done" => handler[x] # "done"
    BY <1>1 DEF Detect, PublishFails, TypeOK, bufferVars, flushVars, historyVars
  <2> QED
    BY <2>1, OnceUntouched
<1>2. ASSUME NEW f \in Flushers, CheckConnected(f) \/ EnterFlush(f) \/ NextBatch(f)
      PROVE  OnceInv'
  <2>1. /\ UNCHANGED <<events, snapshot, acked, crashes, handler>>
        /\ \A g \in Flushers : flusher'[g] = "send" <=> flusher[g] = "send"
        /\ \A g \in Flushers : flusher[g] = "send" =>
             batch'[g] = batch[g] /\ position'[g] = position[g] /\ failed'[g] = failed[g]
    BY <1>2 DEF CheckConnected, EnterFlush, NextBatch, TypeOK, bufferVars, historyVars
  <2> QED
    BY <2>1, OnceUntouched
<1>3. ASSUME ConnectionChanges \/ UNCHANGED vars
      PROVE  OnceInv'
  <2>1. UNCHANGED <<events, snapshot, acked, crashes, handler, flusher, batch, position, failed>>
    BY <1>3 DEF ConnectionChanges, vars, bufferVars, flushVars, historyVars
  <2> QED
    BY <2>1, OnceUntouched
<1> QED
  BY <1>1, <1>2, <1>3, OncePublishAcked, OnceAddEvent, OnceCopyBatch, OnceDiscard,
     OnceSendAcked, OnceSendFails, OnceFinishBatch, OnceCrash
     DEF Next, HandlerStep, FlushStep

\* However flushes overlap, one process sends an event at most once; each crash
\* may add one sending more.
THEOREM SentOnlyOnce == Spec => []SentOnce
<1>1. Init => TypeOK /\ KeptInv /\ OnceInv
  BY TypeInit, KeptInit, OnceInit
<1>2. (TypeOK /\ KeptInv /\ OnceInv) /\ [Next]_vars => (TypeOK /\ KeptInv /\ OnceInv)'
  BY TypeStep, KeptStep, OnceStep
<1>3. OnceInv => SentOnce
  BY DEF OnceInv
<1> QED
  BY <1>1, <1>2, <1>3, PTL DEF Spec

-----------------------------------------------------------------------------
(***************************************************************************)
(* Movement                                                                *)
(***************************************************************************)

USE MovementAssumption DEF MovementAssumption

\* What waits for the monitor's lock is bounded.
UpdatesBounded == IsFiniteSet(updates) /\ Cardinality(updates) <= MaxUpdates

\* There is one confirmation at a time, and the monitor knows of it.
OneRun ==
  /\ \A r, s \in runs : r = s
  /\ runs # {} => monitor.confirming

\* A scooter that has been ridden away is still unlocked when the next sample
\* is taken.
RiddenIsDue ==
  \A r \in runs : r.at = "sampling" /\ r.ridden => r.due /\ vehicle \notin Unattended

\* Once a change has been noticed, the detector knows the state.
LastStateCurrent ==
  ~vehicleNotified /\ lastVehicleState # Unset
    => Reported[lastVehicleState] = Reported[vehicle]

\* The monitor does not take the state to be older than it is, unless it has
\* still to be told of a change.
EnteredIsStood ==
  (/\ vehicleHandlers = {} /\ monitor.entered # Unset
   /\ vehicleNotified => lastVehicleState = Reported[vehicle])
  => monitor.entered <= stood

MovementInv ==
  /\ MovementTypeOK
  /\ UpdatesBounded
  /\ OneRun
  /\ RiddenIsDue
  /\ LastStateCurrent
  /\ EnteredIsStood

LEMMA RunKinds ==
  ASSUME MovementTypeOK, NEW r \in runs
  PROVE  /\ r.at = "sampling" => r \in Sampling
         /\ r.at # "sampling" => r \in Ending
BY DEF MovementTypeOK, Sampling, Ending

LEMMA SameFieldImage ==
  ASSUME UpdatesBounded
  PROVE  LET P == {u.place : u \in updates}
         IN  IsFiniteSet(P) /\ Cardinality(P) <= MaxUpdates /\ Cardinality(P) \in Nat
<1> DEFINE P == {u.place : u \in updates}
           f == [u \in updates |-> u.place]
<1>1. f \in Surjection(updates, P)
  BY DEF Surjection
<1> HIDE DEF f, P
<1>2. IsFiniteSet(P) /\ Cardinality(P) <= Cardinality(updates)
  BY <1>1, FS_Surjection DEF UpdatesBounded
<1>3. Cardinality(P) \in Nat /\ Cardinality(updates) \in Nat
  BY <1>2, FS_CardinalityType DEF UpdatesBounded
<1>4. Cardinality(P) <= MaxUpdates
  BY <1>2, <1>3 DEF UpdatesBounded
<1> QED
  BY <1>2, <1>3, <1>4 DEF P

\* Two more elements are at most two more.
LEMMA TwoMore ==
  ASSUME NEW S, IsFiniteSet(S), NEW n \in Nat, Cardinality(S) <= n, NEW a, NEW b
  PROVE  IsFiniteSet(S \cup {a, b}) /\ Cardinality(S \cup {a, b}) <= n + 2
<1>1. Cardinality(S) \in Nat
  BY FS_CardinalityType
<1>2. ASSUME NEW T, IsFiniteSet(T), NEW m \in Nat, Cardinality(T) <= m, NEW x
      PROVE  IsFiniteSet(T \cup {x}) /\ Cardinality(T \cup {x}) <= m + 1
  <2>1. /\ IsFiniteSet(T \cup {x})
        /\ \/ Cardinality(T \cup {x}) = Cardinality(T)
           \/ Cardinality(T \cup {x}) = Cardinality(T) + 1
    BY <1>2, FS_AddElement, Zenon
  <2>2. Cardinality(T) \in Nat
    BY <1>2, FS_CardinalityType
  <2> QED
    BY <1>2, <2>1, <2>2
<1>3. /\ IsFiniteSet((S \cup {a}) \cup {b})
      /\ Cardinality((S \cup {a}) \cup {b}) <= (n + 1) + 1
  BY <1>2, n + 1 \in Nat
<1>4. (S \cup {a}) \cup {b} = S \cup {a, b}
  OBVIOUS
<1> QED
  BY <1>3, <1>4

\* What a run remembers are two places at most.
LEMMA RunPlaces ==
  ASSUME OneRun
  PROVE  \E a, b : Remembered \subseteq {u.place : u \in updates}
                                          \cup {place, monitor.anchor} \cup {a, b}
<1>1. CASE runs = {}
  BY <1>1 DEF Remembered
<1>2. CASE runs # {}
  <2>1. PICK r \in runs : runs = {r}
    <3>1. PICK r \in runs : TRUE
      BY <1>2
    <3>2. runs = {r}
      BY <3>1 DEF OneRun
    <3> QED
      BY <3>2
  <2>2. CASE r.at = "sampling"
    <3>1. Remembered \subseteq {u.place : u \in updates} \cup {place, monitor.anchor}
                                 \cup {r.anchor, r.last}
      BY <2>1, <2>2 DEF Remembered
    <3> QED
      BY <3>1
  <2>3. CASE r.at # "sampling"
    <3>1. Remembered \subseteq {u.place : u \in updates} \cup {place, monitor.anchor}
                                 \cup {r.position, r.position}
      BY <2>1, <2>3 DEF Remembered
    <3> QED
      BY <3>1
  <2> QED
    BY <2>2, <2>3
<1> QED
  BY <1>1, <1>2

\* There is always a place that nothing remembers.
LEMMA ElsewhereIsNew ==
  ASSUME UpdatesBounded, OneRun
  PROVE  Elsewhere \in Places /\ Elsewhere \notin Remembered
<1> DEFINE P == {u.place : u \in updates}
<1>1. IsFiniteSet(P) /\ Cardinality(P) <= MaxUpdates
  BY SameFieldImage
<1>2. PICK a, b : Remembered \subseteq P \cup {place, monitor.anchor} \cup {a, b}
  BY RunPlaces
<1> HIDE DEF P
<1>3. /\ IsFiniteSet(P \cup {place, monitor.anchor})
      /\ Cardinality(P \cup {place, monitor.anchor}) <= MaxUpdates + 2
  BY <1>1, TwoMore
<1> DEFINE All == P \cup {place, monitor.anchor} \cup {a, b}
<1>4. IsFiniteSet(All) /\ Cardinality(All) <= (MaxUpdates + 2) + 2
  <2> DEFINE S == P \cup {place, monitor.anchor}
  <2>1. IsFiniteSet(S) /\ Cardinality(S) <= MaxUpdates + 2 /\ MaxUpdates + 2 \in Nat
    BY <1>3
  <2>2. All = S \cup {a, b}
    OBVIOUS
  <2> HIDE DEF S, All
  <2> QED
    BY <2>1, <2>2, TwoMore
<1>5. Remembered \subseteq All
  BY <1>2
<1> HIDE DEF All
<1>6. \E p \in Places : p \notin Remembered
  <2> SUFFICES ASSUME Places \subseteq Remembered
               PROVE  FALSE
    OBVIOUS
  <2>1. IsFiniteSet(Places) /\ Cardinality(Places) <= Cardinality(All)
    BY <1>4, <1>5, FS_Subset
  <2>2. Cardinality(Places) \in Nat /\ Cardinality(All) \in Nat
    BY <1>4, <2>1, FS_CardinalityType
  <2> QED
    BY <1>4, <2>1, <2>2, PlacesAssumption
<1> QED
  BY <1>6 DEF Elsewhere

LEMMA MovementInitial == MovementInit => MovementInv
<1> SUFFICES ASSUME MovementInit
             PROVE  MovementInv
  OBVIOUS
<1>1. Places # {}
  BY FS_EmptySet, PlacesAssumption
<1>2. place \in Positions
  BY <1>1 DEF MovementInit, Positions
<1>3. monitor \in Monitors
  BY DEF MovementInit, Monitors
<1>4. stood \in 0..Stability /\ lastVehicleState \in States \cup {Unset}
  BY DEF MovementInit
<1>5. MovementTypeOK
  BY <1>2, <1>3, <1>4 DEF MovementInit, MovementTypeOK
<1>6. UpdatesBounded
  BY FS_EmptySet DEF MovementInit, UpdatesBounded
<1>7. OneRun /\ RiddenIsDue /\ LastStateCurrent /\ EnteredIsStood
  BY DEF MovementInit, OneRun, RiddenIsDue, LastStateCurrent, EnteredIsStood
<1> QED
  BY <1>5, <1>6, <1>7 DEF MovementInv

\* A step that changes what waits for the lock, and of the monitor not what the
\* invariant is about, except that a state may be taken for a new one.
LEMMA UpdateKeeps ==
  ASSUME MovementInv,
         updates' \subseteq [place : Positions, vehicle : Unattended \cup {Unset}],
         UpdatesBounded', monitor' \in Monitors,
         monitor'.confirming = monitor.confirming,
         monitor'.entered \in {monitor.entered, 0},
         UNCHANGED <<place, vehicle, vehicleNotified, lastVehicleState, vehicleHandlers, runs,
                     stood>>
  PROVE  MovementInv'
<1>1. MovementTypeOK'
  BY DEF MovementInv, MovementTypeOK
<1>2. OneRun' /\ RiddenIsDue' /\ LastStateCurrent'
  BY DEF MovementInv, OneRun, RiddenIsDue, LastStateCurrent
<1>3. EnteredIsStood'
  <2>1. 0 <= stood
    BY DEF MovementInv, MovementTypeOK
  <2> QED
    BY <2>1 DEF MovementInv, EnteredIsStood
<1> QED
  BY <1>1, <1>2, <1>3 DEF MovementInv

\* A step of the confirmation.
LEMMA RunKeeps ==
  ASSUME MovementInv, NEW r \in runs, NEW s \in Sampling \cup Ending, Replaced(r, s),
         s.at = "sampling" => ~s.ridden,
         monitor' \in Monitors, monitor'.confirming = monitor.confirming,
         monitor'.entered = monitor.entered,
         UNCHANGED <<scooter, lastVehicleState, vehicleHandlers, updates>>
  PROVE  MovementInv'
<1>1. runs' = {s} /\ monitor.confirming
  BY DEF Replaced, MovementInv, OneRun
<1>2. MovementTypeOK'
  BY <1>1 DEF scooter, MovementInv, MovementTypeOK
<1>3. OneRun' /\ RiddenIsDue'
  BY <1>1 DEF OneRun, RiddenIsDue
<1>4. UpdatesBounded' /\ LastStateCurrent' /\ EnteredIsStood'
  BY DEF scooter, MovementInv, UpdatesBounded, LastStateCurrent, EnteredIsStood
<1> QED
  BY <1>2, <1>3, <1>4 DEF MovementInv

\* Of the vehicle and its state, a change leaves open only whether the monitor
\* has to be told.
LEMMA VehicleChangesKeeps == MovementInv /\ VehicleChanges => MovementInv'
<1> SUFFICES ASSUME MovementInv, VehicleChanges
             PROVE  MovementInv'
  OBVIOUS
<1>1. PICK s \in States \ {vehicle} :
        /\ s \in Unattended => ~SampleIsDue
        /\ vehicle' = s
        /\ stood' = IF Reported[s] = Reported[vehicle] THEN stood ELSE 0
  BY DEF VehicleChanges
<1>2. /\ ~vehicleNotified /\ vehicleNotified' = TRUE
      /\ UNCHANGED <<place, lastVehicleState, vehicleHandlers, updates, monitor, runs>>
  BY DEF VehicleChanges
<1>3. MovementTypeOK'
  BY <1>1, <1>2 DEF MovementInv, MovementTypeOK
<1>4. RiddenIsDue'
  BY <1>1, <1>2 DEF MovementInv, RiddenIsDue, SampleIsDue
<1>5. EnteredIsStood'
  <2> SUFFICES ASSUME vehicleHandlers = {}, monitor.entered # Unset,
                      lastVehicleState = Reported[vehicle']
               PROVE  monitor.entered <= stood'
    BY <1>2 DEF EnteredIsStood
  <2>1. monitor.entered <= stood
    BY <1>2 DEF MovementInv, EnteredIsStood
  <2>2. Reported[vehicle'] \in States /\ Reported[Reported[vehicle']] = Reported[vehicle']
    BY <1>1
  <2>3. Reported[lastVehicleState] = Reported[vehicle]
    BY <1>2, <2>2 DEF MovementInv, LastStateCurrent
  <2> QED
    BY <1>1, <2>1, <2>2, <2>3
<1>6. OneRun' /\ UpdatesBounded' /\ LastStateCurrent'
  BY <1>2 DEF MovementInv, OneRun, UpdatesBounded, LastStateCurrent
<1> QED
  BY <1>3, <1>4, <1>5, <1>6 DEF MovementInv

LEMMA CheckVehicleEventsKeeps == MovementInv /\ CheckVehicleEvents => MovementInv'
<1> SUFFICES ASSUME MovementInv, CheckVehicleEvents
             PROVE  MovementInv'
  OBVIOUS
<1> DEFINE state == Reported[vehicle]
<1>1. /\ vehicleNotified /\ vehicleNotified' = FALSE
      /\ vehicleHandlers' = IF lastVehicleState = state THEN vehicleHandlers
                            ELSE vehicleHandlers \cup {state}
      /\ lastVehicleState' = state
      /\ UNCHANGED <<place, vehicle, stood, updates, monitor, runs>>
  BY DEF CheckVehicleEvents
<1>2. vehicle \in States /\ state \in States /\ Reported[state] = state
  BY DEF MovementInv, MovementTypeOK
<1>3. MovementTypeOK'
  BY <1>1, <1>2 DEF MovementInv, MovementTypeOK
<1>4. LastStateCurrent'
  BY <1>1, <1>2 DEF LastStateCurrent
<1>5. EnteredIsStood'
  BY <1>1 DEF MovementInv, EnteredIsStood
<1>6. OneRun' /\ UpdatesBounded' /\ RiddenIsDue'
  BY <1>1 DEF MovementInv, OneRun, UpdatesBounded, RiddenIsDue
<1> QED
  BY <1>3, <1>4, <1>5, <1>6 DEF MovementInv

LEMMA OnVehicleStateChangeKeeps ==
  ASSUME MovementInv, NEW state \in vehicleHandlers, OnVehicleStateChange(state)
  PROVE  MovementInv'
<1>1. /\ vehicleHandlers' = vehicleHandlers \ {state}
      /\ monitor' = [monitor EXCEPT !.anchor = Unset, !.anchorState = state, !.entered = 0,
                                    !.cooldown = 0]
      /\ UNCHANGED <<place, vehicle, vehicleNotified, stood, lastVehicleState, updates, runs>>
  BY DEF OnVehicleStateChange, Reset, scooter
<1>2. monitor \in Monitors /\ state \in States /\ 0 <= stood
  BY DEF MovementInv, MovementTypeOK
<1>3. monitor' \in Monitors /\ monitor'.confirming = monitor.confirming /\ monitor'.entered = 0
  <2>1. 0 \in 0..Stability /\ 0 \in 0..RearmCooldown
    OBVIOUS
  <2> QED
    BY <1>1, <1>2, <2>1 DEF Monitors
<1>4. MovementTypeOK'
  BY <1>1, <1>3 DEF MovementInv, MovementTypeOK
<1>5. EnteredIsStood'
  BY <1>1, <1>2, <1>3 DEF EnteredIsStood
<1>6. OneRun' /\ UpdatesBounded' /\ RiddenIsDue' /\ LastStateCurrent'
  BY <1>1, <1>3 DEF MovementInv, OneRun, UpdatesBounded, RiddenIsDue, LastStateCurrent
<1> QED
  BY <1>4, <1>5, <1>6 DEF MovementInv

LEMMA SamplingTickKeeps ==
  ASSUME MovementInv, NEW moves \in BOOLEAN, SamplingTick(moves)
  PROVE  MovementInv'
<1>1. /\ ~SampleIsDue /\ ~vehicleNotified
      /\ place' = IF moves THEN Elsewhere ELSE place
      /\ monitor' = [monitor EXCEPT !.cooldown = Pred(@),
                       !.entered = IF @ = Unset THEN Unset ELSE AtMost(Stability, @ + 1)]
      /\ stood' = AtMost(Stability, stood + 1)
      /\ UNCHANGED <<vehicle, vehicleNotified, lastVehicleState, vehicleHandlers, updates>>
  BY DEF SamplingTick
<1> DEFINE Ticked(r) ==
      IF r.at # "sampling" THEN r
      ELSE [r EXCEPT !.due = TRUE, !.ridden = @ \/ (moves /\ vehicle \notin Unattended)]
<1>2. runs' = {Ticked(r) : r \in runs}
  BY DEF SamplingTick
<1>3. monitor \in Monitors /\ place \in Positions /\ stood \in 0..Stability
  BY DEF MovementInv, MovementTypeOK
<1>4. place' \in Positions
  BY <1>1, <1>3, ElsewhereIsNew DEF MovementInv, Positions
<1>5. stood' \in 0..Stability
  BY <1>1, <1>3 DEF AtMost
<1>6. /\ monitor' \in Monitors /\ monitor'.confirming = monitor.confirming
      /\ monitor'.entered = IF monitor.entered = Unset THEN Unset
                            ELSE AtMost(Stability, monitor.entered + 1)
  <2>1. Pred(monitor.cooldown) \in 0..RearmCooldown
    BY <1>3 DEF Monitors, Pred
  <2>2. monitor.entered # Unset => AtMost(Stability, monitor.entered + 1) \in 0..Stability
    BY <1>3 DEF Monitors, AtMost
  <2> QED
    BY <1>1, <1>3, <2>1, <2>2 DEF Monitors
<1>7. ASSUME NEW r \in runs
      PROVE  /\ Ticked(r) \in Sampling \cup Ending
             /\ Ticked(r).at = "sampling" /\ Ticked(r).ridden
                  => Ticked(r).due /\ vehicle \notin Unattended
  <2>1. CASE r.at # "sampling"
    BY <2>1, RunKinds DEF MovementInv
  <2>2. CASE r.at = "sampling"
    <3>1. r \in Sampling /\ ~r.ridden
      BY <1>1, <2>2, RunKinds DEF MovementInv, RiddenIsDue, SampleIsDue
    <3> QED
      BY <2>2, <3>1 DEF Sampling
  <2> QED
    BY <2>1, <2>2
<1> HIDE DEF Ticked
<1>8. MovementTypeOK'
  BY <1>1, <1>2, <1>4, <1>5, <1>6, <1>7 DEF MovementInv, MovementTypeOK
<1>9. OneRun'
  BY <1>2, <1>6 DEF MovementInv, OneRun
<1>10. RiddenIsDue'
  BY <1>1, <1>2, <1>7 DEF RiddenIsDue
<1>11. EnteredIsStood'
  <2> SUFFICES ASSUME vehicleHandlers = {}, monitor'.entered # Unset
               PROVE  monitor'.entered <= stood'
    BY <1>1 DEF EnteredIsStood
  <2>1. monitor.entered # Unset /\ monitor.entered \in 0..Stability
    BY <1>3, <1>6 DEF Monitors
  <2>2. monitor.entered <= stood
    BY <1>1, <2>1 DEF MovementInv, EnteredIsStood
  <2> QED
    BY <1>1, <1>3, <1>6, <2>1, <2>2 DEF AtMost
<1>12. UpdatesBounded' /\ LastStateCurrent'
  BY <1>1 DEF MovementInv, UpdatesBounded, LastStateCurrent
<1> QED
  BY <1>8, <1>9, <1>10, <1>11, <1>12 DEF MovementInv

\* One update less, or another one in its place.
LEMMA FewerUpdates ==
  ASSUME UpdatesBounded, NEW u \in updates
  PROVE  /\ IsFiniteSet(updates \ {u}) /\ Cardinality(updates \ {u}) <= MaxUpdates
         /\ \A v : /\ IsFiniteSet((updates \ {u}) \cup {v})
                  /\ Cardinality((updates \ {u}) \cup {v}) <= MaxUpdates
<1>1. IsFiniteSet(updates) /\ Cardinality(updates) <= MaxUpdates /\ Cardinality(updates) \in Nat
  BY FS_CardinalityType DEF UpdatesBounded
<1>2. /\ IsFiniteSet(updates \ {u}) /\ Cardinality(updates \ {u}) = Cardinality(updates) - 1
  BY <1>1, FS_RemoveElement
<1>3. ASSUME NEW v
      PROVE  /\ IsFiniteSet((updates \ {u}) \cup {v})
             /\ \/ Cardinality((updates \ {u}) \cup {v}) = Cardinality(updates \ {u})
                \/ Cardinality((updates \ {u}) \cup {v}) = Cardinality(updates \ {u}) + 1
  BY <1>2, FS_AddElement, Zenon
<1>4. Cardinality(updates \ {u}) <= MaxUpdates
  BY <1>1, <1>2
<1>5. ASSUME NEW v
      PROVE  Cardinality((updates \ {u}) \cup {v}) <= MaxUpdates
  <2>1. \/ Cardinality((updates \ {u}) \cup {v}) = Cardinality(updates \ {u})
        \/ Cardinality((updates \ {u}) \cup {v}) = Cardinality(updates \ {u}) + 1
    BY <1>3, Zenon
  <2> QED
    BY <1>1, <1>2, <2>1
<1> QED
  BY <1>2, <1>3, <1>4, <1>5

LEMMA CheckGPSEventsKeeps == MovementInv /\ CheckGPSEvents => MovementInv'
<1> SUFFICES ASSUME MovementInv, CheckGPSEvents
             PROVE  MovementInv'
  OBVIOUS
<1> DEFINE u == [place |-> place, vehicle |-> Unset]
<1>1. /\ updates' = updates \cup {u} /\ Cardinality(updates) < MaxUpdates
      /\ UNCHANGED <<place, vehicle, vehicleNotified, lastVehicleState, vehicleHandlers, runs,
                     stood, monitor>>
  BY DEF CheckGPSEvents, scooter
<1>2. u \in [place : Positions, vehicle : Unattended \cup {Unset}]
  BY DEF MovementInv, MovementTypeOK
<1> HIDE DEF u
<1>3. IsFiniteSet(updates) /\ Cardinality(updates) \in Nat
  BY FS_CardinalityType DEF MovementInv, UpdatesBounded
<1>4. /\ IsFiniteSet(updates \cup {u})
      /\ \/ Cardinality(updates \cup {u}) = Cardinality(updates)
         \/ Cardinality(updates \cup {u}) = Cardinality(updates) + 1
  BY <1>3, FS_AddElement, Zenon
<1>5. UpdatesBounded'
  BY <1>1, <1>3, <1>4 DEF UpdatesBounded
<1> QED
  BY <1>1, <1>2, <1>5, UpdateKeeps DEF MovementInv, MovementTypeOK

\* A call that goes on, or ends before the lock.
LEMMA ReadStatesKeeps ==
  ASSUME MovementInv, NEW u \in updates, ReadStates(u) \/ Hibernates(u)
  PROVE  MovementInv'
<1> DEFINE Updates == [place : Positions, vehicle : Unattended \cup {Unset}]
<1>1. UNCHANGED <<place, vehicle, vehicleNotified, lastVehicleState, vehicleHandlers, runs,
                  stood, monitor>>
  BY DEF ReadStates, Hibernates, scooter
<1>2. updates \subseteq Updates /\ monitor \in Monitors
  BY DEF MovementInv, MovementTypeOK
<1>3. \/ updates' = updates \ {u}
      \/ /\ vehicle \in Unattended
         /\ updates' = (updates \ {u}) \cup {[u EXCEPT !.vehicle = vehicle]}
  BY DEF ReadStates, Hibernates
<1>4. vehicle \in Unattended => [u EXCEPT !.vehicle = vehicle] \in Updates
  BY <1>2
<1>5. updates' \subseteq Updates
  BY <1>2, <1>3, <1>4
<1>6. UpdatesBounded'
  <2>1. PICK v : updates' = updates \ {u} \/ updates' = (updates \ {u}) \cup {v}
    BY <1>3
  <2>2. /\ IsFiniteSet(updates \ {u}) /\ Cardinality(updates \ {u}) <= MaxUpdates
        /\ IsFiniteSet((updates \ {u}) \cup {v})
        /\ Cardinality((updates \ {u}) \cup {v}) <= MaxUpdates
    BY FewerUpdates DEF MovementInv
  <2> QED
    BY <2>1, <2>2 DEF UpdatesBounded
<1> HIDE DEF Updates
<1> QED
  BY <1>1, <1>2, <1>5, <1>6, UpdateKeeps DEF Updates

\* A confirmation starts.
LEMMA TriggersKeeps ==
  ASSUME MovementInv, NEW u \in updates, Triggers(u)
  PROVE  MovementInv'
<1> DEFINE run == [at |-> "sampling", anchor |-> monitor.anchor, state |-> u.vehicle, due |-> TRUE,
                   last |-> Unset, taken |-> 0, consistent |-> 0, lag |-> 0, ridden |-> FALSE]
<1>1. /\ updates' = updates \ {u}
      /\ monitor' = [monitor EXCEPT !.confirming = TRUE]
      /\ runs' = runs \cup {run}
      /\ UNCHANGED <<place, vehicle, vehicleNotified, lastVehicleState, vehicleHandlers, stood>>
  BY DEF Triggers, Considered, Consumed, scooter
<1>2. monitor.anchor # Unset /\ ~monitor.confirming /\ u.vehicle # Unset
  BY DEF Triggers, Considered, Consumed, Busy, Unanchored
<1>3. /\ monitor \in Monitors
      /\ updates \subseteq [place : Positions, vehicle : Unattended \cup {Unset}]
  BY DEF MovementInv, MovementTypeOK
<1>4. run \in Sampling
  <2>1. monitor.anchor \in Positions /\ u.vehicle \in Unattended
    BY <1>2, <1>3 DEF Monitors
  <2>2. 0 \in 0..Samples /\ 0 \in 0..MinConsistent /\ 0 \in 0..Lag
    OBVIOUS
  <2> QED
    BY <2>1, <2>2 DEF Sampling
<1>5. /\ monitor' \in Monitors /\ monitor'.confirming = TRUE
      /\ monitor'.entered = monitor.entered
  BY <1>1, <1>3 DEF Monitors
<1>6. runs' = {run}
  BY <1>1, <1>2 DEF MovementInv, OneRun
<1>7. ~run.ridden
  OBVIOUS
<1> HIDE DEF run
<1>8. MovementTypeOK'
  BY <1>1, <1>3, <1>4, <1>5, <1>6 DEF MovementInv, MovementTypeOK
<1>9. OneRun' /\ RiddenIsDue'
  BY <1>5, <1>6, <1>7 DEF OneRun, RiddenIsDue
<1>10. UpdatesBounded'
  BY <1>1, FewerUpdates DEF MovementInv, UpdatesBounded
<1>11. LastStateCurrent' /\ EnteredIsStood'
  BY <1>1, <1>5 DEF MovementInv, LastStateCurrent, EnteredIsStood
<1> QED
  BY <1>8, <1>9, <1>10, <1>11 DEF MovementInv

LEMMA OnGPSUpdateKeeps ==
  ASSUME MovementInv, NEW u \in updates, OnGPSUpdate(u)
  PROVE  MovementInv'
<1>1. CASE Triggers(u)
  BY <1>1, TriggersKeeps
<1>2. CASE ~Triggers(u)
  <2>1. Consumed(u)
    BY <1>2 DEF OnGPSUpdate, Suppressed, Anchors, Ignored, Teleported, Considered
  <2>2. /\ updates' = updates \ {u} /\ u.vehicle # Unset
        /\ UNCHANGED <<place, vehicle, vehicleNotified, stood, lastVehicleState, vehicleHandlers>>
    BY <2>1 DEF Consumed, scooter
  <2>3. /\ monitor \in Monitors
        /\ updates \subseteq [place : Positions, vehicle : Unattended \cup {Unset}]
    BY DEF MovementInv, MovementTypeOK
  <2>4. u.place \in Positions /\ u.vehicle \in States
    BY <2>2, <2>3
  <2>5. UpdatesBounded'
    BY <2>2, FewerUpdates DEF MovementInv, UpdatesBounded
  <2>6. /\ monitor' \in Monitors /\ monitor'.confirming = monitor.confirming
        /\ monitor'.entered \in {monitor.entered, 0} /\ runs' = runs
    <3>1. CASE Suppressed(u) \/ Ignored(u)
      BY <2>3, <3>1 DEF Suppressed, Ignored
    <3>2. CASE Anchors(u)
      <4>1. 0 \in 0..Stability
        OBVIOUS
      <4> QED
        BY <2>3, <2>4, <3>2, <4>1 DEF Anchors, Monitors
    <3>3. CASE Teleported(u)
      BY <2>3, <2>4, <3>3 DEF Teleported, Monitors
    <3> QED
      BY <1>2, <3>1, <3>2, <3>3 DEF OnGPSUpdate
  <2> QED
    BY <2>2, <2>3, <2>5, <2>6, UpdateKeeps
<1> QED
  BY <1>1, <1>2

LEMMA ConcludedType ==
  ASSUME MovementInv, NEW r, r.last \in Positions \cup {Unset}, NEW verdict \in Verdicts
  PROVE  /\ Concluded(r, verdict) \in Ending /\ Concluded(r, verdict).at = "publishing"
         /\ Concluded(r, verdict).verdict = verdict
<1>1. Elsewhere \in Positions
  BY ElsewhereIsNew DEF MovementInv, Positions
<1> QED
  BY <1>1 DEF Concluded, Ending

\* A sample that is taken while the scooter is where it may be has not been
\* ridden to.
LEMMA CollectedType ==
  ASSUME MovementInv, NEW r \in runs, r.at = "sampling", ~Interrupted(r)
  PROVE  /\ r \in Sampling /\ ~r.ridden
         /\ Smoothed(r).at = "sampling" /\ ~Smoothed(r).ridden
         /\ Smoothed(r).last \in Positions
         /\ Smoothed(r).taken < Samples => Smoothed(r) \in Sampling
<1>1. r \in Sampling
  BY RunKinds DEF MovementInv
<1>2. ~r.ridden
  BY <1>1 DEF Interrupted, MovementInv, RiddenIsDue, Sampling
<1>3. place \in Positions
  BY DEF MovementInv, MovementTypeOK
<1> DEFINE lag == IF r.last = Unset THEN 0 ELSE IF place # r.last THEN Lag ELSE Pred(r.lag)
           consistent == IF lag > 0 THEN AtMost(MinConsistent, r.consistent + 1) ELSE r.consistent
<1>4. lag \in 0..Lag
  BY <1>1 DEF Sampling, Pred
<1>5. consistent \in 0..MinConsistent
  BY <1>1 DEF Sampling, AtMost
<1>6. Smoothed(r) = [r EXCEPT !.due = FALSE, !.last = place, !.taken = r.taken + 1, !.lag = lag,
                              !.consistent = consistent]
  BY <1>1 DEF Smoothed, Sampling
<1> HIDE DEF lag, consistent
<1>7. /\ Smoothed(r).at = "sampling" /\ ~Smoothed(r).ridden /\ Smoothed(r).last = place
      /\ Smoothed(r).taken = r.taken + 1
  BY <1>1, <1>2, <1>6 DEF Sampling
<1>8. ASSUME r.taken + 1 < Samples
      PROVE  Smoothed(r) \in Sampling
  <2>1. r.taken + 1 \in 0..Samples
    BY <1>1, <1>8 DEF Sampling
  <2> QED
    BY <1>1, <1>3, <1>4, <1>5, <1>6, <2>1 DEF Sampling
<1> QED
  BY <1>1, <1>2, <1>3, <1>7, <1>8

LEMMA SamplingStepKeeps ==
  ASSUME MovementInv, NEW r \in runs, Collect(r) \/ Bails(r) \/ LosesFix(r)
  PROVE  MovementInv'
<1>1. /\ r.at = "sampling" /\ monitor' = monitor /\ monitor \in Monitors
      /\ UNCHANGED <<scooter, lastVehicleState, vehicleHandlers, updates>>
  BY DEF Collect, Bails, LosesFix, SamplingStep, RunStep, MovementInv, MovementTypeOK
<1>2. r \in Sampling
  BY <1>1, RunKinds DEF MovementInv
<1>3. CASE Collect(r)
  <2>1. ~Interrupted(r)
    BY <1>3 DEF Collect
  <2>2. CASE Smoothed(r).taken < Samples
    <3>1. Replaced(r, Smoothed(r))
      BY <1>3, <2>2 DEF Collect
    <3>2. Smoothed(r) \in Sampling /\ ~Smoothed(r).ridden
      BY <1>1, <2>1, <2>2, CollectedType
    <3> QED
      BY <1>1, <3>1, <3>2, RunKeeps
  <2>3. CASE ~(Smoothed(r).taken < Samples)
    <3>1. PICK verdict \in Verdicts : Replaced(r, Concluded(Smoothed(r), verdict))
      BY <1>3, <2>3 DEF Collect, Verdicts
    <3>2. Smoothed(r).last \in Positions
      BY <1>1, <2>1, CollectedType
    <3>3. /\ Concluded(Smoothed(r), verdict) \in Ending
          /\ Concluded(Smoothed(r), verdict).at = "publishing"
      BY <3>2, ConcludedType
    <3> QED
      BY <1>1, <3>1, <3>3, RunKeeps
  <2> QED
    BY <2>2, <2>3
<1>4. CASE Bails(r) \/ LosesFix(r)
  <2>1. Replaced(r, Concluded(r, "rejected"))
    BY <1>4 DEF Bails, LosesFix, Rejected
  <2>2. "rejected" \in Verdicts /\ r.last \in Positions \cup {Unset}
    BY <1>2 DEF Verdicts, Sampling
  <2>3. Concluded(r, "rejected") \in Ending /\ Concluded(r, "rejected").at = "publishing"
    BY <2>2, ConcludedType
  <2> QED
    BY <1>1, <2>1, <2>3, RunKeeps
<1> QED
  BY <1>3, <1>4

LEMMA PublishedKeeps ==
  ASSUME MovementInv, NEW r \in runs, Published(r)
  PROVE  MovementInv'
<1>1. /\ r.at = "publishing" /\ Replaced(r, [r EXCEPT !.at = "ending"])
      /\ monitor' = IF r.verdict = "rejected" THEN monitor
                    ELSE [monitor EXCEPT !.anchor = r.position]
      /\ UNCHANGED <<scooter, lastVehicleState, vehicleHandlers, updates>>
  BY DEF Published, RunStep
<1>2. r \in Ending
  BY <1>1, RunKinds DEF MovementInv
<1>3. [r EXCEPT !.at = "ending"] \in Ending /\ [r EXCEPT !.at = "ending"].at = "ending"
  BY <1>2 DEF Ending
<1>4. /\ monitor' \in Monitors /\ monitor'.confirming = monitor.confirming
      /\ monitor'.entered = monitor.entered
  <2>1. monitor \in Monitors /\ r.position \in Positions \cup {Unset}
    BY <1>2 DEF MovementInv, MovementTypeOK, Ending
  <2> QED
    BY <1>1, <2>1 DEF Monitors
<1> QED
  BY <1>1, <1>3, <1>4, RunKeeps

LEMMA EndsKeeps ==
  ASSUME MovementInv, NEW r \in runs, Ends(r)
  PROVE  MovementInv'
<1>1. /\ runs' = runs \ {r}
      /\ monitor' = [monitor EXCEPT !.confirming = FALSE, !.cooldown = RearmCooldown]
      /\ UNCHANGED <<place, vehicle, vehicleNotified, stood, lastVehicleState, vehicleHandlers,
                     updates>>
  BY DEF Ends, RunStep, Released, scooter
<1>2. runs' = {}
  BY <1>1 DEF MovementInv, OneRun
<1>3. monitor' \in Monitors /\ monitor'.entered = monitor.entered
  <2>1. monitor \in Monitors /\ RearmCooldown \in 0..RearmCooldown
    BY DEF MovementInv, MovementTypeOK
  <2> QED
    BY <1>1, <2>1 DEF Monitors
<1>4. MovementTypeOK'
  BY <1>1, <1>2, <1>3 DEF MovementInv, MovementTypeOK
<1> QED
  BY <1>1, <1>2, <1>3, <1>4 DEF MovementInv, UpdatesBounded, OneRun, RiddenIsDue,
                                LastStateCurrent, EnteredIsStood

LEMMA MovementStep == MovementInv /\ [MovementNext]_movementVars => MovementInv'
<1> SUFFICES ASSUME MovementInv, [MovementNext]_movementVars
             PROVE  MovementInv'
  OBVIOUS
<1>1. CASE VehicleWork
  BY <1>1, CheckVehicleEventsKeeps, OnVehicleStateChangeKeeps, SamplingStepKeeps,
     PublishedKeeps, EndsKeeps DEF VehicleWork
<1>2. CASE GPSWork
  BY <1>2, CheckGPSEventsKeeps, ReadStatesKeeps, OnGPSUpdateKeeps DEF GPSWork
<1>3. ASSUME NEW moves \in BOOLEAN, SamplingTick(moves)
      PROVE  MovementInv'
  BY <1>3, SamplingTickKeeps
<1>4. CASE Drift
  <2>1. place' \in Positions
    BY <1>4 DEF Drift, MovementInv, MovementTypeOK, Monitors, Positions
  <2>2. UNCHANGED <<vehicle, vehicleNotified, lastVehicleState, vehicleHandlers, updates, monitor,
                    runs, stood>>
    BY <1>4 DEF Drift
  <2>3. MovementTypeOK'
    BY <2>1, <2>2 DEF MovementInv, MovementTypeOK
  <2> QED
    BY <2>2, <2>3 DEF MovementInv, UpdatesBounded, OneRun, RiddenIsDue, LastStateCurrent,
                      EnteredIsStood
<1>5. CASE VehicleChanges
  BY <1>5, VehicleChangesKeeps
<1>6. ASSUME NEW u \in updates, Hibernates(u)
      PROVE  MovementInv'
  BY <1>6, ReadStatesKeeps
<1>7. ASSUME NEW r \in runs, LosesFix(r)
      PROVE  MovementInv'
  BY <1>7, SamplingStepKeeps
<1>8. CASE UNCHANGED movementVars
  BY <1>8 DEF movementVars, MovementInv, MovementTypeOK, UpdatesBounded, OneRun, RiddenIsDue,
              LastStateCurrent, EnteredIsStood
<1> QED
  BY <1>1, <1>2, <1>3, <1>4, <1>5, <1>6, <1>7, <1>8 DEF MovementNext, Working

\* The types of the model of movement detection: there is always somewhere else
\* to go, a confirmation at a time, and a state that is never taken to be older
\* than it is.
THEOREM MovementInvHolds == MovementSpec => []MovementInv
<1> QED
  BY MovementInitial, MovementStep, PTL DEF MovementSpec

\* Only a movement that is looked at starts a confirmation.
LEMMA OnlyTriggersArms ==
  ASSUME MovementInv, MovementNext, Arms
  PROVE  \E u \in updates : Triggers(u)
<1>1. monitor \in Monitors /\ ~monitor.confirming /\ monitor'.confirming /\ monitor' # monitor
  BY DEF Arms, MovementInv, MovementTypeOK
<1>2. ASSUME NEW moves \in BOOLEAN, SamplingTick(moves)
      PROVE  FALSE
  BY <1>1, <1>2 DEF SamplingTick, Monitors
<1>3. ASSUME NEW s \in vehicleHandlers, OnVehicleStateChange(s)
      PROVE  FALSE
  BY <1>1, <1>3 DEF OnVehicleStateChange, Reset, Monitors
<1>4. ASSUME NEW r \in runs, Published(r) \/ Ends(r)
      PROVE  FALSE
  BY <1>1, <1>4 DEF Published, Ends, Released, Monitors
<1>5. ASSUME NEW r \in runs, Collect(r) \/ Bails(r) \/ LosesFix(r)
      PROVE  FALSE
  BY <1>1, <1>5 DEF Collect, Bails, LosesFix, SamplingStep
<1>6. ASSUME NEW u \in updates, OnGPSUpdate(u)
      PROVE  Triggers(u)
  BY <1>1, <1>6 DEF OnGPSUpdate, Suppressed, Anchors, Ignored, Teleported, Monitors
<1>7. ASSUME NEW u \in updates, ReadStates(u) \/ Hibernates(u)
      PROVE  FALSE
  BY <1>1, <1>7 DEF ReadStates, Hibernates
<1>8. ~(CheckVehicleEvents \/ CheckGPSEvents \/ Drift \/ VehicleChanges)
  BY <1>1 DEF CheckVehicleEvents, CheckGPSEvents, Drift, VehicleChanges
<1> QED
  BY <1>2, <1>3, <1>4, <1>5, <1>6, <1>7, <1>8 DEF MovementNext, Working, VehicleWork, GPSWork

\* A confirmation starts only for a state the vehicle has been in for as long as
\* is required, unless the detector is still to be told of a change, or is
\* telling the monitor.
THEOREM ArmsStable == MovementSpec => StableBeforeArming
<1>1. ASSUME MovementInv, [MovementNext]_movementVars, Arms, ~vehicleNotified, vehicleHandlers = {}
      PROVE  stood = Stability
  <2>1. monitor \in Monitors /\ stood \in 0..Stability
    BY <1>1 DEF MovementInv, MovementTypeOK
  <2>2. MovementNext
    BY <1>1 DEF Arms, movementVars
  <2>3. PICK u \in updates : Triggers(u)
    BY <1>1, <2>2, OnlyTriggersArms
  <2>4. monitor.entered = Stability /\ monitor.entered # Unset
    BY <2>3 DEF Triggers, Considered
  <2>5. monitor.entered <= stood
    BY <1>1, <2>4 DEF MovementInv, EnteredIsStood
  <2> QED
    BY <2>1, <2>4, <2>5
<1> QED
  BY <1>1, MovementInvHolds, PTL DEF StableBeforeArming, MovementSpec

\* What somebody who had unlocked the scooter has moved is not confirmed as
\* stolen, even if the unlocking fell between the reading of the state and the
\* trigger.
THEOREM ConfirmedIsTaken == MovementSpec => ConfirmedMeansTaken
<1>1. ASSUME MovementInv, [MovementNext]_movementVars,
             NEW r \in runs, r.at = "sampling", r.ridden,
             NEW s \in runs' \ runs, s.at = "publishing"
      PROVE  s.verdict = "rejected"
  <2>1. runs = {r} /\ monitor.confirming
    BY <1>1 DEF MovementInv, OneRun
  <2>2. r \in Sampling
    BY <1>1, RunKinds DEF MovementInv
  <2>3. Interrupted(r)
    BY <1>1, <2>2 DEF MovementInv, RiddenIsDue, Interrupted, Sampling
  <2>4. CASE Bails(r) \/ LosesFix(r)
    <3>1. runs' = (runs \ {r}) \cup {Concluded(r, "rejected")}
      BY <2>4 DEF Bails, LosesFix, Rejected, Replaced
    <3>2. Concluded(r, "rejected").verdict = "rejected"
      BY DEF Concluded
    <3> QED
      BY <1>1, <3>1, <3>2
  <2>5. ~Collect(r) /\ ~Published(r) /\ ~Ends(r)
    BY <1>1, <2>3 DEF Collect, Published, Ends
  <2>6. ASSUME NEW moves \in BOOLEAN, SamplingTick(moves)
        PROVE  FALSE
    BY <1>1, <2>6 DEF SamplingTick, MovementInv, RiddenIsDue, SampleIsDue
  <2>7. ASSUME NEW u \in updates, OnGPSUpdate(u)
        PROVE  runs' = runs
    BY <2>1, <2>7 DEF OnGPSUpdate, Suppressed, Anchors, Ignored, Teleported, Triggers, Considered,
                      Busy
  <2>8. ASSUME \/ CheckVehicleEvents \/ CheckGPSEvents \/ Drift \/ VehicleChanges
               \/ UNCHANGED movementVars
               \/ \E h \in vehicleHandlers : OnVehicleStateChange(h)
               \/ \E u \in updates : ReadStates(u) \/ Hibernates(u)
        PROVE  runs' = runs
    BY <2>8 DEF CheckVehicleEvents, CheckGPSEvents, Drift, VehicleChanges, movementVars,
                OnVehicleStateChange, ReadStates, Hibernates
  <2> QED
    BY <1>1, <2>1, <2>4, <2>5, <2>6, <2>7, <2>8 DEF MovementNext, Working, VehicleWork, GPSWork
<1>2. MovementInv /\ [MovementNext]_movementVars =>
        \A r \in runs : r.at = "sampling" /\ r.ridden
          => \A s \in runs' \ runs : s.at = "publishing" => s.verdict = "rejected"
  BY <1>1
<1> QED
  BY <1>2, MovementInvHolds, PTL DEF ConfirmedMeansTaken, MovementSpec

(***************************************************************************)
(* Notifications                                                           *)
(***************************************************************************)

HIDE DEF EventsAssumption, MovementAssumption
USE NotificationsAssumption DEF NotificationsAssumption

(***************************************************************************)
(* Notifications: types                                                    *)
(***************************************************************************)

\* What a running callback is.
LEMMA CallbackType ==
  ASSUME NotificationTypeOK, NEW h \in Active
  PROVE  /\ h \in Handlers /\ handlers[h] \in Handling /\ handlers[h] # Idle
         /\ handlers[h].stage \in {"check", "hash", "message", "done"}
         /\ handlers[h].hash \in Hashes /\ handlers[h].value \in BOOLEAN
         /\ handlers[h].events \in Seq(Kinds) /\ handlers[h].left \subseteq Rules
         /\ handlers[h].rule \in Rules \cup {None} /\ handlers[h].reads \subseteq Hashes
         /\ handlers[h].found \in Seq(Rules)
         /\ handlers[h].seen \subseteq Hashes \X BOOLEAN /\ handlers[h].crossed \subseteq Rules
<1>1. h \in Handlers /\ handlers[h] \in {Idle} \cup Handling /\ handlers[h].stage # "idle"
  BY DEF NotificationTypeOK, Active
<1>2. handlers[h] # Idle
  BY <1>1 DEF Idle
<1>3. handlers[h] \in Handling
  BY <1>1, <1>2
<1> QED
  BY <1>1, <1>2, <1>3 DEF Handling

\* A callback that is none of the idle ones is running.
LEMMA RunningType == ASSUME NEW g \in Handling PROVE g.stage # "idle"
  BY DEF Handling

LEMMA NotifierType ==
  ASSUME NotificationTypeOK, NEW n \in Notifiers
  PROVE  /\ notifiers[n] \in Notifier
         /\ notifiers[n].queue \in Seq(Kinds) /\ Len(notifiers[n].queue) \in 0..QueueSize
         /\ notifiers[n].waiting \in BOOLEAN /\ notifiers[n].tick \in BOOLEAN
         /\ notifiers[n].limit \in Nat /\ notifiers[n].count \in Nat
         /\ notifiers[n].today \in BOOLEAN
         /\ notifiers[n].sent \in [1..4 -> 0..RateLimit]
         /\ notifiers[n].sentToday \in Nat
<1>1. notifiers[n] \in Notifier /\ Len(notifiers[n].queue) <= QueueSize
  BY DEF NotificationTypeOK
<1>2. notifiers[n].queue \in Seq(Kinds)
  BY <1>1 DEF Notifier
<1>3. Len(notifiers[n].queue) \in 0..QueueSize
  BY <1>1, <1>2, LenProperties
<1> QED
  BY <1>1, <1>2, <1>3 DEF Notifier

LEMMA NotificationTypeInit == NotificationInit => NotificationTypeOK
<1> SUFFICES ASSUME NotificationInit
             PROVE  NotificationTypeOK
  OBVIOUS
<1>1. handlers \in [Handlers -> {Idle} \cup Handling]
  BY DEF NotificationInit
<1>2. setup \in [limit : Nat, watched : BOOLEAN, changes : Nat, faults : Nat]
  BY DEF NotificationInit
<1>3. [i \in 1..4 |-> RateLimit] \in [1..4 -> 0..RateLimit]
  OBVIOUS
<1>4. ASSUME NEW n \in Notifiers
      PROVE  notifiers[n] \in Notifier /\ notifiers[n].queue = <<>>
  BY <1>2, <1>3 DEF NotificationInit, Notifier
<1>5. notifiers \in [Notifiers -> Notifier] /\ \A n \in Notifiers : Len(notifiers[n].queue) <= QueueSize
  <2>1. notifiers = [n \in Notifiers |-> notifiers[n]]
    BY DEF NotificationInit
  <2>2. Len(<<>>) = 0 /\ 0 <= QueueSize
    OBVIOUS
  <2> QED
    BY <1>4, <2>1, <2>2
<1>6. watch \in [at : {"off", "between", "blocked", "handling"},
                lastID : Nat \cup {None}, from : Nat, to : Nat]
  BY <1>2 DEF NotificationInit
<1>7. /\ 0 \in 0..Cooldown /\ Cooldown \in 0..Cooldown
      /\ 0 \in 0..(Day - 1) /\ 0 \in 0..(RateLimit - 1)
  OBVIOUS
<1>8. /\ redis \in [Hashes -> BOOLEAN] /\ notified \subseteq Hashes
      /\ lastState \in [Hashes -> BOOLEAN] /\ stream \in Nat
      /\ cooling \in [Rules -> 0..Cooldown] /\ fired \in [Rules -> 0..Cooldown]
      /\ clock \in 0..(Day - 1) /\ phase \in 0..(RateLimit - 1)
      /\ reported \subseteq 1..stream
  BY <1>7 DEF NotificationInit
<1> QED
  BY <1>1, <1>2, <1>5, <1>6, <1>8 DEF NotificationTypeOK

\* The listeners that take an event put it into a queue that has room.
LEMMA NotifiedType ==
  ASSUME NotificationTypeOK, NEW event \in Kinds
  PROVE  /\ Notified(event) \in [Notifiers -> Notifier]
         /\ \A n \in Notifiers :
              /\ Len(Notified(event)[n].queue) <= QueueSize
              /\ \A f \in DOMAIN notifiers[n] \ {"queue"} : Notified(event)[n][f] = notifiers[n][f]
<1> SUFFICES ASSUME NEW n \in Notifiers
             PROVE  /\ Notified(event)[n] \in Notifier
                    /\ Len(Notified(event)[n].queue) <= QueueSize
                    /\ \A f \in DOMAIN notifiers[n] \ {"queue"} : Notified(event)[n][f] = notifiers[n][f]
  BY DEF Notified
<1>1. CASE event \in Routes[n] /\ Len(notifiers[n].queue) < QueueSize
  <2> DEFINE q == Append(notifiers[n].queue, event)
  <2>1. q \in Seq(Kinds) /\ Len(q) = Len(notifiers[n].queue) + 1
    BY NotifierType
  <2>2. Notified(event)[n] = [notifiers[n] EXCEPT !.queue = q]
    BY <1>1 DEF Notified
  <2> HIDE DEF q
  <2>3. [notifiers[n] EXCEPT !.queue = q] \in Notifier
    BY <2>1, NotifierType DEF Notifier
  <2>4. [notifiers[n] EXCEPT !.queue = q].queue = q
    BY NotifierType DEF Notifier
  <2>5. \A f \in DOMAIN notifiers[n] \ {"queue"} : [notifiers[n] EXCEPT !.queue = q][f] = notifiers[n][f]
    BY NotifierType DEF Notifier
  <2>6. Len(q) <= QueueSize
    BY <1>1, <2>1, NotifierType
  <2> QED
    BY <2>2, <2>3, <2>4, <2>5, <2>6
<1>2. CASE ~(event \in Routes[n] /\ Len(notifiers[n].queue) < QueueSize)
  BY <1>2, NotifierType DEF Notified
<1> QED
  BY <1>1, <1>2

LEMMA LaterType == ASSUME NEW bound \in Nat \ {0}, NEW n \in 0..(bound - 1) PROVE Later(n, bound) \in 0..(bound - 1)
  BY DEF Later

LEMMA OlderType ==
  ASSUME NEW s \in [1..4 -> 0..RateLimit]
  PROVE  /\ Older(s) \in [1..4 -> 0..RateLimit]
         /\ \A i \in 1..4 : Older(s)[i] = IF s[i] = RateLimit THEN RateLimit ELSE s[i] + 1
<1>1. \A i \in 1..4 : s[i] \in 0..RateLimit
  OBVIOUS
<1> QED
  BY <1>1 DEF Older

LEMMA OneSentType ==
  ASSUME NEW s \in [1..4 -> 0..RateLimit]
  PROVE  /\ OneSent(s) \in [1..4 -> 0..RateLimit]
         /\ OneSent(s)[1] = 0 /\ OneSent(s)[2] = s[1] /\ OneSent(s)[3] = s[2] /\ OneSent(s)[4] = s[3]
<1>1. \A i \in 1..4 : i # 1 => s[i - 1] \in 0..RateLimit
  OBVIOUS
<1> QED
  BY <1>1 DEF OneSent

\* What sending leaves of a notifier: its queue and its ticks.
LEMMA SendType ==
  ASSUME NEW m \in Notifier
  PROVE  /\ Send(m) \in Notifier
         /\ Send(m).queue = m.queue /\ Send(m).waiting = m.waiting /\ Send(m).tick = m.tick
         /\ Send(m).limit = m.limit
         /\ Send(m).sent = IF BelowLimit(m) THEN OneSent(m.sent) ELSE m.sent
<1> DEFINE s == OneSent(m.sent)
           today == IF m.limit = 0 THEN 0 ELSE m.sentToday + 1
<1>1. s \in [1..4 -> 0..RateLimit] /\ today \in Nat
  <2>1. m.sent \in [1..4 -> 0..RateLimit] /\ m.sentToday \in Nat
    BY DEF Notifier
  <2>2. s \in [1..4 -> 0..RateLimit]
    BY <2>1, OneSentType
  <2> QED
    BY <2>1, <2>2
<1> DEFINE c == IF m.today THEN m.count + 1 ELSE 1
<1>2. c \in Nat
  BY DEF Notifier
<1>3. CountedToday(m) = IF m.limit = 0 THEN m ELSE [m EXCEPT !.today = TRUE, !.count = c]
  BY DEF CountedToday
<1> HIDE DEF c
<1>4. /\ CountedToday(m) \in Notifier
      /\ CountedToday(m).queue = m.queue /\ CountedToday(m).waiting = m.waiting
      /\ CountedToday(m).tick = m.tick /\ CountedToday(m).limit = m.limit
      /\ CountedToday(m).sent = m.sent /\ CountedToday(m).sentToday = m.sentToday
  <2>1. CASE m.limit = 0
    BY <2>1, <1>3
  <2>2. CASE m.limit # 0
    <3>1. CountedToday(m) = [m EXCEPT !.today = TRUE, !.count = c]
      BY <1>3, <2>2
    <3> QED
      BY <3>1, <1>2 DEF Notifier
  <2> QED
    BY <2>1, <2>2
<1>5. Send(m) = IF BelowLimit(m) THEN [CountedToday(m) EXCEPT !.sent = s, !.sentToday = today] ELSE m
  BY <1>4 DEF Send, Notifier
<1> HIDE DEF s, today
<1>6. /\ [CountedToday(m) EXCEPT !.sent = s, !.sentToday = today] \in Notifier
      /\ [CountedToday(m) EXCEPT !.sent = s, !.sentToday = today].sent = s
  BY <1>1, <1>4 DEF Notifier
<1> QED
  BY <1>4, <1>5, <1>6 DEF s, Notifier

\* One callback goes on, as one that runs or as one that is over.
LEMMA CallbacksType ==
  ASSUME NotificationTypeOK, NEW h \in Handlers, NEW g \in {Idle} \cup Handling,
         handlers' = [handlers EXCEPT ![h] = g]
  PROVE  handlers' \in [Handlers -> {Idle} \cup Handling]
  BY DEF NotificationTypeOK

LEMMA ChangeType ==
  ASSUME NotificationTypeOK, NEW hash \in Hashes, Change(hash)
  PROVE  NotificationTypeOK'
<1>1. PICK value \in BOOLEAN :
        /\ redis' = [redis EXCEPT ![hash] = value]
        /\ handlers' = [h \in Handlers |-> IF h \notin Active THEN Idle
                          ELSE [handlers[h] EXCEPT !.seen = @ \cup {<<hash, value>>}]]
  BY DEF Change
<1>2. ASSUME NEW h \in Active
      PROVE  [handlers[h] EXCEPT !.seen = @ \cup {<<hash, value>>}] \in Handling
  <2> DEFINE seen == handlers[h].seen \cup {<<hash, value>>}
  <2>1. seen \in SUBSET (Hashes \X BOOLEAN)
    BY <1>2, CallbackType
  <2> HIDE DEF seen
  <2>2. [handlers[h] EXCEPT !.seen = seen] \in Handling
    <3>1. handlers[h] \in Handling
      BY <1>2, CallbackType
    <3> QED
      BY <2>1, <3>1 DEF Handling
  <2> QED
    BY <2>2 DEF seen
<1>3. handlers' \in [Handlers -> {Idle} \cup Handling]
  BY <1>1, <1>2
<1>4. setup' \in [limit : Nat, watched : BOOLEAN, changes : Nat, faults : Nat]
  <2>1. setup.changes - 1 \in Nat
    <3>1. setup.changes \in Nat /\ setup.changes > 0
      BY DEF Change, NotificationTypeOK
    <3> QED
      BY <3>1
  <2> QED
    BY <2>1 DEF Change, NotificationTypeOK
<1>5. redis' \in [Hashes -> BOOLEAN] /\ notified' \subseteq Hashes
  BY <1>1 DEF Change, NotificationTypeOK
<1> QED
  BY <1>3, <1>4, <1>5 DEF Change, NotificationTypeOK, rules, faults

LEMMA TickType ==
  ASSUME NotificationTypeOK, Tick
  PROVE  /\ NotificationTypeOK'
         /\ \A n \in Notifiers :
              /\ notifiers'[n].tick = (notifiers[n].tick \/ phase' = 0)
              /\ notifiers'[n].today = (notifiers[n].today /\ clock' # 1)
              /\ notifiers'[n].sent = Older(notifiers[n].sent)
              /\ notifiers'[n].sentToday = IF clock' = 1 THEN 0 ELSE notifiers[n].sentToday
              /\ \A f \in {"queue", "waiting", "limit", "count"} : notifiers'[n][f] = notifiers[n][f]
<1>1. ASSUME NEW n \in Notifiers
      PROVE  /\ notifiers'[n] \in Notifier
             /\ notifiers'[n].tick = (notifiers[n].tick \/ phase' = 0)
             /\ notifiers'[n].today = (notifiers[n].today /\ clock' # 1)
             /\ notifiers'[n].sent = Older(notifiers[n].sent)
             /\ notifiers'[n].sentToday = IF clock' = 1 THEN 0 ELSE notifiers[n].sentToday
             /\ \A f \in {"queue", "waiting", "limit", "count"} : notifiers'[n][f] = notifiers[n][f]
  <2> DEFINE tick == notifiers[n].tick \/ phase' = 0
             today == notifiers[n].today /\ clock' # 1
             sent == Older(notifiers[n].sent)
             sentToday == IF clock' = 1 THEN 0 ELSE notifiers[n].sentToday
  <2>1. tick \in BOOLEAN /\ today \in BOOLEAN /\ sentToday \in Nat
    BY NotifierType
  <2>2. sent \in [1..4 -> 0..RateLimit]
    BY NotifierType, OlderType
  <2>3. notifiers'[n] = [notifiers[n] EXCEPT !.tick = tick, !.today = today, !.sent = sent,
                                             !.sentToday = sentToday]
    BY DEF Tick
  <2> HIDE DEF tick, today, sent, sentToday
  <2>4. /\ notifiers'[n] \in Notifier
        /\ notifiers'[n].tick = tick /\ notifiers'[n].today = today
        /\ notifiers'[n].sent = sent /\ notifiers'[n].sentToday = sentToday
        /\ \A f \in {"queue", "waiting", "limit", "count"} : notifiers'[n][f] = notifiers[n][f]
    BY <2>1, <2>2, <2>3, NotifierType DEF Notifier
  <2> QED
    BY <2>4 DEF tick, today, sent, sentToday
<1>2. notifiers' \in [Notifiers -> Notifier]
  <2>1. notifiers' = [n \in Notifiers |-> notifiers'[n]]
    BY DEF Tick
  <2> QED
    BY <1>1, <2>1
<1>3. \A n \in Notifiers : Len(notifiers'[n].queue) <= QueueSize
  BY <1>1 DEF NotificationTypeOK
<1>4. clock' \in 0..(Day - 1) /\ phase' \in 0..(RateLimit - 1)
  BY LaterType DEF Tick, NotificationTypeOK
<1>5. cooling' \in [Rules -> 0..Cooldown] /\ fired' \in [Rules -> 0..Cooldown]
  <2>1. ASSUME NEW r \in Rules
        PROVE  /\ (IF cooling[r] = 0 THEN 0 ELSE cooling[r] - 1) \in 0..Cooldown
               /\ (IF fired[r] = Cooldown THEN Cooldown ELSE fired[r] + 1) \in 0..Cooldown
    <3>1. cooling[r] \in 0..Cooldown /\ fired[r] \in 0..Cooldown
      BY DEF NotificationTypeOK
    <3> QED
      BY <3>1
  <2> QED
    BY <2>1 DEF Tick
<1> QED
  BY <1>1, <1>2, <1>3, <1>4, <1>5 DEF Tick, NotificationTypeOK, faults

LEMMA ProcessQueueType ==
  ASSUME NotificationTypeOK, NEW n \in Notifiers, ProcessQueue(n)
  PROVE  /\ NotificationTypeOK'
         /\ \A m \in Notifiers \ {n} : notifiers'[m] = notifiers[m]
         /\ \A f \in {"tick", "limit", "count", "today", "sent", "sentToday"} :
              notifiers'[n][f] = Send(notifiers[n])[f]
         /\ notifiers'[n].waiting = TRUE
<1> DEFINE q == Tail(notifiers[n].queue)
<1>1. q \in Seq(Kinds) /\ Len(q) <= QueueSize
  BY NotifierType DEF ProcessQueue
<1>2. Send(notifiers[n]) \in Notifier /\ Send(notifiers[n]).queue = notifiers[n].queue
  BY NotifierType, SendType
<1>3. notifiers' = [notifiers EXCEPT ![n] = [Send(notifiers[n]) EXCEPT !.queue = q, !.waiting = TRUE]]
  BY <1>2 DEF ProcessQueue
<1> HIDE DEF q
<1>4. /\ [Send(notifiers[n]) EXCEPT !.queue = q, !.waiting = TRUE] \in Notifier
      /\ [Send(notifiers[n]) EXCEPT !.queue = q, !.waiting = TRUE].queue = q
      /\ [Send(notifiers[n]) EXCEPT !.queue = q, !.waiting = TRUE].waiting = TRUE
      /\ \A f \in {"tick", "limit", "count", "today", "sent", "sentToday"} :
           [Send(notifiers[n]) EXCEPT !.queue = q, !.waiting = TRUE][f] = Send(notifiers[n])[f]
  BY <1>1, <1>2 DEF Notifier
<1>5. notifiers' \in [Notifiers -> Notifier] /\ \A m \in Notifiers \ {n} : notifiers'[m] = notifiers[m]
  BY <1>3, <1>4 DEF NotificationTypeOK
<1>6. notifiers'[n] = [Send(notifiers[n]) EXCEPT !.queue = q, !.waiting = TRUE]
  BY <1>3 DEF NotificationTypeOK
<1>7. \A m \in Notifiers : Len(notifiers'[m].queue) <= QueueSize
  <2>1. \A m \in Notifiers \ {n} : Len(notifiers'[m].queue) <= QueueSize
    BY <1>5 DEF NotificationTypeOK
  <2>2. notifiers'[n].queue = q
    BY <1>4, <1>6
  <2> QED
    BY <1>1, <2>1, <2>2
<1> QED
  BY <1>4, <1>5, <1>6, <1>7 DEF ProcessQueue, NotificationTypeOK, world, rules, faults

LEMMA WaitedType ==
  ASSUME NotificationTypeOK, NEW n \in Notifiers, Waited(n)
  PROVE  /\ NotificationTypeOK'
         /\ \A m \in Notifiers \ {n} : notifiers'[m] = notifiers[m]
         /\ \A f \in {"limit", "count", "today", "sent", "sentToday"} : notifiers'[n][f] = notifiers[n][f]
         /\ notifiers'[n].waiting = FALSE /\ notifiers'[n].tick = FALSE
<1>1. notifiers' = [notifiers EXCEPT ![n] = [notifiers[n] EXCEPT !.waiting = FALSE, !.tick = FALSE]]
  BY DEF Waited, NotificationTypeOK
<1>2. /\ [notifiers[n] EXCEPT !.waiting = FALSE, !.tick = FALSE] \in Notifier
      /\ [notifiers[n] EXCEPT !.waiting = FALSE, !.tick = FALSE].waiting = FALSE
      /\ [notifiers[n] EXCEPT !.waiting = FALSE, !.tick = FALSE].tick = FALSE
      /\ \A f \in {"queue", "limit", "count", "today", "sent", "sentToday"} :
           [notifiers[n] EXCEPT !.waiting = FALSE, !.tick = FALSE][f] = notifiers[n][f]
  BY NotifierType DEF Notifier
<1>3. notifiers' \in [Notifiers -> Notifier] /\ \A m \in Notifiers \ {n} : notifiers'[m] = notifiers[m]
  BY <1>1, <1>2 DEF NotificationTypeOK
<1>4. notifiers'[n] = [notifiers[n] EXCEPT !.waiting = FALSE, !.tick = FALSE]
  BY <1>1 DEF NotificationTypeOK
<1>5. \A m \in Notifiers : Len(notifiers'[m].queue) <= QueueSize
  BY <1>2, <1>3, <1>4 DEF NotificationTypeOK
<1> QED
  BY <1>2, <1>3, <1>4, <1>5 DEF Waited, NotificationTypeOK, world, rules, faults

\* FanOut(h, hash) starts a callback that has not looked at anything yet.
LEMMA FanOutType ==
  ASSUME NotificationTypeOK, NEW h \in Handlers, NEW hash \in Hashes, FanOut(h, hash)
  PROVE  /\ NotificationTypeOK'
         /\ handlers'[h].hash = hash /\ handlers'[h].value = redis[hash]
         /\ handlers'[h].rule = None /\ handlers'[h].found = <<>>
         /\ handlers'[h].seen = {<<k, redis[k]>> : k \in Hashes}
<1> DEFINE g == [stage |-> "check", hash |-> hash, value |-> redis[hash], events |-> <<>>, left |-> {},
                 rule |-> None, reads |-> {}, found |-> <<>>, seen |-> {<<k, redis[k]>> : k \in Hashes},
                 crossed |-> {}]
<1>1. \A k \in Hashes : redis[k] \in BOOLEAN
  BY DEF NotificationTypeOK
<1>2. {<<k, redis[k]>> : k \in Hashes} \in SUBSET (Hashes \X BOOLEAN)
  BY <1>1
<1>3. g \in Handling
  BY <1>1, <1>2 DEF Handling
<1>4. handlers' = [handlers EXCEPT ![h] = g]
  BY DEF FanOut
<1>5. /\ g.hash = hash /\ g.value = redis[hash] /\ g.rule = None /\ g.found = <<>>
      /\ g.seen = {<<k, redis[k]>> : k \in Hashes}
  OBVIOUS
<1> HIDE DEF g
<1>6. handlers' \in [Handlers -> {Idle} \cup Handling] /\ handlers'[h] = g
  BY <1>3, <1>4, CallbacksType DEF NotificationTypeOK
<1>7. notified' \subseteq Hashes
  BY DEF FanOut, NotificationTypeOK
<1> QED
  BY <1>5, <1>6, <1>7 DEF FanOut, NotificationTypeOK, rules, faults

\* What the checks before a rule leave of a callback.
LEMMA CheckType ==
  ASSUME NotificationTypeOK, NEW h \in Handlers, Check(h)
  PROVE  /\ NotificationTypeOK' /\ h \in Active
         /\ \A f \in {"hash", "value", "rule", "reads", "found", "seen", "crossed"} :
              handlers'[h][f] = handlers[h][f]
<1>1. h \in Active
  BY DEF Check, Active
<1> DEFINE g == handlers[h]
           value == IF g.hash \in Reread THEN redis[g.hash] ELSE g.value
<1>2. g.hash \in Hashes /\ value \in BOOLEAN
  BY <1>1, CallbackType DEF NotificationTypeOK
<1>3. PICK moved \in BOOLEAN, works \in BOOLEAN :
        /\ lastState' = IF works THEN [lastState EXCEPT ![g.hash] = value] ELSE lastState
        /\ handlers' = [handlers EXCEPT ![h] =
             [g EXCEPT !.stage = "hash", !.left = HashRules(g.hash),
                       !.events = IF works /\ IsEvent(g.hash, value, moved) THEN <<g.hash>> ELSE <<>>]]
  BY DEF Check
<1> DEFINE e == IF works /\ IsEvent(g.hash, value, moved) THEN <<g.hash>> ELSE <<>>
           left == HashRules(g.hash)
           next == [g EXCEPT !.stage = "hash", !.left = left, !.events = e]
<1>4. e \in Seq(Kinds)
  <2>1. g.hash \in Kinds
    BY <1>2 DEF Kinds
  <2> QED
    BY <2>1
<1>5. left \in SUBSET Rules
  BY DEF HashRules
<1>6. handlers' = [handlers EXCEPT ![h] = next]
  BY <1>3
<1>7. lastState' \in [Hashes -> BOOLEAN]
  BY <1>2, <1>3 DEF NotificationTypeOK
<1> HIDE DEF e, left, value
<1>8. /\ next \in Handling
      /\ \A f \in {"hash", "value", "rule", "reads", "found", "seen", "crossed"} : next[f] = g[f]
  <2>1. g \in Handling
    BY <1>1, CallbackType
  <2> HIDE DEF g
  <2>2. next \in Handling
    BY <1>4, <1>5, <2>1 DEF Handling
  <2>3. \A f \in {"hash", "value", "rule", "reads", "found", "seen", "crossed"} : next[f] = g[f]
    BY <2>1 DEF Handling
  <2> QED
    BY <2>2, <2>3
<1> HIDE DEF next, g
<1>9. handlers' \in [Handlers -> {Idle} \cup Handling] /\ handlers'[h] = next
  BY <1>6, <1>8, CallbacksType DEF NotificationTypeOK
<1> QED
  BY <1>1, <1>7, <1>8, <1>9 DEF Check, NotificationTypeOK, world, rules, faults, g

LEMMA SendEventType ==
  ASSUME NotificationTypeOK, NEW h \in Handlers, SendEvent(h)
  PROVE  /\ NotificationTypeOK'
         /\ \A f \in {"stage", "hash", "value", "left", "rule", "reads", "found", "seen", "crossed"} :
              handlers'[h][f] = handlers[h][f]
<1> DEFINE g == handlers[h]
           e == Tail(g.events)
           next == [g EXCEPT !.events = e]
<1>1. h \in Active
  BY DEF SendEvent
<1>2. g.events \in Seq(Kinds) /\ g.events # <<>>
  BY <1>1, CallbackType DEF SendEvent
<1>3. e \in Seq(Kinds) /\ Head(g.events) \in Kinds
  BY <1>2, HeadTailProperties
<1>4. handlers' = [handlers EXCEPT ![h] = next]
  BY DEF SendEvent
<1>5. notifiers' \in [Notifiers -> Notifier] /\ \A n \in Notifiers : Len(notifiers'[n].queue) <= QueueSize
  BY <1>3, NotifiedType DEF SendEvent
<1> HIDE DEF e
<1>6. /\ next \in Handling
      /\ \A f \in {"stage", "hash", "value", "left", "rule", "reads", "found", "seen", "crossed"} :
           next[f] = g[f]
  <2>1. g \in Handling
    BY <1>1, CallbackType
  <2> HIDE DEF g
  <2>2. next \in Handling
    BY <1>3, <2>1 DEF Handling
  <2>3. \A f \in {"stage", "hash", "value", "left", "rule", "reads", "found", "seen", "crossed"} :
          next[f] = g[f]
    BY <2>1 DEF Handling
  <2> QED
    BY <2>2, <2>3
<1> HIDE DEF next, g
<1>7. handlers' \in [Handlers -> {Idle} \cup Handling] /\ handlers'[h] = next
  BY <1>4, <1>6, CallbacksType DEF NotificationTypeOK
<1> QED
  BY <1>5, <1>6, <1>7 DEF SendEvent, NotificationTypeOK, world, rules, faults, g

LEMMA NextRuleType ==
  ASSUME NotificationTypeOK, NEW h \in Handlers, NextRule(h)
  PROVE  /\ NotificationTypeOK'
         /\ \A f \in {"stage", "hash", "value", "found", "seen", "crossed"} :
              handlers'[h][f] = handlers[h][f]
         /\ \/ handlers'[h].rule = None
            \/ \E r \in Rules : CooldownOK(r) /\ handlers'[h].rule = r /\ handlers'[h].reads = DOMAIN Needs[r]
<1> DEFINE g == handlers[h]
<1>1. h \in Active
  BY DEF NextRule
<1>2. PICK r \in g.left :
        handlers' = [handlers EXCEPT ![h] =
          [g EXCEPT !.left = @ \ {r},
                    !.rule = IF CooldownOK(r) THEN r ELSE None,
                    !.reads = IF CooldownOK(r) THEN DOMAIN Needs[r] ELSE {}]]
  BY DEF NextRule
<1>3. r \in Rules
  BY <1>1, CallbackType
<1> DEFINE left == g.left \ {r}
           rule == IF CooldownOK(r) THEN r ELSE None
           reads == IF CooldownOK(r) THEN DOMAIN Needs[r] ELSE {}
           next == [g EXCEPT !.left = left, !.rule = rule, !.reads = reads]
<1>4. left \in SUBSET Rules /\ rule \in Rules \cup {None} /\ reads \in SUBSET Hashes
  BY <1>1, <1>3, CallbackType
<1>5. handlers' = [handlers EXCEPT ![h] = next]
  BY <1>2
<1>6. rule = None \/ (CooldownOK(r) /\ rule = r /\ reads = DOMAIN Needs[r])
  OBVIOUS
<1> HIDE DEF left, rule, reads
<1>7. /\ next \in Handling /\ next.rule = rule /\ next.reads = reads
      /\ \A f \in {"stage", "hash", "value", "found", "seen", "crossed"} : next[f] = g[f]
  <2>1. g \in Handling
    BY <1>1, CallbackType
  <2> HIDE DEF g
  <2>2. next \in Handling
    BY <1>4, <2>1 DEF Handling
  <2>3. next.rule = rule /\ next.reads = reads
    BY <2>1 DEF Handling
  <2>4. \A f \in {"stage", "hash", "value", "found", "seen", "crossed"} : next[f] = g[f]
    BY <2>1 DEF Handling
  <2> QED
    BY <2>2, <2>3, <2>4
<1> HIDE DEF next, g
<1>8. handlers' \in [Handlers -> {Idle} \cup Handling] /\ handlers'[h] = next
  BY <1>5, <1>7, CallbacksType DEF NotificationTypeOK
<1> QED
  BY <1>3, <1>6, <1>7, <1>8 DEF NextRule, NotificationTypeOK, world, rules, faults, g

LEMMA ReadConditionType ==
  ASSUME NotificationTypeOK, NEW h \in Handlers, ReadCondition(h)
  PROVE  /\ NotificationTypeOK'
         /\ \A f \in {"stage", "hash", "value", "found", "seen", "crossed"} :
              handlers'[h][f] = handlers[h][f]
         /\ \/ handlers'[h].rule = None
            \/ \E c \in Hashes, works \in BOOLEAN :
                 /\ Met(handlers[h], c, works) /\ handlers'[h].rule = handlers[h].rule
                 /\ handlers'[h].reads = handlers[h].reads \ {c}
<1> DEFINE g == handlers[h]
<1>1. h \in Active
  BY DEF ReadCondition
<1>2. PICK c \in g.reads, works \in BOOLEAN :
        handlers' = [handlers EXCEPT ![h] =
          IF Met(g, c, works) THEN [g EXCEPT !.reads = @ \ {c}]
          ELSE [g EXCEPT !.rule = None, !.reads = {}]]
  BY DEF ReadCondition
<1>3. c \in Hashes
  BY <1>1, CallbackType
<1> DEFINE reads == g.reads \ {c}
           met == [g EXCEPT !.reads = reads]
           unmet == [g EXCEPT !.rule = None, !.reads = {}]
           next == IF Met(g, c, works) THEN met ELSE unmet
<1>4. reads \in SUBSET Hashes
  BY <1>1, CallbackType
<1>5. handlers' = [handlers EXCEPT ![h] = next]
  BY <1>2
<1> HIDE DEF reads
<1>6. /\ met \in Handling /\ met.rule = g.rule /\ met.reads = reads
      /\ \A f \in {"stage", "hash", "value", "found", "seen", "crossed"} : met[f] = g[f]
  <2>1. g \in Handling
    BY <1>1, CallbackType
  <2> HIDE DEF g
  <2>2. met \in Handling /\ met.rule = g.rule /\ met.reads = reads
    BY <1>4, <2>1 DEF Handling
  <2>3. \A f \in {"stage", "hash", "value", "found", "seen", "crossed"} : met[f] = g[f]
    BY <2>1 DEF Handling
  <2> QED
    BY <2>2, <2>3
<1>7. /\ unmet \in Handling /\ unmet.rule = None
      /\ \A f \in {"stage", "hash", "value", "found", "seen", "crossed"} : unmet[f] = g[f]
  <2>1. g \in Handling
    BY <1>1, CallbackType
  <2> HIDE DEF g
  <2>2. unmet \in Handling /\ unmet.rule = None
    BY <2>1 DEF Handling
  <2>3. \A f \in {"stage", "hash", "value", "found", "seen", "crossed"} : unmet[f] = g[f]
    BY <2>1 DEF Handling
  <2> QED
    BY <2>2, <2>3
<1> HIDE DEF met, unmet
<1>8. next \in Handling
  BY <1>6, <1>7
<1>9. handlers' \in [Handlers -> {Idle} \cup Handling] /\ handlers'[h] = next
  <2> HIDE DEF next, g
  <2> QED
    BY <1>5, <1>8, CallbacksType DEF NotificationTypeOK
<1>10. \A f \in {"stage", "hash", "value", "found", "seen", "crossed"} : next[f] = g[f]
  BY <1>6, <1>7
<1>11. next.rule = None \/ (Met(g, c, works) /\ next.rule = g.rule /\ next.reads = g.reads \ {c})
  BY <1>6, <1>7 DEF reads
<1> HIDE DEF next
<1> QED
  BY <1>3, <1>9, <1>10, <1>11 DEF ReadCondition, NotificationTypeOK, world, rules, faults

\* One rule fires, and the other callbacks that run remember it.
LEMMA FireType ==
  ASSUME NotificationTypeOK, NEW h \in Handlers, Fire(h)
  PROVE  /\ NotificationTypeOK' /\ Active' = Active /\ h \in Active
         /\ handlers[h].rule \in Rules /\ handlers[h].reads = {}
         /\ \A k \in Active, f \in {"stage", "hash", "value", "reads", "seen"} :
              handlers'[k][f] = handlers[k][f]
         /\ handlers'[h].rule = None /\ handlers'[h].found = Append(handlers[h].found, handlers[h].rule)
         /\ \A k \in Active \ {h} :
              /\ handlers'[k].rule = handlers[k].rule /\ handlers'[k].found = handlers[k].found
              /\ handlers'[k].crossed = handlers[k].crossed \cup {handlers[h].rule}
<1> DEFINE r == handlers[h].rule
<1>1. h \in Active /\ r \in Rules /\ handlers[h].reads = {}
  BY CallbackType DEF Fire
<1>2. /\ handlers' = [k \in Handlers |->
             IF k = h THEN [handlers[k] EXCEPT !.rule = None, !.found = Append(@, r)]
             ELSE IF k \notin Active THEN Idle
             ELSE [handlers[k] EXCEPT !.crossed = @ \cup {r}]]
      /\ cooling' = [cooling EXCEPT ![r] = Cooldown]
      /\ fired' = [fired EXCEPT ![r] = 0]
  BY DEF Fire, RecordFired
<1> HIDE DEF r
<1>3. /\ handlers'[h] \in Handling /\ handlers'[h].rule = None
      /\ handlers'[h].found = Append(handlers[h].found, r)
      /\ \A f \in {"stage", "hash", "value", "reads", "seen"} : handlers'[h][f] = handlers[h][f]
  <2> DEFINE found == Append(handlers[h].found, r)
  <2>1. found \in Seq(Rules)
    BY <1>1, CallbackType
  <2>2. handlers'[h] = [handlers[h] EXCEPT !.rule = None, !.found = found]
    BY <1>1, <1>2
  <2> HIDE DEF found
  <2>3. handlers[h] \in Handling
    BY <1>1, CallbackType
  <2>4. handlers'[h] \in Handling /\ handlers'[h].rule = None /\ handlers'[h].found = found
    BY <2>1, <2>2, <2>3 DEF Handling
  <2>5. \A f \in {"stage", "hash", "value", "reads", "seen"} : handlers'[h][f] = handlers[h][f]
    BY <2>2, <2>3 DEF Handling
  <2> QED
    BY <2>4, <2>5 DEF found
<1>4. ASSUME NEW k \in Active \ {h}
      PROVE  /\ handlers'[k] \in Handling
             /\ handlers'[k].rule = handlers[k].rule /\ handlers'[k].found = handlers[k].found
             /\ handlers'[k].crossed = handlers[k].crossed \cup {r}
             /\ \A f \in {"stage", "hash", "value", "reads", "seen"} : handlers'[k][f] = handlers[k][f]
  <2> DEFINE crossed == handlers[k].crossed \cup {r}
  <2>1. crossed \in SUBSET Rules
    BY <1>1, CallbackType
  <2>2. handlers'[k] = [handlers[k] EXCEPT !.crossed = crossed]
    BY <1>2, CallbackType
  <2> HIDE DEF crossed
  <2>3. handlers[k] \in Handling
    BY CallbackType
  <2>4. handlers'[k] \in Handling /\ handlers'[k].crossed = crossed
    BY <2>1, <2>2, <2>3 DEF Handling
  <2>5. handlers'[k].rule = handlers[k].rule /\ handlers'[k].found = handlers[k].found
    BY <2>2, <2>3 DEF Handling
  <2>6. \A f \in {"stage", "hash", "value", "reads", "seen"} : handlers'[k][f] = handlers[k][f]
    BY <2>2, <2>3 DEF Handling
  <2> QED
    BY <2>4, <2>5, <2>6 DEF crossed
<1>5. ASSUME NEW k \in Handlers \ Active
      PROVE  handlers'[k] = Idle
  BY <1>1, <1>2
<1>6. handlers' \in [Handlers -> {Idle} \cup Handling]
  <2>1. \A k \in Handlers : handlers'[k] \in {Idle} \cup Handling
    BY <1>3, <1>4, <1>5
  <2>2. handlers' = [k \in Handlers |-> handlers'[k]]
    BY <1>2
  <2> QED
    BY <2>1, <2>2
<1>7. Active' = Active
  BY <1>3, <1>4, <1>5, RunningType DEF Active, Idle
<1>8. cooling' \in [Rules -> 0..Cooldown] /\ fired' \in [Rules -> 0..Cooldown]
  <2>1. 0 \in 0..Cooldown /\ Cooldown \in 0..Cooldown
    OBVIOUS
  <2> QED
    BY <1>2, <2>1 DEF NotificationTypeOK
<1>9. \A k \in Active, f \in {"stage", "hash", "value", "reads", "seen"} : handlers'[k][f] = handlers[k][f]
  BY <1>3, <1>4
<1>10. NotificationTypeOK'
  BY <1>6, <1>8 DEF Fire, NotificationTypeOK, world, faults
<1> QED
  BY <1>1, <1>3, <1>4, <1>7, <1>9, <1>10 DEF r

LEMMA EvaluatedType ==
  ASSUME NotificationTypeOK, NEW h \in Handlers, Evaluated(h)
  PROVE  /\ NotificationTypeOK'
         /\ handlers'[h].found = <<>> /\ handlers'[h].rule = None
         /\ \A f \in {"hash", "value", "seen", "crossed"} : handlers'[h][f] = handlers[h][f]
<1> DEFINE g == handlers[h]
<1>1. h \in Active /\ g.rule = None
  BY DEF Evaluated
<1>2. g.found \in Seq(Kinds)
  BY <1>1, CallbackType DEF Kinds
<1>3. PICK stage \in {"message", "done"}, left \in SUBSET Rules :
        handlers' = [handlers EXCEPT ![h] =
          [g EXCEPT !.stage = stage, !.left = left, !.events = g.found, !.found = <<>>]]
  <2> DEFINE next == [g EXCEPT !.events = g.found, !.found = <<>>]
  <2>1. \A stage, left :
           [next EXCEPT !.stage = stage, !.left = left]
             = [g EXCEPT !.stage = stage, !.left = left, !.events = g.found, !.found = <<>>]
    OBVIOUS
  <2>2. [next EXCEPT !.stage = "done"]
          = [g EXCEPT !.stage = "done", !.left = g.left, !.events = g.found, !.found = <<>>]
    BY <1>1, CallbackType DEF Handling
  <2>3. CASE g.stage = "hash"
    <3>1. PICK waiting \in {{}, ChannelRules(g.hash)} :
            handlers' = [handlers EXCEPT ![h] = [next EXCEPT !.stage = "message", !.left = waiting]]
      BY <2>3 DEF Evaluated
    <3>2. waiting \in SUBSET Rules
      BY <3>1 DEF ChannelRules
    <3>3. [next EXCEPT !.stage = "message", !.left = waiting]
            = [g EXCEPT !.stage = "message", !.left = waiting, !.events = g.found, !.found = <<>>]
      BY <2>1
    <3> HIDE DEF next, g
    <3>4. handlers' = [handlers EXCEPT ![h] =
            [g EXCEPT !.stage = "message", !.left = waiting, !.events = g.found, !.found = <<>>]]
      BY <3>1, <3>3
    <3> QED
      BY <3>2, <3>4
  <2>4. CASE g.stage # "hash"
    <3>1. handlers' = [handlers EXCEPT ![h] = [next EXCEPT !.stage = "done"]]
      BY <2>4 DEF Evaluated
    <3>2. g.left \in SUBSET Rules
      BY <1>1, CallbackType
    <3> HIDE DEF next, g
    <3> QED
      BY <2>2, <3>1, <3>2
  <2> QED
    BY <2>3, <2>4
<1> DEFINE next == [g EXCEPT !.stage = stage, !.left = left, !.events = g.found, !.found = <<>>]
<1>4. /\ next \in Handling /\ next.found = <<>> /\ next.rule = g.rule
      /\ \A f \in {"hash", "value", "seen", "crossed"} : next[f] = g[f]
  <2> DEFINE matches == g.found
  <2>1. <<>> \in Seq(Rules) /\ matches \in Seq(Kinds)
    BY <1>2
  <2> HIDE DEF matches
  <2>2. next = [g EXCEPT !.stage = stage, !.left = left, !.events = matches, !.found = <<>>]
    BY DEF matches
  <2> HIDE DEF next
  <2>3. next \in Handling
    <3>1. g \in Handling
      BY <1>1, CallbackType
    <3>2. stage \in {"check", "hash", "message", "done"} /\ left \in SUBSET Rules
      BY <1>3
    <3> HIDE DEF g
    <3> QED
      BY <2>1, <2>2, <3>1, <3>2 DEF Handling
  <2>4. next.found = <<>> /\ next.rule = g.rule
    BY <1>1, <2>2, CallbackType DEF Handling
  <2>5. \A f \in {"hash", "value", "seen", "crossed"} : next[f] = g[f]
    BY <1>1, <2>2, CallbackType DEF Handling
  <2> QED
    BY <2>3, <2>4, <2>5
<1>5. handlers' = [handlers EXCEPT ![h] = next]
  BY <1>3
<1> HIDE DEF next, g
<1>6. handlers' \in [Handlers -> {Idle} \cup Handling] /\ handlers'[h] = next
  BY <1>4, <1>5, CallbacksType DEF NotificationTypeOK
<1> QED
  BY <1>1, <1>4, <1>6 DEF Evaluated, NotificationTypeOK, world, rules, faults, g

LEMMA HandledType ==
  ASSUME NotificationTypeOK, NEW h \in Handlers, Handled(h)
  PROVE  NotificationTypeOK' /\ handlers'[h] = Idle
<1>1. handlers' = [handlers EXCEPT ![h] = Idle]
  BY DEF Handled
<1>2. handlers' \in [Handlers -> {Idle} \cup Handling] /\ handlers'[h] = Idle
  BY <1>1, CallbacksType DEF NotificationTypeOK
<1> QED
  BY <1>2 DEF Handled, NotificationTypeOK, world, rules, faults

(***************************************************************************)
(* Notifications: the watch of the faults                                  *)
(***************************************************************************)

\* Where the watch stands: lastID is the last fault that was reported, and
\* what it reads or hands on begins right after it.
WatchKnows ==
  /\ watch.lastID = None => reported = {}
  /\ watch.lastID # None => watch.lastID \in reported /\ \A id \in reported : id <= watch.lastID
  /\ watch.at = "blocked" =>
       watch.from <= stream /\ (watch.lastID # None => watch.from = watch.lastID)
  /\ watch.at = "handling" =>
       /\ watch.from < watch.to /\ watch.to <= stream
       /\ watch.lastID # None => watch.from = watch.lastID

LEMMA WatchType ==
  ASSUME NotificationTypeOK
  PROVE  /\ watch.at \in {"off", "between", "blocked", "handling"}
         /\ watch.lastID \in Nat \cup {None} /\ watch.from \in Nat /\ watch.to \in Nat
         /\ stream \in Nat /\ reported \subseteq 1..stream
  BY DEF NotificationTypeOK

LEMMA AddFaultStep ==
  ASSUME NotificationTypeOK, WatchKnows, NoFaultSkipped, AddFault
  PROVE  NotificationTypeOK' /\ WatchKnows' /\ NoFaultSkipped'
<1>1. setup' \in [limit : Nat, watched : BOOLEAN, changes : Nat, faults : Nat]
  <2>1. setup.faults - 1 \in Nat
    <3>1. setup.faults \in Nat /\ setup.faults > 0
      BY DEF AddFault, NotificationTypeOK
    <3> QED
      BY <3>1
  <2> QED
    BY <2>1 DEF AddFault, NotificationTypeOK
<1>2. stream' \in Nat /\ reported' \subseteq 1..stream'
  BY WatchType DEF AddFault
<1>3. NotificationTypeOK'
  BY <1>1, <1>2 DEF AddFault, NotificationTypeOK, rules
<1>4. WatchKnows'
  BY WatchType DEF AddFault, WatchKnows
<1> QED
  BY <1>3, <1>4 DEF AddFault, NoFaultSkipped

LEMMA XReadStep ==
  ASSUME NotificationTypeOK, WatchKnows, NoFaultSkipped, XRead
  PROVE  NotificationTypeOK' /\ WatchKnows' /\ NoFaultSkipped'
<1> DEFINE from == IF watch.lastID = None THEN stream ELSE watch.lastID
<1>1. from \in Nat /\ from <= stream /\ (watch.lastID # None => from = watch.lastID)
  BY WatchType DEF WatchKnows
<1>2. watch' = [watch EXCEPT !.at = "blocked", !.from = from]
  BY DEF XRead
<1> HIDE DEF from
<1>3. /\ watch' \in [at : {"off", "between", "blocked", "handling"},
                      lastID : Nat \cup {None}, from : Nat, to : Nat]
      /\ watch'.at = "blocked" /\ watch'.from = from /\ watch'.lastID = watch.lastID
  BY <1>1, <1>2 DEF NotificationTypeOK
<1>4. NotificationTypeOK'
  BY <1>3 DEF XRead, NotificationTypeOK, world, rules
<1>5. WatchKnows'
  BY <1>1, <1>3 DEF XRead, WatchKnows
<1> QED
  BY <1>4, <1>5 DEF XRead, NoFaultSkipped

LEMMA XReadReturnsStep ==
  ASSUME NotificationTypeOK, WatchKnows, NoFaultSkipped, XReadReturns
  PROVE  NotificationTypeOK' /\ WatchKnows' /\ NoFaultSkipped'
<1>1. CASE stream > watch.from /\ watch' = [watch EXCEPT !.at = "handling", !.to = stream]
  <2>1. /\ watch' \in [at : {"off", "between", "blocked", "handling"},
                        lastID : Nat \cup {None}, from : Nat, to : Nat]
        /\ watch'.at = "handling" /\ watch'.to = stream /\ watch'.from = watch.from
        /\ watch'.lastID = watch.lastID
    BY <1>1 DEF NotificationTypeOK
  <2>2. NotificationTypeOK'
    BY <2>1 DEF XReadReturns, NotificationTypeOK, world, rules
  <2>3. WatchKnows'
    BY <1>1, <2>1, WatchType DEF XReadReturns, WatchKnows
  <2> QED
    BY <2>2, <2>3 DEF XReadReturns, NoFaultSkipped
<1>2. CASE watch' = NothingRead(watch)
  <2>1. /\ watch' \in [at : {"off", "between", "blocked", "handling"},
                        lastID : Nat \cup {None}, from : Nat, to : Nat]
        /\ watch'.at = "between" /\ watch'.lastID = watch.lastID
    BY <1>2 DEF NotificationTypeOK, NothingRead
  <2>2. NotificationTypeOK'
    BY <2>1 DEF XReadReturns, NotificationTypeOK, world, rules
  <2>3. WatchKnows'
    BY <2>1 DEF XReadReturns, WatchKnows
  <2> QED
    BY <2>2, <2>3 DEF XReadReturns, NoFaultSkipped
<1> QED
  BY <1>1, <1>2 DEF XReadReturns

\* The next fault is the one after lastID, or the first of all.
LEMMA HandleFaultMessageStep ==
  ASSUME NotificationTypeOK, WatchKnows, NoFaultSkipped, HandleFaultMessage
  PROVE  NotificationTypeOK' /\ WatchKnows' /\ NoFaultSkipped'
<1> DEFINE id == watch.from + 1
<1>1. /\ id \in 1..stream /\ id <= watch.to /\ watch.to <= stream
      /\ watch.lastID # None => id = watch.lastID + 1
  BY WatchType DEF HandleFaultMessage, WatchKnows
<1>2. /\ watch' = IF id = watch.to
                    THEN [at |-> "between", lastID |-> id, from |-> 0, to |-> 0]
                    ELSE [watch EXCEPT !.lastID = id, !.from = id]
      /\ reported' = reported \cup {id}
  BY DEF HandleFaultMessage
<1> HIDE DEF id
<1>3. /\ watch' \in [at : {"off", "between", "blocked", "handling"},
                      lastID : Nat \cup {None}, from : Nat, to : Nat]
      /\ watch'.lastID = id
      /\ \/ id = watch.to /\ watch'.at = "between"
         \/ id # watch.to /\ watch'.at = "handling" /\ watch'.from = id /\ watch'.to = watch.to
  <2>1. CASE id = watch.to
    BY <1>1, <1>2, <2>1
  <2>2. CASE id # watch.to
    <3>1. watch' = [watch EXCEPT !.lastID = id, !.from = id]
      BY <1>2, <2>2
    <3>2. id \in Nat /\ watch.at = "handling"
      BY <1>1 DEF HandleFaultMessage
    <3>3. watch \in [at : {"off", "between", "blocked", "handling"},
                     lastID : Nat \cup {None}, from : Nat, to : Nat]
      BY DEF NotificationTypeOK
    <3>4. /\ watch' \in [at : {"off", "between", "blocked", "handling"},
                          lastID : Nat \cup {None}, from : Nat, to : Nat]
          /\ watch'.at = watch.at /\ watch'.lastID = id /\ watch'.from = id /\ watch'.to = watch.to
      BY <3>1, <3>2, <3>3
    <3> QED
      BY <2>2, <3>2, <3>4
  <2> QED
    BY <2>1, <2>2
<1>4. Fault \in Kinds
  BY DEF Kinds
<1>5. notifiers' \in [Notifiers -> Notifier] /\ \A n \in Notifiers : Len(notifiers'[n].queue) <= QueueSize
  BY <1>4, NotifiedType DEF HandleFaultMessage
<1>6. reported' \subseteq 1..stream'
  BY <1>1, <1>2, WatchType DEF HandleFaultMessage
<1>7. NotificationTypeOK'
  BY <1>3, <1>5, <1>6 DEF HandleFaultMessage, NotificationTypeOK, world, rules
<1>8. \A k \in reported : k \in Nat /\ k < id
  <2>1. CASE watch.lastID = None
    BY <2>1 DEF WatchKnows
  <2>2. CASE watch.lastID # None
    BY <1>1, <2>2, WatchType DEF WatchKnows
  <2> QED
    BY <2>1, <2>2
<1>9. WatchKnows'
  <2>1. watch'.lastID # None /\ id \in Nat
    BY <1>1, <1>3
  <2>2. watch'.lastID \in reported' /\ \A k \in reported' : k <= watch'.lastID
    BY <1>1, <1>2, <1>3, <1>8
  <2>3. stream' = stream
    BY DEF HandleFaultMessage
  <2>4. CASE id = watch.to
    BY <1>3, <2>1, <2>2, <2>4 DEF WatchKnows
  <2>5. CASE id # watch.to
    <3>1. watch'.at = "handling" /\ watch'.from = id /\ watch'.to = watch.to
      BY <1>3, <2>5
    <3>2. id < watch.to
      BY <1>1, <2>5, WatchType
    <3> QED
      BY <1>1, <1>3, <2>1, <2>2, <2>3, <3>1, <3>2 DEF WatchKnows
  <2> QED
    BY <2>4, <2>5
<1>10. NoFaultSkipped'
  <2> SUFFICES ASSUME NEW first \in reported', NEW last \in reported', NEW k \in first..last
               PROVE  k \in reported'
    BY DEF NoFaultSkipped
  <2>1. CASE first \in reported /\ last \in reported
    BY <1>2, <2>1 DEF NoFaultSkipped
  <2>2. CASE first = id
    BY <1>1, <1>2, <1>8, <2>2
  <2>3. CASE first \in reported /\ last = id
    <3>1. watch.lastID \in reported /\ id = watch.lastID + 1
      BY <1>1, <2>3 DEF WatchKnows
    <3>2. first..watch.lastID \subseteq reported
      BY <2>3, <3>1 DEF NoFaultSkipped
    <3>3. first \in Nat /\ watch.lastID \in Nat /\ last = watch.lastID + 1
      BY <1>8, <2>3, <3>1
    <3>4. k \in first..last
      OBVIOUS
    <3>5. k \in first..watch.lastID \/ k = last
      BY <3>3, <3>4
    <3> QED
      BY <1>2, <2>3, <3>2, <3>5
  <2> QED
    BY <1>2, <2>1, <2>2, <2>3
<1> QED
  BY <1>7, <1>9, <1>10

\* The other actions leave the faults alone.
LEMMA FaultsElsewhere ==
  ASSUME WatchKnows, NoFaultSkipped, UNCHANGED faults
  PROVE  WatchKnows' /\ NoFaultSkipped'
  BY DEF WatchKnows, NoFaultSkipped, faults

LEMMA NotificationTypeStep ==
  NotificationTypeOK /\ WatchKnows /\ NoFaultSkipped /\ [NotificationNext]_notificationVars
    => NotificationTypeOK'
<1> SUFFICES ASSUME NotificationTypeOK, WatchKnows, NoFaultSkipped, [NotificationNext]_notificationVars
             PROVE  NotificationTypeOK'
  OBVIOUS
<1>1. CASE \E hash \in Hashes : Change(hash) \/ \E h \in Handlers : FanOut(h, hash)
  BY <1>1, ChangeType, FanOutType
<1>2. ASSUME NEW h \in Handlers,
             Check(h) \/ SendEvent(h) \/ NextRule(h) \/ ReadCondition(h) \/ Fire(h)
               \/ Evaluated(h) \/ Handled(h)
      PROVE  NotificationTypeOK'
  BY <1>2, CheckType, SendEventType, NextRuleType, ReadConditionType, FireType, EvaluatedType, HandledType
<1>3. CASE Tick
  BY <1>3, TickType
<1>4. CASE \E n \in Notifiers : ProcessQueue(n) \/ Waited(n)
  BY <1>4, ProcessQueueType, WaitedType
<1>5. CASE AddFault \/ XRead \/ XReadReturns \/ HandleFaultMessage
  BY <1>5, AddFaultStep, XReadStep, XReadReturnsStep, HandleFaultMessageStep
<1>6. CASE UNCHANGED notificationVars
  BY <1>6 DEF notificationVars, NotificationTypeOK
<1> QED
  BY <1>1, <1>2, <1>3, <1>4, <1>5, <1>6 DEF NotificationNext

\* The watch, in any step.
LEMMA FaultsStep ==
  NotificationTypeOK /\ WatchKnows /\ NoFaultSkipped /\ [NotificationNext]_notificationVars
    => WatchKnows' /\ NoFaultSkipped'
<1> SUFFICES ASSUME NotificationTypeOK, WatchKnows, NoFaultSkipped, [NotificationNext]_notificationVars
             PROVE  WatchKnows' /\ NoFaultSkipped'
  OBVIOUS
<1>1. CASE \E hash \in Hashes : Change(hash) \/ \E h \in Handlers : FanOut(h, hash)
  BY <1>1, FaultsElsewhere DEF Change, FanOut
<1>2. ASSUME NEW h \in Handlers,
             Check(h) \/ SendEvent(h) \/ NextRule(h) \/ ReadCondition(h) \/ Fire(h)
               \/ Evaluated(h) \/ Handled(h)
      PROVE  UNCHANGED faults
  BY <1>2 DEF Check, SendEvent, NextRule, ReadCondition, Fire, Evaluated, Handled
<1>3. CASE Tick
  BY <1>3, FaultsElsewhere DEF Tick
<1>4. CASE \E n \in Notifiers : ProcessQueue(n) \/ Waited(n)
  BY <1>4, FaultsElsewhere DEF ProcessQueue, Waited
<1>5. CASE AddFault \/ XRead \/ XReadReturns \/ HandleFaultMessage
  BY <1>5, AddFaultStep, XReadStep, XReadReturnsStep, HandleFaultMessageStep
<1>6. CASE UNCHANGED notificationVars
  BY <1>6, FaultsElsewhere DEF notificationVars, faults
<1> QED
  BY <1>1, <1>2, <1>3, <1>4, <1>5, <1>6, FaultsElsewhere DEF NotificationNext

(***************************************************************************)
(* Notifications: how often a notifier sends                               *)
(***************************************************************************)

\* How many messages a notifier may still send before the ticker fires.
Spare(m) == (IF m.waiting THEN 0 ELSE 1) + (IF m.tick THEN 1 ELSE 0)

\* With so many to spare: those sent since the ticker fired last, p ticks ago,
\* and the spare ones are at most two, and those of a whole period at most three.
Spaced(s, spare, p) ==
  /\ s[1] <= s[2] /\ s[2] <= s[3] /\ s[3] <= s[4]
  /\ p < s[3 - spare] /\ s[4 - spare] = RateLimit

\* The count is of today's messages, and within the limit.
Counting(m) ==
  m.limit > 0 =>
    /\ m.sentToday = IF m.today THEN m.count ELSE 0
    /\ m.today => m.count <= m.limit

RateKept == \A n \in Notifiers :
  /\ Spaced(notifiers[n].sent, Spare(notifiers[n]), phase)
  /\ Counting(notifiers[n])

LEMMA SpareType ==
  ASSUME NEW m \in Notifier
  PROVE  /\ Spare(m) \in 0..2
         /\ ~m.waiting => Spare(m) \in 1..2
         /\ ~m.tick => Spare(m) \in 0..1
  BY DEF Spare, Notifier

LEMMA SpacedOlder ==
  ASSUME NEW s \in [1..4 -> 0..RateLimit], NEW spare \in 0..2, NEW p \in 0..(RateLimit - 1),
         Spaced(s, spare, p)
  PROVE  /\ Spaced(Older(s), spare, Later(p, RateLimit))
         /\ Later(p, RateLimit) = 0 /\ spare \in 0..1 => Spaced(Older(s), spare + 1, 0)
<1> DEFINE o == Older(s)
<1>1. \A i \in 1..4 : /\ s[i] \in 0..RateLimit /\ o[i] \in 0..RateLimit
                      /\ o[i] = IF s[i] = RateLimit THEN RateLimit ELSE s[i] + 1
  BY OlderType
<1> HIDE DEF o
<1>2. s[1] <= s[2] /\ s[2] <= s[3] /\ s[3] <= s[4] /\ p < s[3 - spare] /\ s[4 - spare] = RateLimit
  BY DEF Spaced
<1>3. o[1] <= o[2] /\ o[2] <= o[3] /\ o[3] <= o[4]
  BY <1>1, <1>2
<1>4. 3 - spare \in 1..4 /\ 4 - spare \in 1..4
  OBVIOUS
<1>5. o[4 - spare] = RateLimit
  BY <1>1, <1>2, <1>4
<1>6. Later(p, RateLimit) < o[3 - spare]
  <2>1. CASE p + 1 = RateLimit
    BY <1>1, <1>4, <2>1 DEF Later
  <2>2. CASE p + 1 # RateLimit
    BY <1>1, <1>2, <1>4, <2>2 DEF Later
  <2> QED
    BY <2>1, <2>2
<1>7. ASSUME Later(p, RateLimit) = 0, spare \in 0..1
      PROVE  0 < o[2 - spare] /\ o[3 - spare] = RateLimit
  <2>1. p + 1 = RateLimit
    BY <1>7 DEF Later
  <2>2. 2 - spare \in 1..4 /\ 3 - spare \in 1..4
    BY <1>7
  <2>3. 0 < o[2 - spare]
    BY <1>1, <2>2
  <2>4. s[3 - spare] = RateLimit
    BY <1>1, <1>2, <2>1, <2>2
  <2> QED
    BY <1>1, <2>2, <2>3, <2>4
<1>8. 3 - (spare + 1) = 2 - spare /\ 4 - (spare + 1) = 3 - spare
  OBVIOUS
<1> QED
  BY <1>3, <1>5, <1>6, <1>7, <1>8 DEF Spaced, o

LEMMA SpacedSent ==
  ASSUME NEW s \in [1..4 -> 0..RateLimit], NEW spare \in 1..2, NEW p \in 0..(RateLimit - 1),
         Spaced(s, spare, p)
  PROVE  Spaced(OneSent(s), spare - 1, p) /\ Spaced(s, spare - 1, p)
<1> DEFINE o == OneSent(s)
<1>1. /\ s[1] \in 0..RateLimit /\ s[2] \in 0..RateLimit /\ s[3] \in 0..RateLimit /\ s[4] \in 0..RateLimit
      /\ o[1] = 0 /\ o[2] = s[1] /\ o[3] = s[2] /\ o[4] = s[3]
  BY OneSentType
<1> HIDE DEF o
<1>2. CASE spare = 1
  BY <1>1, <1>2 DEF Spaced, o
<1>3. CASE spare = 2
  BY <1>1, <1>3 DEF Spaced, o
<1> QED
  BY <1>2, <1>3

LEMMA SendCounting ==
  ASSUME NEW m \in Notifier, Counting(m)
  PROVE  Counting(Send(m))
<1> SUFFICES ASSUME Send(m).limit > 0
             PROVE  /\ Send(m).sentToday = IF Send(m).today THEN Send(m).count ELSE 0
                    /\ Send(m).today => Send(m).count <= Send(m).limit
  BY DEF Counting
<1>1. CASE ~BelowLimit(m)
  BY <1>1 DEF Counting, Send
<1>2. CASE BelowLimit(m)
  <2>1. m.limit > 0 /\ m.limit \in Nat /\ m.count \in Nat /\ m.sentToday \in Nat /\ m.today \in BOOLEAN
    BY SendType DEF Notifier
  <2> DEFINE s == OneSent(m.sent)
             c == IF m.today THEN m.count + 1 ELSE 1
  <2>2. CountedToday(m) = [m EXCEPT !.today = TRUE, !.count = c]
    BY <2>1 DEF CountedToday
  <2>3. CountedToday(m).sent = m.sent /\ CountedToday(m).sentToday = m.sentToday
    BY <2>2 DEF Notifier
  <2> DEFINE t == m.sentToday + 1
  <2>4. Send(m) = [CountedToday(m) EXCEPT !.sent = s, !.sentToday = t]
    <3>1. Send(m) = [CountedToday(m) EXCEPT !.sent = s, !.sentToday = IF m.limit = 0 THEN 0 ELSE t]
      BY <1>2, <2>3 DEF Send
    <3>2. m.limit # 0
      BY <2>1
    <3> QED
      BY <3>1, <3>2
  <2> HIDE DEF s, c, t
  <2>5. /\ Send(m).today = TRUE /\ Send(m).count = c /\ Send(m).sentToday = t
        /\ Send(m).limit = m.limit
    BY <2>2, <2>4 DEF Notifier
  <2> QED
    BY <1>2, <2>1, <2>5 DEF c, t, Counting, BelowLimit
<1> QED
  BY <1>1, <1>2

LEMMA RateInit == NotificationInit => RateKept
<1> SUFFICES ASSUME NotificationInit, NEW n \in Notifiers
             PROVE  /\ Spaced(notifiers[n].sent, Spare(notifiers[n]), phase)
                    /\ Counting(notifiers[n])
  BY DEF RateKept
<1>1. /\ notifiers[n].sent = [i \in 1..4 |-> RateLimit] /\ notifiers[n].waiting = FALSE
      /\ notifiers[n].tick = FALSE /\ notifiers[n].sentToday = 0 /\ notifiers[n].today = FALSE
      /\ phase = 0
  BY DEF NotificationInit
<1>2. Spare(notifiers[n]) = 1
  BY <1>1 DEF Spare
<1> QED
  BY <1>1, <1>2 DEF Spaced, Counting

\* Of another notifier nothing changes but what waits in its queue.
LEMMA RateElsewhere ==
  ASSUME NEW n, phase' = phase,
         Spaced(notifiers[n].sent, Spare(notifiers[n]), phase), Counting(notifiers[n]),
         \A f \in {"waiting", "tick", "limit", "count", "today", "sent", "sentToday"} :
           notifiers'[n][f] = notifiers[n][f]
  PROVE  /\ Spaced(notifiers'[n].sent, Spare(notifiers'[n]), phase')
         /\ Counting(notifiers'[n])
<1>1. /\ notifiers'[n].waiting = notifiers[n].waiting /\ notifiers'[n].tick = notifiers[n].tick
      /\ notifiers'[n].limit = notifiers[n].limit /\ notifiers'[n].count = notifiers[n].count
      /\ notifiers'[n].today = notifiers[n].today /\ notifiers'[n].sent = notifiers[n].sent
      /\ notifiers'[n].sentToday = notifiers[n].sentToday
  OBVIOUS
<1>2. Spare(notifiers'[n]) = Spare(notifiers[n])
  BY <1>1 DEF Spare
<1> QED
  BY <1>1, <1>2 DEF Counting

LEMMA RateStep ==
  NotificationTypeOK /\ RateKept /\ [NotificationNext]_notificationVars => RateKept'
<1> SUFFICES ASSUME NotificationTypeOK, RateKept, [NotificationNext]_notificationVars,
                    NEW n \in Notifiers
             PROVE  /\ Spaced(notifiers'[n].sent, Spare(notifiers'[n]), phase')
                    /\ Counting(notifiers'[n])
  BY DEF RateKept
<1>1. /\ Spaced(notifiers[n].sent, Spare(notifiers[n]), phase) /\ Counting(notifiers[n])
      /\ phase \in 0..(RateLimit - 1)
  BY DEF RateKept, NotificationTypeOK
<1>2. /\ notifiers[n] \in Notifier /\ notifiers[n].sent \in [1..4 -> 0..RateLimit]
      /\ notifiers[n].waiting \in BOOLEAN /\ notifiers[n].tick \in BOOLEAN
  BY NotifierType
<1>3. CASE phase' = phase /\ notifiers' = notifiers
  BY <1>1, <1>3
<1>4. ASSUME NEW event \in Kinds, notifiers' = Notified(event), phase' = phase
      PROVE  /\ Spaced(notifiers'[n].sent, Spare(notifiers'[n]), phase')
             /\ Counting(notifiers'[n])
  <2>1. \A f \in DOMAIN notifiers[n] \ {"queue"} : notifiers'[n][f] = notifiers[n][f]
    BY <1>4, NotifiedType
  <2>2. {"waiting", "tick", "limit", "count", "today", "sent", "sentToday"} \subseteq
          DOMAIN notifiers[n] \ {"queue"}
    BY <1>2 DEF Notifier
  <2> QED
    BY <1>1, <1>4, <2>1, <2>2, RateElsewhere
<1>5. ASSUME NEW h \in Handlers, SendEvent(h)
      PROVE  \E event \in Kinds : notifiers' = Notified(event) /\ phase' = phase
  <2>1. h \in Active /\ handlers[h].events # <<>>
    BY <1>5 DEF SendEvent
  <2>2. Head(handlers[h].events) \in Kinds
    BY <2>1, CallbackType, HeadTailProperties
  <2> QED
    BY <1>5, <2>2 DEF SendEvent, world
<1>6. CASE HandleFaultMessage
  <2>1. Fault \in Kinds
    BY DEF Kinds
  <2> QED
    BY <1>4, <1>6, <2>1 DEF HandleFaultMessage, world
<1>7. CASE Tick
  <2>1. /\ notifiers'[n].tick = (notifiers[n].tick \/ phase' = 0)
        /\ notifiers'[n].today = (notifiers[n].today /\ clock' # 1)
        /\ notifiers'[n].sent = Older(notifiers[n].sent)
        /\ notifiers'[n].sentToday = IF clock' = 1 THEN 0 ELSE notifiers[n].sentToday
        /\ notifiers'[n].waiting = notifiers[n].waiting
        /\ notifiers'[n].limit = notifiers[n].limit /\ notifiers'[n].count = notifiers[n].count
    BY <1>7, TickType
  <2>2. phase' = Later(phase, RateLimit)
    BY <1>7 DEF Tick
  <2>3. Counting(notifiers'[n])
    BY <1>1, <1>2, <2>1 DEF Counting, Notifier
  <2>4. CASE ~notifiers[n].tick /\ phase' = 0
    <3>1. notifiers[n].tick = FALSE /\ notifiers'[n].tick = TRUE
      BY <1>2, <2>1, <2>4
    <3>2. Spare(notifiers'[n]) = Spare(notifiers[n]) + 1 /\ Spare(notifiers[n]) \in 0..1
      BY <2>1, <3>1 DEF Spare
    <3>3. Spaced(Older(notifiers[n].sent), Spare(notifiers[n]) + 1, 0)
      <4> DEFINE spare == Spare(notifiers[n])
                 s == notifiers[n].sent
      <4>1. Spaced(s, spare, phase) /\ s \in [1..4 -> 0..RateLimit] /\ spare \in 0..1 /\ spare \in 0..2
        BY <1>1, <1>2, <3>2
      <4>2. Later(phase, RateLimit) = 0
        BY <2>2, <2>4
      <4> HIDE DEF spare, s
      <4>3. Spaced(Older(s), spare + 1, 0)
        BY <1>1, <4>1, <4>2, SpacedOlder
      <4> QED
        BY <4>3 DEF spare, s
    <3> QED
      BY <2>1, <2>3, <2>4, <3>2, <3>3
  <2>5. CASE notifiers[n].tick \/ phase' # 0
    <3>1. Spare(notifiers'[n]) = Spare(notifiers[n]) /\ Spare(notifiers[n]) \in 0..2
      BY <1>2, <2>1, <2>5 DEF Spare
    <3>2. Spaced(Older(notifiers[n].sent), Spare(notifiers[n]), phase')
      BY <1>1, <1>2, <2>2, <3>1, SpacedOlder
    <3> QED
      BY <2>1, <2>3, <3>1, <3>2
  <2> QED
    BY <1>2, <2>4, <2>5
<1>8. ASSUME NEW m \in Notifiers, ProcessQueue(m)
      PROVE  /\ Spaced(notifiers'[n].sent, Spare(notifiers'[n]), phase')
             /\ Counting(notifiers'[n])
  <2>1. phase' = phase
    BY <1>8 DEF ProcessQueue, world
  <2>2. CASE m # n
    <3>1. notifiers'[n] = notifiers[n]
      BY <1>8, <2>2, ProcessQueueType
    <3> QED
      BY <1>1, <2>1, <3>1
  <2>3. CASE m = n
    <3>1. /\ \A f \in {"tick", "limit", "count", "today", "sent", "sentToday"} :
               notifiers'[n][f] = Send(notifiers[n])[f]
          /\ notifiers'[n].waiting = TRUE
      BY <1>8, <2>3, ProcessQueueType
    <3>2. /\ notifiers'[n].tick = Send(notifiers[n]).tick /\ notifiers'[n].limit = Send(notifiers[n]).limit
          /\ notifiers'[n].count = Send(notifiers[n]).count /\ notifiers'[n].today = Send(notifiers[n]).today
          /\ notifiers'[n].sent = Send(notifiers[n]).sent
          /\ notifiers'[n].sentToday = Send(notifiers[n]).sentToday
      BY <3>1
    <3>3. Counting(notifiers'[n])
      BY <1>1, <1>2, <3>2, SendCounting DEF Counting
    <3>4. ~notifiers[n].waiting
      BY <1>8, <2>3 DEF ProcessQueue
    <3>5. Spare(notifiers'[n]) = Spare(notifiers[n]) - 1 /\ Spare(notifiers[n]) \in 1..2
      BY <1>2, <3>1, <3>2, <3>4, SendType, SpareType DEF Spare
    <3>6. notifiers'[n].sent \in {OneSent(notifiers[n].sent), notifiers[n].sent}
      BY <1>2, <3>2, SendType
    <3> QED
      BY <1>1, <1>2, <2>1, <3>3, <3>5, <3>6, SpacedSent
  <2> QED
    BY <2>2, <2>3
<1>9. ASSUME NEW m \in Notifiers, Waited(m)
      PROVE  /\ Spaced(notifiers'[n].sent, Spare(notifiers'[n]), phase')
             /\ Counting(notifiers'[n])
  <2>1. phase' = phase
    BY <1>9 DEF Waited, world
  <2>2. CASE m # n
    <3>1. notifiers'[n] = notifiers[n]
      BY <1>9, <2>2, WaitedType
    <3> QED
      BY <1>1, <2>1, <3>1
  <2>3. CASE m = n
    <3>1. /\ \A f \in {"limit", "count", "today", "sent", "sentToday"} : notifiers'[n][f] = notifiers[n][f]
          /\ notifiers'[n].waiting = FALSE /\ notifiers'[n].tick = FALSE
      BY <1>9, <2>3, WaitedType
    <3>2. /\ notifiers'[n].limit = notifiers[n].limit /\ notifiers'[n].count = notifiers[n].count
          /\ notifiers'[n].today = notifiers[n].today /\ notifiers'[n].sent = notifiers[n].sent
          /\ notifiers'[n].sentToday = notifiers[n].sentToday
      BY <3>1
    <3>3. notifiers[n].waiting /\ notifiers[n].tick
      BY <1>9, <2>3 DEF Waited
    <3>4. Spare(notifiers'[n]) = Spare(notifiers[n])
      BY <3>1, <3>3 DEF Spare
    <3> QED
      BY <1>1, <2>1, <3>2, <3>4 DEF Counting
  <2> QED
    BY <2>2, <2>3
<1>10. CASE \E hash \in Hashes : Change(hash) \/ \E h \in Handlers : FanOut(h, hash)
  BY <1>3, <1>10 DEF Change, FanOut
<1>11. ASSUME NEW h \in Handlers,
              Check(h) \/ NextRule(h) \/ ReadCondition(h) \/ Fire(h) \/ Evaluated(h) \/ Handled(h)
       PROVE  phase' = phase /\ notifiers' = notifiers
  BY <1>11 DEF Check, NextRule, ReadCondition, Fire, Evaluated, Handled, world
<1>12. CASE AddFault \/ XRead \/ XReadReturns
  BY <1>3, <1>12 DEF AddFault, XRead, XReadReturns, world
<1>13. CASE UNCHANGED notificationVars
  BY <1>3, <1>13 DEF notificationVars
<1> QED
  BY <1>3, <1>4, <1>5, <1>6, <1>7, <1>8, <1>9, <1>10, <1>11, <1>12, <1>13 DEF NotificationNext

LEMMA RateIsLimitedFromKept == NotificationTypeOK /\ RateKept => RateIsLimited
<1> SUFFICES ASSUME NotificationTypeOK, RateKept, NEW n \in Notifiers
             PROVE  /\ notifiers[n].sent[4] = RateLimit
                    /\ notifiers[n].limit > 0 => notifiers[n].sentToday <= notifiers[n].limit
  BY DEF RateIsLimited
<1> DEFINE s == notifiers[n].sent
           spare == Spare(notifiers[n])
<1>1. /\ notifiers[n] \in Notifier
      /\ s[1] \in 0..RateLimit /\ s[2] \in 0..RateLimit /\ s[3] \in 0..RateLimit /\ s[4] \in 0..RateLimit
  BY NotifierType
<1>2. spare \in 0..2
  BY <1>1, SpareType
<1>3. Spaced(s, spare, phase) /\ Counting(notifiers[n])
  BY DEF RateKept
<1>4. s[1] <= s[2] /\ s[2] <= s[3] /\ s[3] <= s[4] /\ s[4 - spare] = RateLimit
  BY <1>3 DEF Spaced
<1>5. s[4 - spare] = s[4] \/ s[4 - spare] = s[3] \/ s[4 - spare] = s[2]
  BY <1>2
<1>6. s[4] = RateLimit
  BY <1>1, <1>4, <1>5
<1>7. notifiers[n].limit > 0 => notifiers[n].sentToday <= notifiers[n].limit
  <2>1. notifiers[n].limit \in Nat
    BY NotifierType
  <2> QED
    BY <1>3, <2>1 DEF Counting
<1> QED
  BY <1>6, <1>7

(***************************************************************************)
(* Notifications: what a rule that fires has seen                          *)
(***************************************************************************)

\* What a callback has seen, while Redis holds what is held: what it handles,
\* what is held now, what the rule it evaluates has been found to need, and
\* all that the rules need that have fired.
SeenBy(g, held) ==
  /\ <<g.hash, g.value>> \in g.seen
  /\ \A k \in Hashes : <<k, held[k]>> \in g.seen
  /\ g.rule # None => \A c \in DOMAIN Needs[g.rule] \ g.reads : <<c, Needs[g.rule][c]>> \in g.seen
  /\ \A i \in DOMAIN g.found : \A c \in DOMAIN Needs[g.found[i]] : <<c, Needs[g.found[i]][c]>> \in g.seen

SeenKept == \A h \in Active : SeenBy(handlers[h], redis)

\* A step of one callback leaves the others alone.
LEMMA OneCallback ==
  ASSUME NotificationTypeOK, NEW h \in Handlers,
         \/ \E hash \in Hashes : FanOut(h, hash)
         \/ Check(h) \/ SendEvent(h) \/ NextRule(h) \/ ReadCondition(h) \/ Evaluated(h) \/ Handled(h)
  PROVE  /\ redis' = redis
         /\ \A k \in Handlers \ {h} : handlers'[k] = handlers[k] /\ (k \in Active' <=> k \in Active)
<1>1. redis' = redis
  BY DEF FanOut, Check, SendEvent, NextRule, ReadCondition, Evaluated, Handled, world
<1>2. \E g : handlers' = [handlers EXCEPT ![h] = g]
  <2>1. ASSUME NEW hash \in Hashes, FanOut(h, hash)
        PROVE  \E g : handlers' = [handlers EXCEPT ![h] = g]
    BY <2>1 DEF FanOut
  <2>2. CASE Check(h)
    BY <2>2 DEF Check
  <2>3. CASE SendEvent(h)
    BY <2>3 DEF SendEvent
  <2>4. CASE NextRule(h)
    BY <2>4 DEF NextRule
  <2>5. CASE ReadCondition(h)
    BY <2>5 DEF ReadCondition
  <2>6. CASE Evaluated(h)
    <3>1. CASE handlers[h].stage = "hash"
      BY <2>6, <3>1 DEF Evaluated
    <3>2. CASE handlers[h].stage # "hash"
      BY <2>6, <3>2 DEF Evaluated
    <3> QED
      BY <3>1, <3>2
  <2>7. CASE Handled(h)
    BY <2>7 DEF Handled
  <2> QED
    BY <2>1, <2>2, <2>3, <2>4, <2>5, <2>6, <2>7
<1>3. \A k \in Handlers \ {h} : handlers'[k] = handlers[k]
  BY <1>2 DEF NotificationTypeOK
<1> QED
  BY <1>1, <1>3 DEF Active

LEMMA SeenInit == NotificationInit => SeenKept
  BY DEF NotificationInit, SeenKept, Active, Idle

\* What comes true while a callback runs is seen by it.
LEMMA SeenChange ==
  ASSUME NotificationTypeOK, SeenKept, NEW hash \in Hashes, Change(hash)
  PROVE  SeenKept' /\ Active' = Active
         /\ \A h \in Active, f \in {"rule", "found", "crossed"} : handlers'[h][f] = handlers[h][f]
<1>1. PICK value \in BOOLEAN :
        /\ redis' = [redis EXCEPT ![hash] = value]
        /\ handlers' = [h \in Handlers |-> IF h \notin Active THEN Idle
                          ELSE [handlers[h] EXCEPT !.seen = @ \cup {<<hash, value>>}]]
  BY DEF Change
<1>2. ASSUME NEW h \in Active
      PROVE  /\ handlers'[h].seen = handlers[h].seen \cup {<<hash, value>>}
             /\ \A f \in {"stage", "hash", "value", "rule", "reads", "found", "crossed"} :
                  handlers'[h][f] = handlers[h][f]
  <2>1. handlers'[h] = [handlers[h] EXCEPT !.seen = handlers[h].seen \cup {<<hash, value>>}]
    BY <1>1, <1>2, CallbackType
  <2> QED
    BY <1>2, <2>1, CallbackType DEF Handling
<1>3. Active' = Active
  <2>1. \A h \in Active : h \in Handlers /\ handlers'[h].stage # "idle"
    BY <1>2, CallbackType, RunningType
  <2>2. \A h \in Handlers \ Active : handlers'[h] = Idle
    BY <1>1
  <2> QED
    BY <2>1, <2>2 DEF Active, Idle
<1>4. ASSUME NEW h \in Active
      PROVE  SeenBy(handlers'[h], redis')
  <2>1. /\ handlers'[h].hash = handlers[h].hash /\ handlers'[h].value = handlers[h].value
        /\ handlers'[h].rule = handlers[h].rule /\ handlers'[h].reads = handlers[h].reads
        /\ handlers'[h].found = handlers[h].found
        /\ handlers'[h].seen = handlers[h].seen \cup {<<hash, value>>}
    BY <1>2, <1>4
  <2>2. \A k \in Hashes : <<k, redis'[k]>> = <<hash, value>> \/ redis'[k] = redis[k]
    BY <1>1 DEF NotificationTypeOK
  <2>3. SeenBy(handlers[h], redis)
    BY <1>4 DEF SeenKept
  <2> QED
    BY <2>1, <2>2, <2>3 DEF SeenBy
<1> QED
  BY <1>2, <1>3, <1>4 DEF SeenKept

LEMMA SeenStep ==
  NotificationTypeOK /\ SeenKept /\ [NotificationNext]_notificationVars => SeenKept'
<1> SUFFICES ASSUME NotificationTypeOK, SeenKept, [NotificationNext]_notificationVars
             PROVE  SeenKept'
  OBVIOUS
<1>1. ASSUME NEW h \in Handlers,
             \/ \E hash \in Hashes : FanOut(h, hash)
             \/ Check(h) \/ SendEvent(h) \/ NextRule(h) \/ ReadCondition(h) \/ Evaluated(h) \/ Handled(h),
             h \in Active' => SeenBy(handlers'[h], redis')
      PROVE  SeenKept'
  <2>1. ASSUME NEW k \in Active'
        PROVE  SeenBy(handlers'[k], redis')
    <3>1. k \in Handlers
      BY <2>1 DEF Active
    <3>2. CASE k = h
      BY <1>1, <2>1, <3>2
    <3>3. CASE k # h
      <4>1. handlers'[k] = handlers[k] /\ k \in Active /\ redis' = redis
        BY <1>1, <2>1, <3>1, <3>3, OneCallback
      <4> QED
        BY <4>1 DEF SeenKept
    <3> QED
      BY <3>2, <3>3
  <2> QED
    BY <2>1 DEF SeenKept
<1>2. ASSUME NEW h \in Active
      PROVE  h \in Handlers /\ SeenBy(handlers[h], redis)
  BY DEF SeenKept, Active
<1>3. ASSUME NEW h \in Handlers, NEW hash \in Hashes, FanOut(h, hash)
      PROVE  SeenKept'
  <2>1. /\ handlers'[h].hash = hash /\ handlers'[h].value = redis[hash]
        /\ handlers'[h].rule = None /\ handlers'[h].found = <<>>
        /\ handlers'[h].seen = {<<k, redis[k]>> : k \in Hashes} /\ redis' = redis
    BY <1>3, FanOutType DEF FanOut
  <2>2. SeenBy(handlers'[h], redis')
    BY <2>1 DEF SeenBy
  <2> QED
    BY <1>1, <1>3, <2>2
<1>4. ASSUME NEW h \in Handlers, Check(h)
      PROVE  SeenKept'
  <2>1. /\ h \in Active /\ redis' = redis
        /\ handlers'[h].hash = handlers[h].hash /\ handlers'[h].value = handlers[h].value
        /\ handlers'[h].rule = handlers[h].rule /\ handlers'[h].reads = handlers[h].reads
        /\ handlers'[h].found = handlers[h].found /\ handlers'[h].seen = handlers[h].seen
    BY <1>4, CheckType DEF Check, world
  <2>2. SeenBy(handlers'[h], redis')
    BY <1>2, <2>1 DEF SeenBy
  <2> QED
    BY <1>1, <1>4, <2>2
<1>5. ASSUME NEW h \in Handlers, SendEvent(h)
      PROVE  SeenKept'
  <2>1. /\ h \in Active /\ redis' = redis
        /\ handlers'[h].hash = handlers[h].hash /\ handlers'[h].value = handlers[h].value
        /\ handlers'[h].rule = handlers[h].rule /\ handlers'[h].reads = handlers[h].reads
        /\ handlers'[h].found = handlers[h].found /\ handlers'[h].seen = handlers[h].seen
    BY <1>5, SendEventType DEF SendEvent, world
  <2>2. SeenBy(handlers'[h], redis')
    BY <1>2, <2>1 DEF SeenBy
  <2> QED
    BY <1>1, <1>5, <2>2
<1>6. ASSUME NEW h \in Handlers, NextRule(h)
      PROVE  SeenKept'
  <2>1. /\ h \in Active /\ redis' = redis
        /\ handlers'[h].hash = handlers[h].hash /\ handlers'[h].value = handlers[h].value
        /\ handlers'[h].found = handlers[h].found /\ handlers'[h].seen = handlers[h].seen
    BY <1>6, NextRuleType DEF NextRule, world
  <2>2. handlers'[h].rule # None => DOMAIN Needs[handlers'[h].rule] \ handlers'[h].reads = {}
    BY <1>6, NextRuleType
  <2>3. SeenBy(handlers'[h], redis')
    BY <1>2, <2>1, <2>2 DEF SeenBy
  <2> QED
    BY <1>1, <1>6, <2>3
<1>7. ASSUME NEW h \in Handlers, ReadCondition(h)
      PROVE  SeenKept'
  <2>1. /\ h \in Active /\ redis' = redis /\ handlers[h].rule # None
        /\ handlers'[h].hash = handlers[h].hash /\ handlers'[h].value = handlers[h].value
        /\ handlers'[h].found = handlers[h].found /\ handlers'[h].seen = handlers[h].seen
    BY <1>7, ReadConditionType DEF ReadCondition, world
  <2>2. SeenBy(handlers[h], redis)
    BY <1>2, <2>1
  <2>3. CASE handlers'[h].rule = None
    <3>1. SeenBy(handlers'[h], redis')
      BY <2>1, <2>2, <2>3 DEF SeenBy
    <3> QED
      BY <1>1, <1>7, <3>1
  <2>4. CASE handlers'[h].rule # None
    <3>1. PICK c \in Hashes, works \in BOOLEAN :
            /\ Met(handlers[h], c, works) /\ handlers'[h].rule = handlers[h].rule
            /\ handlers'[h].reads = handlers[h].reads \ {c}
      BY <1>7, <2>4, ReadConditionType
    <3>2. <<c, Needs[handlers[h].rule][c]>> \in handlers[h].seen
      BY <2>2, <3>1 DEF Met, SeenBy
    <3>3. SeenBy(handlers'[h], redis')
      BY <2>1, <2>2, <3>1, <3>2 DEF SeenBy
    <3> QED
      BY <1>1, <1>7, <3>3
  <2> QED
    BY <2>3, <2>4
<1>8. ASSUME NEW h \in Handlers, Fire(h)
      PROVE  SeenKept'
  <2>1. /\ Active' = Active /\ redis' = redis /\ h \in Active
        /\ handlers[h].rule \in Rules /\ handlers[h].reads = {}
    BY <1>8, FireType DEF Fire, world
  <2>2. ASSUME NEW k \in Active
        PROVE  /\ handlers'[k].hash = handlers[k].hash /\ handlers'[k].value = handlers[k].value
               /\ handlers'[k].reads = handlers[k].reads /\ handlers'[k].seen = handlers[k].seen
               /\ SeenBy(handlers[k], redis)
    BY <1>2, <1>8, <2>2, FireType
  <2>3. ASSUME NEW k \in Active \ {h}
        PROVE  SeenBy(handlers'[k], redis')
    <3>1. handlers'[k].rule = handlers[k].rule /\ handlers'[k].found = handlers[k].found
      BY <1>8, FireType
    <3> QED
      BY <2>1, <2>2, <3>1 DEF SeenBy
  <2>4. SeenBy(handlers'[h], redis')
    <3> DEFINE s == handlers[h].found
               r == handlers[h].rule
    <3>1. handlers'[h].rule = None /\ handlers'[h].found = Append(s, r)
      BY <1>8, FireType
    <3>2. s \in Seq(Rules) /\ r \in Rules /\ r # None
      BY <2>1, CallbackType
    <3>3. \A c \in DOMAIN Needs[r] : <<c, Needs[r][c]>> \in handlers[h].seen
      BY <2>1, <2>2, <3>2 DEF SeenBy
    <3>4. \A i \in DOMAIN s : \A c \in DOMAIN Needs[s[i]] : <<c, Needs[s[i]][c]>> \in handlers[h].seen
      BY <2>1, <2>2 DEF SeenBy
    <3> HIDE DEF s, r
    <3>5. \A i \in DOMAIN Append(s, r) : Append(s, r)[i] = r \/ (i \in DOMAIN s /\ Append(s, r)[i] = s[i])
      BY <3>2, AppendProperties
    <3>6. \A i \in DOMAIN Append(s, r) : \A c \in DOMAIN Needs[Append(s, r)[i]] :
            <<c, Needs[Append(s, r)[i]][c]>> \in handlers[h].seen
      BY <3>3, <3>4, <3>5
    <3> QED
      BY <2>1, <2>2, <3>1, <3>6 DEF SeenBy
  <2> QED
    BY <2>1, <2>3, <2>4 DEF SeenKept
<1>9. ASSUME NEW h \in Handlers, Evaluated(h)
      PROVE  SeenKept'
  <2>1. /\ h \in Active /\ redis' = redis /\ handlers'[h].rule = None /\ handlers'[h].found = <<>>
        /\ handlers'[h].hash = handlers[h].hash /\ handlers'[h].value = handlers[h].value
        /\ handlers'[h].seen = handlers[h].seen
    BY <1>9, EvaluatedType DEF Evaluated, world
  <2>2. SeenBy(handlers'[h], redis')
    BY <1>2, <2>1 DEF SeenBy
  <2> QED
    BY <1>1, <1>9, <2>2
<1>10. ASSUME NEW h \in Handlers, Handled(h)
       PROVE  SeenKept'
  <2>1. h \notin Active'
    BY <1>10, HandledType DEF Active, Idle
  <2> QED
    BY <1>1, <1>10, <2>1
<1>11. CASE UNCHANGED <<handlers, redis>>
  BY <1>11 DEF SeenKept, Active
<1>12. CASE \/ Tick \/ (\E n \in Notifiers : ProcessQueue(n) \/ Waited(n))
            \/ AddFault \/ XRead \/ XReadReturns \/ HandleFaultMessage \/ UNCHANGED notificationVars
  BY <1>11, <1>12 DEF Tick, ProcessQueue, Waited, AddFault, XRead, XReadReturns, HandleFaultMessage,
                      world, notificationVars
<1> QED
  BY <1>3, <1>4, <1>5, <1>6, <1>7, <1>8, <1>9, <1>10, <1>12, SeenChange DEF NotificationNext

LEMMA ConditionsHeldFromSeen == SeenKept => ConditionsHeld
  BY DEF SeenKept, SeenBy, ConditionsHeld

(***************************************************************************)
(* Notifications: cooldowns                                                *)
(***************************************************************************)

\* The cooldown still to go and the time since a rule fired make up a whole
\* one.  A rule that is being evaluated was free when it was taken up: if it
\* has fired since, the callback that evaluates it has been running then.
CooldownKnown ==
  /\ \A r \in Rules : cooling[r] + fired[r] = Cooldown
  /\ \A h \in Active : handlers[h].rule # None =>
       fired[handlers[h].rule] = Cooldown \/ handlers[h].rule \in handlers[h].crossed

LEMMA CooldownInit == NotificationInit => CooldownKnown
  BY DEF NotificationInit, CooldownKnown, Active, Idle

LEMMA CooldownElsewhere ==
  ASSUME NotificationTypeOK, CooldownKnown, UNCHANGED rules,
         \A h \in Active' : handlers'[h].rule # None =>
           fired[handlers'[h].rule] = Cooldown \/ handlers'[h].rule \in handlers'[h].crossed
  PROVE  CooldownKnown'
  BY DEF CooldownKnown, rules

LEMMA CooldownStep ==
  NotificationTypeOK /\ SeenKept /\ CooldownKnown /\ [NotificationNext]_notificationVars => CooldownKnown'
<1> SUFFICES ASSUME NotificationTypeOK, SeenKept, CooldownKnown, [NotificationNext]_notificationVars
             PROVE  CooldownKnown'
  OBVIOUS
<1>1. ASSUME NEW h \in Handlers,
             \/ \E hash \in Hashes : FanOut(h, hash)
             \/ Check(h) \/ SendEvent(h) \/ NextRule(h) \/ ReadCondition(h) \/ Evaluated(h) \/ Handled(h),
             h \in Active' /\ handlers'[h].rule # None =>
               fired[handlers'[h].rule] = Cooldown \/ handlers'[h].rule \in handlers'[h].crossed
      PROVE  CooldownKnown'
  <2>1. UNCHANGED rules
    BY <1>1 DEF FanOut, Check, SendEvent, NextRule, ReadCondition, Evaluated, Handled
  <2>2. ASSUME NEW k \in Active', handlers'[k].rule # None
        PROVE  fired[handlers'[k].rule] = Cooldown \/ handlers'[k].rule \in handlers'[k].crossed
    <3>1. k \in Handlers
      BY <2>2 DEF Active
    <3>2. CASE k = h
      BY <1>1, <2>2, <3>2
    <3>3. CASE k # h
      <4>1. handlers'[k] = handlers[k] /\ k \in Active
        BY <1>1, <2>2, <3>1, <3>3, OneCallback
      <4> QED
        BY <2>2, <4>1 DEF CooldownKnown
    <3> QED
      BY <3>2, <3>3
  <2> QED
    BY <2>1, <2>2, CooldownElsewhere
<1>2. ASSUME NEW h \in Handlers, NEW hash \in Hashes, FanOut(h, hash)
      PROVE  CooldownKnown'
  BY <1>1, <1>2, FanOutType
<1>3. ASSUME NEW h \in Handlers, Check(h) \/ SendEvent(h)
      PROVE  CooldownKnown'
  <2>1. h \in Active /\ handlers'[h].rule = handlers[h].rule /\ handlers'[h].crossed = handlers[h].crossed
    BY <1>3, CheckType, SendEventType DEF SendEvent
  <2> QED
    BY <1>1, <1>3, <2>1 DEF CooldownKnown
<1>4. ASSUME NEW h \in Handlers, NextRule(h)
      PROVE  CooldownKnown'
  <2>1. \/ handlers'[h].rule = None
        \/ handlers'[h].rule \in Rules /\ cooling[handlers'[h].rule] = 0
    BY <1>4, NextRuleType DEF CooldownOK
  <2>2. \A r \in Rules : cooling[r] = 0 => fired[r] = Cooldown
    BY DEF CooldownKnown, NotificationTypeOK
  <2> QED
    BY <1>1, <1>4, <2>1, <2>2
<1>5. ASSUME NEW h \in Handlers, ReadCondition(h)
      PROVE  CooldownKnown'
  <2>1. /\ h \in Active /\ handlers'[h].crossed = handlers[h].crossed
        /\ handlers'[h].rule = None \/ handlers'[h].rule = handlers[h].rule
    BY <1>5, ReadConditionType DEF ReadCondition
  <2> QED
    BY <1>1, <1>5, <2>1 DEF CooldownKnown
<1>6. ASSUME NEW h \in Handlers, Fire(h)
      PROVE  CooldownKnown'
  <2> DEFINE r == handlers[h].rule
  <2>1. /\ Active' = Active /\ h \in Active /\ r \in Rules /\ handlers'[h].rule = None
        /\ \A k \in Active \ {h} : /\ handlers'[k].rule = handlers[k].rule
                                   /\ handlers'[k].crossed = handlers[k].crossed \cup {r}
    BY <1>6, FireType
  <2>2. cooling' = [cooling EXCEPT ![r] = Cooldown] /\ fired' = [fired EXCEPT ![r] = 0]
    BY <1>6 DEF Fire, RecordFired
  <2> HIDE DEF r
  <2>3. \A s \in Rules : cooling'[s] + fired'[s] = Cooldown
    <3>1. Cooldown + 0 = Cooldown
      OBVIOUS
    <3>2. cooling'[r] = Cooldown /\ fired'[r] = 0
      BY <2>1, <2>2 DEF NotificationTypeOK
    <3>3. \A s \in Rules \ {r} : cooling'[s] = cooling[s] /\ fired'[s] = fired[s]
      BY <2>2 DEF NotificationTypeOK
    <3> QED
      BY <3>1, <3>2, <3>3 DEF CooldownKnown
  <2>4. ASSUME NEW k \in Active, handlers'[k].rule # None
        PROVE  fired'[handlers'[k].rule] = Cooldown \/ handlers'[k].rule \in handlers'[k].crossed
    <3>1. k # h
      BY <2>1, <2>4
    <3>2. handlers'[k].rule = handlers[k].rule /\ handlers'[k].crossed = handlers[k].crossed \cup {r}
      BY <2>1, <3>1
    <3>3. handlers[k].rule \in Rules
      BY <2>4, <3>2, CallbackType
    <3>4. handlers[k].rule # r => fired'[handlers[k].rule] = fired[handlers[k].rule]
      BY <2>2, <3>3 DEF NotificationTypeOK
    <3> QED
      BY <2>4, <3>2, <3>4 DEF CooldownKnown
  <2> QED
    BY <2>1, <2>3, <2>4 DEF CooldownKnown
<1>7. ASSUME NEW h \in Handlers, Evaluated(h)
      PROVE  CooldownKnown'
  BY <1>1, <1>7, EvaluatedType
<1>8. ASSUME NEW h \in Handlers, Handled(h)
      PROVE  CooldownKnown'
  <2>1. h \notin Active'
    BY <1>8, HandledType DEF Active, Idle
  <2> QED
    BY <1>1, <1>8, <2>1
<1>9. ASSUME NEW hash \in Hashes, Change(hash)
      PROVE  CooldownKnown'
  <2>1. /\ Active' = Active /\ UNCHANGED rules
        /\ \A h \in Active : /\ handlers'[h].rule = handlers[h].rule
                            /\ handlers'[h].crossed = handlers[h].crossed
    BY <1>9, SeenChange DEF Change
  <2> QED
    BY <2>1, CooldownElsewhere DEF CooldownKnown
<1>10. CASE Tick
  <2>1. ASSUME NEW r \in Rules
        PROVE  cooling'[r] + fired'[r] = Cooldown /\ (fired[r] = Cooldown => fired'[r] = Cooldown)
    <3>1. /\ cooling[r] \in 0..Cooldown /\ fired[r] \in 0..Cooldown
          /\ cooling[r] + fired[r] = Cooldown
      BY DEF NotificationTypeOK, CooldownKnown
    <3>2. /\ cooling'[r] = IF cooling[r] = 0 THEN 0 ELSE cooling[r] - 1
          /\ fired'[r] = IF fired[r] = Cooldown THEN Cooldown ELSE fired[r] + 1
      BY <1>10 DEF Tick
    <3> QED
      BY <3>1, <3>2
  <2>2. handlers' = handlers
    BY <1>10 DEF Tick
  <2>3. \A h \in Active : handlers[h].rule # None => handlers[h].rule \in Rules
    BY CallbackType
  <2> QED
    BY <2>1, <2>2, <2>3 DEF CooldownKnown, Active
<1>11. CASE UNCHANGED <<handlers, rules>>
  BY <1>11 DEF CooldownKnown, Active, rules
<1>12. CASE \/ (\E n \in Notifiers : ProcessQueue(n) \/ Waited(n))
            \/ AddFault \/ XRead \/ XReadReturns \/ HandleFaultMessage \/ UNCHANGED notificationVars
  BY <1>11, <1>12 DEF ProcessQueue, Waited, AddFault, XRead, XReadReturns, HandleFaultMessage,
                      notificationVars, rules
<1> QED
  BY <1>2, <1>3, <1>4, <1>5, <1>6, <1>7, <1>8, <1>9, <1>10, <1>12 DEF NotificationNext

\* Only Fire makes what a callback has found any longer, and by its own rule.
LEMMA FiresOnly ==
  ASSUME NotificationTypeOK, SeenKept, [NotificationNext]_notificationVars,
         NEW h \in Handlers, NEW r \in Rules, Fires(h, r)
  PROVE  Fire(h) /\ handlers[h].rule = r
<1>1. /\ h \in Active /\ handlers[h].found \in Seq(Rules) /\ handlers'[h] # Idle
      /\ handlers'[h].found = Append(handlers[h].found, r)
  BY CallbackType DEF Fires
<1>2. handlers'[h].found # handlers[h].found /\ handlers'[h].found # <<>>
  <2> DEFINE s == handlers[h].found
  <2>1. s \in Seq(Rules) /\ Len(Append(s, r)) = Len(s) + 1 /\ Len(s) \in Nat
    BY <1>1, AppendProperties
  <2> HIDE DEF s
  <2>2. Len(Append(s, r)) # Len(s) /\ Len(Append(s, r)) # 0
    BY <2>1
  <2>3. Len(<<>>) = 0
    OBVIOUS
  <2>4. Append(s, r) # s /\ Append(s, r) # <<>>
    BY <2>2, <2>3, Zenon
  <2> QED
    BY <1>1, <2>4 DEF s
<1>3. ASSUME NEW k \in Handlers,
             \/ \E hash \in Hashes : FanOut(k, hash)
             \/ Check(k) \/ SendEvent(k) \/ NextRule(k) \/ ReadCondition(k) \/ Evaluated(k) \/ Handled(k)
      PROVE  FALSE
  <2>1. k = h
    BY <1>1, <1>2, <1>3, OneCallback
  <2>2. \A hash \in Hashes : ~FanOut(h, hash)
    BY <1>1 DEF FanOut
  <2>3. ~Check(h) /\ ~SendEvent(h) /\ ~NextRule(h) /\ ~ReadCondition(h)
    BY <1>2, CheckType, SendEventType, NextRuleType, ReadConditionType
  <2>4. ~Evaluated(h) /\ ~Handled(h)
    BY <1>1, <1>2, EvaluatedType, HandledType
  <2> QED
    BY <1>3, <2>1, <2>2, <2>3, <2>4
<1>4. ASSUME NEW hash \in Hashes, Change(hash)
      PROVE  FALSE
  BY <1>1, <1>2, <1>4, SeenChange
<1>5. handlers' # handlers
  BY <1>2
<1>6. ~(\/ Tick \/ (\E n \in Notifiers : ProcessQueue(n) \/ Waited(n))
        \/ AddFault \/ XRead \/ XReadReturns \/ HandleFaultMessage \/ UNCHANGED notificationVars)
  BY <1>5 DEF Tick, ProcessQueue, Waited, AddFault, XRead, XReadReturns, HandleFaultMessage, notificationVars
<1>7. PICK k \in Handlers : Fire(k)
  BY <1>3, <1>4, <1>6 DEF NotificationNext
<1>8. k = h
  BY <1>1, <1>2, <1>7, FireType
<1>9. handlers'[h].found = Append(handlers[h].found, handlers[h].rule) /\ handlers[h].rule \in Rules
  BY <1>7, <1>8, FireType
<1>10. handlers[h].rule = r
  <2> DEFINE s == handlers[h].found
             q == handlers[h].rule
  <2>1. s \in Seq(Rules) /\ q \in Rules /\ Append(s, q) = Append(s, r)
    BY <1>1, <1>9
  <2> HIDE DEF s, q
  <2>2. Append(s, q)[Len(s) + 1] = q /\ Append(s, r)[Len(s) + 1] = r
    BY <2>1, AppendProperties
  <2> QED
    BY <2>1, <2>2 DEF q
<1> QED
  BY <1>7, <1>8, <1>10

(***************************************************************************)
(* Notifications: the invariant                                            *)
(***************************************************************************)

NotificationInv ==
  /\ NotificationTypeOK
  /\ WatchKnows
  /\ NoFaultSkipped
  /\ RateKept
  /\ SeenKept
  /\ CooldownKnown

LEMMA NotificationInvInit == NotificationInit => NotificationInv
<1>1. NotificationInit => WatchKnows /\ NoFaultSkipped
  BY DEF NotificationInit, WatchKnows, NoFaultSkipped
<1> QED
  BY <1>1, NotificationTypeInit, RateInit, SeenInit, CooldownInit DEF NotificationInv

LEMMA NotificationInvStep == NotificationInv /\ [NotificationNext]_notificationVars => NotificationInv'
  BY NotificationTypeStep, FaultsStep, RateStep, SeenStep, CooldownStep DEF NotificationInv

\* Notifications, in every state: the types of its state, where the watch of
\* the faults stands, what each notifier may still send, what each callback
\* has seen, and which cooldowns it has crossed.
THEOREM NotificationInvHolds == NotificationSpec => []NotificationInv
  BY NotificationInvInit, NotificationInvStep, PTL DEF NotificationSpec

\* Whatever changes and fails while the conditions of a rule are read one by
\* one, each was met at some moment since the hash was read.
THEOREM ConditionsSeen == NotificationSpec => []ConditionsHeld
<1>1. NotificationInv => ConditionsHeld
  BY ConditionsHeldFromSeen DEF NotificationInv
<1> QED
  BY <1>1, NotificationInvHolds, PTL

\* However the queue and the ticker of a notifier take turns, four messages
\* take longer than its period, and no day has more than its limit.
THEOREM RateLimited == NotificationSpec => []RateIsLimited
<1>1. NotificationInv => RateIsLimited
  BY RateIsLimitedFromKept DEF NotificationInv
<1> QED
  BY <1>1, NotificationInvHolds, PTL

\* The faults that were reported have no gap, however often reading them takes
\* too long or fails.
THEOREM FaultsContiguous == NotificationSpec => []NoFaultSkipped
<1>1. NotificationInv => NoFaultSkipped
  BY DEF NotificationInv
<1> QED
  BY <1>1, NotificationInvHolds, PTL

\* A rule fires again within its cooldown only in a callback that was running
\* when it fired before.
THEOREM CooldownsKept == NotificationSpec => CooldownKept
<1>1. ASSUME NotificationInv, [NotificationNext]_notificationVars,
             NEW h \in Handlers, NEW r \in Rules, Fires(h, r)
      PROVE  fired[r] = Cooldown \/ r \in handlers[h].crossed
  <2>1. Fire(h) /\ handlers[h].rule = r
    BY <1>1, FiresOnly DEF NotificationInv
  <2>2. h \in Active /\ r # None
    BY <2>1 DEF Fire
  <2> QED
    BY <1>1, <2>1, <2>2 DEF NotificationInv, CooldownKnown
<1>2. NotificationInv /\ [NotificationNext]_notificationVars =>
        \A h \in Handlers, r \in Rules :
          Fires(h, r) => fired[r] = Cooldown \/ r \in handlers[h].crossed
  BY <1>1
<1> QED
  BY <1>2, NotificationInvHolds, PTL DEF NotificationSpec, CooldownKept
=============================================================================
