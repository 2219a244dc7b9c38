----------------------------- MODULE TxnProofs -----------------------------
(***************************************************************************)
(* Proofs about Txn, for every set of versions, every set of setups and    *)
(* every bound.                                                            *)
(***************************************************************************)
EXTENDS Txn, TLAPS

\* The initial values have their types.
LEMMA InitType == Init => TypeOK
<1> SUFFICES ASSUME Init PROVE TypeOK
  OBVIOUS
<1>1. setup \in Setups
  BY DEF Init
<1>2. live \in [File -> Content]
  BY DEF Init, Content
<1>3. staging \in [File -> Version \cup {None}] /\ lkg \in [File -> Content]
  BY DEF Init, Content
<1>4. linked \in BOOLEAN /\ pending \in Marker \cup {NoPending}
  BY DEF Init
<1>5. phase \in Phase /\ todo \in SUBSET File /\ trash \in SUBSET (Area \X File) /\ next \in Phase
  BY DEF Init, Phase
<1>6. NoTxn \in Txn
  BY DEF NoTxn, Txn, Outcome, Content
<1>7. txn \in Txn /\ approved \in [File -> Content] \cup {NoPair}
  BY <1>6 DEF Init
<1>8. promise \in [File -> Content \cup {Unknown}] /\ runs \in Nat /\ writes \in Nat
  BY <1>2 DEF Init
<1> QED
  BY <1>1, <1>2, <1>3, <1>4, <1>5, <1>7, <1>8 DEF TypeOK

\* Membership facts, so that the large sets can stay folded.
LEMMA PhaseFacts == /\ "down" \in Phase /\ "recover" \in Phase /\ "sweep" \in Phase
                    /\ "unmark" \in Phase /\ "idle" \in Phase /\ "snapshot" \in Phase
                    /\ "copy" \in Phase /\ "stage" \in Phase /\ "mark" \in Phase
                    /\ "probe" \in Phase /\ "rename" \in Phase /\ "commit" \in Phase
                    /\ "saving" \in Phase
  BY DEF Phase

\* What a file can hold.
LEMMA ContentFacts == /\ Version \subseteq Content /\ None \in Content /\ Torn \in Content
                      /\ Version \cup {None} \subseteq Content
  BY DEF Content

\* The record of a transaction and the updates Run makes to it.
LEMMA TxnFacts ==
  /\ NoTxn \in Txn
  /\ \A t \in Txn, f \in File : [t EXCEPT !.noPrior = @ \cup {f}] \in Txn
  /\ \A t \in Txn : [t EXCEPT !.outcome = "committed"] \in Txn
  /\ \A t \in Txn : /\ t.files \in SUBSET File /\ t.cand \in Version \cup {None}
                    /\ t.noPrior \in SUBSET File /\ t.base \in [File -> Content]
                    /\ t.outcome \in Outcome
  BY DEF NoTxn, Txn, Outcome, Content

\* The slots a sweep can be given.
LEMMA SlotFacts == \A S \in SUBSET File : /\ ({"lkg"} \X S) \in SUBSET (Area \X File)
                                          /\ ({"staging"} \X S) \in SUBSET (Area \X File)
                                          /\ ({"staging", "lkg"} \X S) \in SUBSET (Area \X File)
                                          /\ ({"staging", "live"} \X S) \in SUBSET (Area \X File)
  BY DEF Area

\* The file handled first is one of those that are left.
LEMMA FirstFacts == todo # {} /\ todo \in SUBSET File =>
                      Config1st \in todo /\ Binary1st \in todo
  BY DEF File, Config1st, Binary1st

\* Returning from Run keeps the types of what it resets.
LEMMA ReturnType ==
  ASSUME TypeOK, NEW o, Return(o)
  PROVE  /\ phase' \in Phase /\ todo' \in SUBSET File
         /\ trash' \in SUBSET (Area \X File) /\ next' \in Phase
         /\ txn' \in Txn /\ approved' \in [File -> Content] \cup {NoPair}
         /\ promise' \in [File -> Content \cup {Unknown}]
<1>1. /\ phase' \in Phase /\ todo' \in SUBSET File
      /\ trash' \in SUBSET (Area \X File) /\ next' \in Phase
      /\ txn' \in Txn /\ approved' \in [File -> Content] \cup {NoPair}
  BY PhaseFacts, TxnFacts DEF Return
<1>2. txn.cand \in Content /\ \A f \in File : txn.base[f] \in Content
  BY TxnFacts, ContentFacts DEF TypeOK
<1>3. promise' \in [File -> Content \cup {Unknown}]
  BY <1>2 DEF Return, TypeOK
<1> QED
  BY <1>1, <1>3

\* A step of any action keeps the types.
LEMMA NextType == ASSUME IInv, [Next]_vars PROVE TypeOK'
<1> USE PhaseFacts DEF TypeOK, files, control, history, bounds
<1>0. TypeOK
  BY DEF IInv
<1>1. ASSUME NEW kind \in Kind, NEW v \in Version, Start(kind, v) PROVE TypeOK'
  <2>1. txn' \in Txn
    BY <1>0, <1>1 DEF Start, Txn, NoTxn, Kind, Outcome
  <2>2. promise' \in [File -> Content \cup {Unknown}]
    BY <1>0, <1>1 DEF Start
  <2>3. todo' \in SUBSET File /\ trash' \in SUBSET (Area \X File)
    BY <1>1, SlotFacts DEF Start, Kind
  <2>4. runs' \in Nat
    BY <1>0, <1>1 DEF Start
  <2> QED
    BY <1>0, <1>1, <2>1, <2>2, <2>3, <2>4 DEF Start
<1>2. CASE Snapshot
  <2>1. txn' \in Txn /\ lkg' \in [File -> Content]
    <3>0. txn \in Txn /\ Config1st \in File
      BY <1>0 DEF Config1st, File
    <3>1. txn' = txn \/ txn' = [txn EXCEPT !.noPrior = @ \cup {Config1st}]
      BY <1>2 DEF Snapshot
    <3>2. lkg' \in {lkg, [lkg EXCEPT ![Config1st] = Torn]}
      BY <1>2 DEF Snapshot
    <3>3. txn' \in Txn
      <4> HIDE DEF TypeOK
      <4>1. [txn EXCEPT !.noPrior = @ \cup {Config1st}] \in Txn
        BY <3>0, TxnFacts
      <4> QED
        BY <3>0, <3>1, <4>1
    <3>4. lkg' \in [File -> Content]
      BY <1>0, <3>2, ContentFacts
    <3> QED
      BY <3>3, <3>4
  <2>2. phase' \in Phase /\ todo' \in SUBSET File
    BY <1>0, <1>2, TxnFacts DEF Snapshot, Advance, Goto
  <2> QED
    BY <1>0, <1>2, <2>1, <2>2 DEF Snapshot, Advance, Goto
<1>3. CASE Copy
  <2>1. lkg' \in [File -> Content]
    BY <1>0, <1>3 DEF Copy, Config1st, File
  <2>2. /\ phase' \in Phase /\ next' \in Phase /\ todo' \in SUBSET File
        /\ trash' \in SUBSET (Area \X File)
    BY <1>0, <1>3, TxnFacts DEF Copy, Advance, SweepThen, Config1st, Area, File
  <2> QED
    BY <1>0, <1>3, <2>1, <2>2 DEF Copy
<1>4. CASE SnapshotFails
  <2>0. lkg' \in [File -> Content]
    BY <1>0, <1>4, ContentFacts DEF SnapshotFails, Config1st, File
  <2>1. CASE Return("rollback")
    BY <1>0, <1>4, <2>0, <2>1, ReturnType DEF SnapshotFails
  <2>2. CASE SweepThen({"lkg"} \X txn.files, "idle") /\ UNCHANGED <<txn, history>>
    BY <1>0, <1>4, <2>0, <2>2, SlotFacts, TxnFacts DEF SnapshotFails, SweepThen
  <2> QED
    BY <1>4, <2>1, <2>2 DEF SnapshotFails
<1>5. CASE Stage
  <2>1. staging' \in [File -> Version \cup {None}]
    BY <1>0, <1>5, TxnFacts DEF Stage
  <2> QED
    BY <1>0, <1>5, <2>1, TxnFacts DEF Stage, Advance
<1>6. CASE StageFails
  <2>1. staging' \in [File -> Version \cup {None}]
    BY <1>0, <1>6, TxnFacts DEF StageFails, Config1st, File
  <2>2. trash' \in SUBSET (Area \X File)
    BY <1>0, <1>6, TxnFacts DEF StageFails, SweepThen, Area
  <2> QED
    BY <1>0, <1>6, <2>1, <2>2 DEF StageFails, SweepThen
<1>7. CASE MarkInflight
  <2>1. pending' \in Marker
    BY <1>0, <1>7, TxnFacts DEF MarkInflight, Marker
  <2> QED
    BY <1>0, <1>7, <2>1 DEF MarkInflight, Goto
<1>8. CASE MarkInflightFails \/ ProbeRejects
  BY <1>0, <1>8, SlotFacts, TxnFacts DEF MarkInflightFails, ProbeRejects, SweepThen
<1>9. CASE ProbeAccepts
  <2>1. approved' \in [File -> Content]
    BY <1>0, <1>9, ContentFacts DEF ProbeAccepts
  <2> QED
    BY <1>0, <1>9, <2>1, TxnFacts DEF ProbeAccepts
<1>10. CASE Rename
  <2>1. live' \in [File -> Content] /\ staging' \in [File -> Version \cup {None}]
    BY <1>0, <1>10, ContentFacts DEF Rename, Binary1st, File
  <2> QED
    BY <1>0, <1>10, <2>1, TxnFacts DEF Rename, Advance
<1>11. CASE RenameFails \/ MarkCommittedFails
  BY <1>0, <1>11, ReturnType DEF RenameFails, MarkCommittedFails
<1>12. CASE Link
  <2>1. live' \in [File -> Content]
    BY <1>0, <1>12, ContentFacts DEF Link, File
  <2> QED
    BY <1>0, <1>12, <2>1 DEF Link, Goto
<1>13. CASE LinkFails
  <2>1. trash' \in SUBSET (Area \X File)
    BY <1>13 DEF LinkFails, SweepThen, Area, File
  <2> QED
    BY <1>0, <1>13, <2>1 DEF LinkFails, SweepThen
<1>14. CASE MarkCommitted
  <2>1. pending' \in Marker
    BY <1>0, <1>14, TxnFacts DEF MarkCommitted, IInv, AfterMarkerInv, Marker
  <2>2. trash' \in SUBSET (Area \X File)
    BY <1>0, <1>14, TxnFacts, SlotFacts DEF MarkCommitted, SweepThen
  <2> QED
    BY <1>0, <1>14, <2>1, <2>2, TxnFacts DEF MarkCommitted, SweepThen
<1>15. CASE Unmark
  BY <1>0, <1>15, ReturnType DEF Unmark
<1>16. ASSUME NEW slot \in Area \X File, Sweep(slot) PROVE TypeOK'
  <2>1. slot[2] \in File
    BY <1>16
  <2>2. /\ live' \in [File -> Content] /\ staging' \in [File -> Version \cup {None}]
        /\ lkg' \in [File -> Content] /\ linked' \in BOOLEAN
    BY <1>0, <1>16, <2>1, ContentFacts DEF Sweep, SweepTo
  <2> QED
    BY <1>0, <1>16, <2>2 DEF Sweep
<1>17. ASSUME NEW slot \in Area \X File, SweepFails(slot) PROVE TypeOK'
  <2>1. CASE Return("rollback")
    BY <1>0, <1>17, <2>1, ReturnType DEF SweepFails
  <2>2. CASE trash' = trash \ {slot} /\ UNCHANGED <<phase, todo, next, txn, history>>
    BY <1>0, <1>17, <2>2 DEF SweepFails
  <2> QED
    BY <1>17, <2>1, <2>2 DEF SweepFails
<1>18. CASE SweepDone
  <2>1. CASE Return(txn.outcome)
    BY <1>0, <1>18, <2>1, ReturnType DEF SweepDone
  <2>2. CASE phase' = next /\ UNCHANGED <<todo, trash, next, txn, history>>
    BY <1>0, <1>18, <2>2 DEF SweepDone
  <2> QED
    BY <1>18, <2>1, <2>2 DEF SweepDone
<1>19. CASE Crash
  BY <1>0, <1>19, TxnFacts DEF Crash
<1>20. CASE RecoverOnBoot
  <2>1. Managed \in SUBSET File
    BY DEF Managed, File
  <2>2. pending # NoPending => /\ pending.files \in SUBSET File
                               /\ pending.files \cap Managed \in SUBSET File
    BY <1>0, <2>1 DEF Marker
  <2>3. phase' \in Phase /\ next' \in Phase
    BY <1>0, <1>20 DEF RecoverOnBoot, SweepThen, InFlight
  <2>4. trash' \in SUBSET (Area \X File)
    <3>1. CASE pending = NoPending
      BY <1>20, <2>1, <3>1, SlotFacts DEF RecoverOnBoot, SweepThen, InFlight
    <3>2. CASE pending # NoPending /\ ~InFlight
      BY <1>20, <2>2, <3>2, SlotFacts DEF RecoverOnBoot, SweepThen
    <3>3. CASE InFlight
      BY <1>0, <1>20, <3>3 DEF RecoverOnBoot, InFlight
    <3> QED
      BY <3>1, <3>2, <3>3
  <2>5. todo' \in SUBSET File
    BY <1>0, <1>20, <2>2 DEF RecoverOnBoot, SweepThen, InFlight
  <2> QED
    BY <1>0, <1>20, <2>3, <2>4, <2>5 DEF RecoverOnBoot
<1>21. CASE RollBack
  <2>1. Config1st \in File
    BY DEF Config1st, File
  <2>2. live' \in [File -> Content] /\ lkg' \in [File -> Content] /\ linked' \in BOOLEAN
    BY <1>0, <1>21, <2>1, ContentFacts DEF RollBack
  <2>3. trash' \in SUBSET (Area \X File)
    BY <1>0, <1>21, <2>1, SlotFacts DEF RollBack, Area
  <2>4. staging' = staging /\ phase' \in Phase /\ next' \in Phase
    BY <1>0, <1>21 DEF RollBack
  <2> QED
    BY <1>0, <1>21, <2>2, <2>3, <2>4 DEF RollBack
<1>22. CASE RollBackFails
  BY <1>0, <1>22, ReturnType DEF RollBackFails
<1>23. CASE RecoveryDone
  BY <1>0, <1>23 DEF RecoveryDone, Goto
<1>24. CASE SaveBegins
  <2>1. live' \in [File -> Content] /\ promise' \in [File -> Content \cup {Unknown}]
    BY <1>0, <1>24, ContentFacts DEF SaveBegins, File
  <2> QED
    BY <1>0, <1>24, <2>1 DEF SaveBegins, Goto
<1>25. ASSUME NEW v \in Version, SaveEnds(v) \/ OtherWriter(v) PROVE TypeOK'
  <2>1. live' \in [File -> Content] /\ promise' \in [File -> Content \cup {Unknown}]
    BY <1>0, <1>25, ContentFacts DEF SaveEnds, OtherWriter, File
  <2>2. CASE SaveEnds(v)
    BY <1>0, <2>1, <2>2 DEF SaveEnds, Goto
  <2>3. CASE OtherWriter(v)
    <3>1. writes' \in Nat /\ linked' = FALSE
      BY <1>0, <2>3 DEF OtherWriter
    <3>2. UNCHANGED <<setup, staging, lkg, pending, phase, todo, trash, next, txn, approved, runs>>
      BY <2>3 DEF OtherWriter
    <3> QED
      BY <1>0, <2>1, <3>1, <3>2
  <2> QED
    BY <1>25, <2>2, <2>3
<1>26. CASE UNCHANGED vars
  BY <1>0, <1>26 DEF vars
<1> QED
  BY <1>1, <1>2, <1>3, <1>4, <1>5, <1>6, <1>7, <1>8, <1>9, <1>10, <1>11, <1>12, <1>13,
     <1>14, <1>15, <1>16, <1>17, <1>18, <1>19, <1>20, <1>21, <1>22, <1>23, <1>24, <1>25, <1>26
  DEF Next

\* A step of any action of a Whole setup keeps the rest of the invariant.
LEMMA NextInv ==
  ASSUME IInv, Whole(setup), [Next]_vars, TypeOK'
  PROVE  /\ MarkerInv' /\ BeforeMarkerInv' /\ AfterMarkerInv'
         /\ SnapshotInv' /\ StagedInv' /\ RenamedInv' /\ ApprovedInv'
         /\ RecoverInv' /\ UnmarkInv'
<1> DEFINE Goal == /\ MarkerInv' /\ BeforeMarkerInv' /\ AfterMarkerInv'
                   /\ SnapshotInv' /\ StagedInv' /\ RenamedInv' /\ ApprovedInv'
                   /\ RecoverInv' /\ UnmarkInv'
<1>0. /\ TypeOK /\ MarkerInv /\ BeforeMarkerInv /\ AfterMarkerInv
      /\ SnapshotInv /\ StagedInv /\ RenamedInv /\ ApprovedInv
      /\ RecoverInv /\ UnmarkInv
  BY DEF IInv
<1>s. setup.installOnly => setup.kinds \subseteq {{"config"}}
  BY <1>0, TxnAssumption DEF TypeOK
<1> USE <1>0
<1>1. ASSUME NEW kind \in Kind, NEW v \in Version, Start(kind, v) PROVE Goal
  <2>1. BeforeMarkerInv'
    <3>1. ~linked
      BY <1>1 DEF Start, MarkerInv
    <3>2. /\ txn'.files = kind /\ txn'.noPrior = {} /\ txn'.cand = v /\ v # None
          /\ kind # {} /\ kind \in setup.kinds
      <4>1. /\ txn'.files = kind /\ txn'.noPrior = {} /\ txn'.cand = v
        BY <1>1 DEF Start, NoTxn
      <4>2. v # None
        BY TxnAssumption
      <4> QED
        BY <1>1, <4>1, <4>2 DEF Start, Kind
    <3> QED
      BY <1>1, <3>1, <3>2 DEF Start, BeforeMarkerInv, Sweeping, files
  <2>2. /\ MarkerInv' /\ AfterMarkerInv' /\ SnapshotInv' /\ StagedInv'
        /\ RenamedInv' /\ ApprovedInv' /\ RecoverInv' /\ UnmarkInv'
    BY <1>1, <1>s, TxnFacts, TxnAssumption DEF Start,
      MarkerInv, BeforeMarkerInv, AfterMarkerInv, SnapshotInv, StagedInv,
      RenamedInv, ApprovedInv, RecoverInv, UnmarkInv, TypeOK, Whole,
      Goto, Advance, SweepThen, SweepTo, Return, Config1st, Binary1st, Settled,
      Snapshotted, Candidates, Sweeping, InFlight, Managed, NoTxn, File, Area,
      files, control, history, bounds
  <2> QED
    BY <2>1, <2>2
<1>2. CASE Snapshot
  <2>1. BeforeMarkerInv' /\ SnapshotInv' /\ StagedInv'
    <3> DEFINE f == Config1st
    <3>1. /\ pending = NoPending /\ ~linked /\ txn.cand # None /\ txn.files \in setup.kinds
          /\ txn.noPrior \subseteq txn.files /\ todo \subseteq txn.files
          /\ f \in todo /\ phase = "snapshot" /\ setup' = setup
          /\ pending' = pending /\ linked' = linked /\ live' = live /\ staging' = staging
      BY <1>2, FirstFacts DEF Snapshot, BeforeMarkerInv, TypeOK
    <3>2. /\ txn'.files = txn.files /\ txn'.cand = txn.cand
          /\ txn'.noPrior \subseteq txn.files /\ txn.noPrior \subseteq txn'.noPrior
          /\ txn'.noPrior \subseteq txn.noPrior \cup {f}
      <4>1. txn' = txn \/ txn' = [txn EXCEPT !.noPrior = txn.noPrior \cup {f}]
        BY <1>2 DEF Snapshot
      <4>2. f \in txn.files
        BY <3>1
      <4> QED
        BY <4>1, <4>2, <3>1 DEF TypeOK, Txn
    <3>3. CASE live[f] # None
      <4>1. /\ phase' = "copy" /\ todo' = todo /\ next' = next /\ txn' = txn
            /\ \A g \in File \ {f} : lkg'[g] = lkg[g]
        BY <1>2, <3>3 DEF Snapshot, Goto, TypeOK
      <4>2. BeforeMarkerInv'
        BY <3>1, <3>2, <3>3, <4>1 DEF BeforeMarkerInv, Sweeping, Config1st
      <4>3. \A g \in txn.files : g \notin todo => Snapshotted(g)'
        BY <3>1, <4>1 DEF SnapshotInv, Snapshotted, TypeOK, Txn
      <4>4. SnapshotInv'
        BY <3>1, <4>1, <4>3 DEF SnapshotInv
      <4> QED
        BY <4>1, <4>2, <4>4 DEF StagedInv
    <3>4. CASE live[f] = None
      <4>1. /\ f \in txn'.noPrior /\ lkg' = lkg /\ next' = next
            /\ \/ todo = {f} /\ phase' = "stage" /\ todo' = txn.files
               \/ todo # {f} /\ phase' = "snapshot" /\ todo' = todo \ {f}
        BY <1>2, <3>4 DEF Snapshot, Advance, TypeOK, Txn
      <4>2. BeforeMarkerInv'
        BY <3>1, <3>2, <4>1 DEF BeforeMarkerInv, Sweeping
      <4>3. SnapshotInv'
        BY <3>1, <3>2, <3>4, <4>1 DEF SnapshotInv, Snapshotted
      <4>4. StagedInv'
        BY <3>1, <3>2, <4>1 DEF StagedInv
      <4> QED
        BY <4>2, <4>3, <4>4
    <3> QED
      BY <3>3, <3>4
  <2>2. /\ MarkerInv' /\ AfterMarkerInv' /\ RenamedInv' /\ ApprovedInv'
        /\ RecoverInv' /\ UnmarkInv'
    BY <1>2, <1>s, TxnFacts, TxnAssumption DEF Snapshot,
      MarkerInv, BeforeMarkerInv, AfterMarkerInv, SnapshotInv, StagedInv,
      RenamedInv, ApprovedInv, RecoverInv, UnmarkInv, TypeOK, Whole,
      Goto, Advance, SweepThen, SweepTo, Return, Config1st, Binary1st, Settled,
      Snapshotted, Candidates, Sweeping, InFlight, Managed, NoTxn, File, Area,
      files, control, history, bounds
  <2> QED
    BY <2>1, <2>2
<1>3. CASE Copy
  <2>1. SnapshotInv'
    <3>0. PICK f : f = Config1st
      OBVIOUS
    <3>1. /\ phase = "copy" /\ txn' = txn /\ live' = live /\ setup' = setup
          /\ f \in todo /\ f \notin txn.noPrior
          /\ lkg'[f] = live[f] /\ \A g \in File \ {f} : lkg'[g] = lkg[g]
          /\ ~setup.installOnly => live[f] # None
      BY <1>3, <3>0, FirstFacts DEF Copy, BeforeMarkerInv, TypeOK
    <3>2. CASE setup.installOnly
      BY <1>3, <3>1, <3>2 DEF Copy, SweepThen, SnapshotInv
    <3>3. CASE ~setup.installOnly
      <4>1. \/ todo = {f} /\ phase' = "stage" /\ todo' = txn.files
            \/ todo # {f} /\ phase' = "snapshot" /\ todo' = todo \ {f}
        BY <1>3, <3>0, <3>3 DEF Copy, Advance
      <4>2. \A g \in txn.files : g \notin todo => Snapshotted(g)'
        BY <3>1 DEF SnapshotInv, Snapshotted, TypeOK, Txn
      <4>3. Snapshotted(f)'
        BY <3>1, <3>3 DEF Snapshotted
      <4> QED
        BY <3>1, <4>1, <4>2, <4>3 DEF SnapshotInv
    <3> QED
      BY <3>2, <3>3
  <2>2. /\ MarkerInv' /\ BeforeMarkerInv' /\ AfterMarkerInv' /\ StagedInv'
        /\ RenamedInv' /\ ApprovedInv' /\ RecoverInv' /\ UnmarkInv'
    BY <1>3, <1>s, TxnFacts, TxnAssumption DEF Copy,
      MarkerInv, BeforeMarkerInv, AfterMarkerInv, SnapshotInv, StagedInv,
      RenamedInv, ApprovedInv, RecoverInv, UnmarkInv, TypeOK, Whole,
      Goto, Advance, SweepThen, SweepTo, Return, Config1st, Binary1st, Settled,
      Snapshotted, Candidates, Sweeping, InFlight, Managed, NoTxn, File, Area,
      files, control, history, bounds
  <2> QED
    BY <2>1, <2>2
<1>4. CASE SnapshotFails
  BY <1>4, <1>s, TxnFacts, TxnAssumption DEF SnapshotFails,
      MarkerInv, BeforeMarkerInv, AfterMarkerInv, SnapshotInv, StagedInv,
      RenamedInv, ApprovedInv, RecoverInv, UnmarkInv, TypeOK, Whole,
      Goto, Advance, SweepThen, SweepTo, Return, Config1st, Binary1st, Settled,
      Snapshotted, Candidates, Sweeping, InFlight, Managed, NoTxn, File, Area,
      files, control, history, bounds
<1>5. CASE Stage
  BY <1>5, <1>s, TxnFacts, TxnAssumption DEF Stage,
      MarkerInv, BeforeMarkerInv, AfterMarkerInv, SnapshotInv, StagedInv,
      RenamedInv, ApprovedInv, RecoverInv, UnmarkInv, TypeOK, Whole,
      Goto, Advance, SweepThen, SweepTo, Return, Config1st, Binary1st, Settled,
      Snapshotted, Candidates, Sweeping, InFlight, Managed, NoTxn, File, Area,
      files, control, history, bounds
<1>6. CASE StageFails
  BY <1>6, <1>s, TxnFacts, TxnAssumption DEF StageFails,
      MarkerInv, BeforeMarkerInv, AfterMarkerInv, SnapshotInv, StagedInv,
      RenamedInv, ApprovedInv, RecoverInv, UnmarkInv, TypeOK, Whole,
      Goto, Advance, SweepThen, SweepTo, Return, Config1st, Binary1st, Settled,
      Snapshotted, Candidates, Sweeping, InFlight, Managed, NoTxn, File, Area,
      files, control, history, bounds
<1>7. CASE MarkInflight
  BY <1>7, <1>s, TxnFacts, TxnAssumption DEF MarkInflight,
      MarkerInv, BeforeMarkerInv, AfterMarkerInv, SnapshotInv, StagedInv,
      RenamedInv, ApprovedInv, RecoverInv, UnmarkInv, TypeOK, Whole,
      Goto, Advance, SweepThen, SweepTo, Return, Config1st, Binary1st, Settled,
      Snapshotted, Candidates, Sweeping, InFlight, Managed, NoTxn, File, Area,
      files, control, history, bounds
<1>8. CASE MarkInflightFails
  BY <1>8, <1>s, TxnFacts, TxnAssumption DEF MarkInflightFails,
      MarkerInv, BeforeMarkerInv, AfterMarkerInv, SnapshotInv, StagedInv,
      RenamedInv, ApprovedInv, RecoverInv, UnmarkInv, TypeOK, Whole,
      Goto, Advance, SweepThen, SweepTo, Return, Config1st, Binary1st, Settled,
      Snapshotted, Candidates, Sweeping, InFlight, Managed, NoTxn, File, Area,
      files, control, history, bounds
<1>9. CASE ProbeAccepts
  <2>1. AfterMarkerInv'
    <3>1. /\ phase = "probe" /\ phase' = "rename" /\ todo' = txn.files
          /\ UNCHANGED <<pending, txn, linked>>
      BY <1>9 DEF ProbeAccepts, files
    <3>2. txn.files # {}
      <4>1. txn.files \in setup.kinds
        BY <3>1, TxnAssumption DEF AfterMarkerInv, MarkerInv, TypeOK, Txn, Marker
      <4>2. setup.kinds \subseteq Kind
        BY TxnAssumption DEF TypeOK, Setup
      <4> QED
        BY <4>1, <4>2 DEF Kind
    <3> QED
      BY <3>1, <3>2 DEF AfterMarkerInv
  <2>2. /\ MarkerInv' /\ BeforeMarkerInv' /\ SnapshotInv' /\ StagedInv'
        /\ RenamedInv' /\ ApprovedInv' /\ RecoverInv' /\ UnmarkInv'
    BY <1>9, <1>s, TxnFacts, TxnAssumption DEF ProbeAccepts,
      MarkerInv, BeforeMarkerInv, AfterMarkerInv, SnapshotInv, StagedInv,
      RenamedInv, ApprovedInv, RecoverInv, UnmarkInv, TypeOK, Whole,
      Goto, Advance, SweepThen, SweepTo, Return, Config1st, Binary1st, Settled,
      Snapshotted, Candidates, Sweeping, InFlight, Managed, NoTxn, File, Area,
      files, control, history, bounds
  <2> QED
    BY <2>1, <2>2
<1>10. CASE ProbeRejects
  <2>1. UnmarkInv'
    <3>1. /\ phase = "probe" /\ pending # NoPending /\ pending.files = txn.files
          /\ pending.noPrior = txn.noPrior /\ ~linked
          /\ UNCHANGED <<setup, files, pending>>
      BY <1>10, TxnAssumption DEF ProbeRejects, AfterMarkerInv, TypeOK, Txn, Marker
    <3>2. \A f \in txn.files : Settled(f)
      BY <3>1 DEF SnapshotInv, Snapshotted, Settled
    <3>3. \A f \in txn.files : Settled(f)'
      BY <3>1, <3>2 DEF Settled, Managed, files
    <3> QED
      BY <3>1, <3>3 DEF UnmarkInv
  <2>2. /\ MarkerInv' /\ BeforeMarkerInv' /\ AfterMarkerInv' /\ SnapshotInv'
        /\ StagedInv' /\ RenamedInv' /\ ApprovedInv' /\ RecoverInv'
    BY <1>10, <1>s, TxnFacts, TxnAssumption DEF ProbeRejects,
      MarkerInv, BeforeMarkerInv, AfterMarkerInv, SnapshotInv, StagedInv,
      RenamedInv, ApprovedInv, RecoverInv, UnmarkInv, TypeOK, Whole,
      Goto, Advance, SweepThen, SweepTo, Return, Config1st, Binary1st, Settled,
      Snapshotted, Candidates, Sweeping, InFlight, Managed, NoTxn, File, Area,
      files, control, history, bounds
  <2> QED
    BY <2>1, <2>2
<1>11. CASE Rename
  <2>1. ApprovedInv'
    <3> DEFINE f == Binary1st
    <3>1. /\ phase = "rename" /\ f \in todo /\ f \in txn.files /\ staging[f] = txn.cand
          /\ approved = Candidates /\ txn' = txn /\ setup' = setup
          /\ live' = [live EXCEPT ![f] = staging[f]]
          /\ approved' = IF f \notin Managed THEN NoPair ELSE approved
      BY <1>11, FirstFacts DEF Rename, AfterMarkerInv, ApprovedInv, StagedInv, TypeOK
    <3>2. Candidates' = Candidates
      BY <3>1 DEF Candidates, TypeOK
    <3>3. \/ todo = {f} /\ phase' = "commit"
          \/ todo # {f} /\ phase' = "rename"
      BY <1>11 DEF Rename, Advance
    <3>4. Managed' = Managed
      BY <3>1 DEF Managed
    <3>5. txn.files \in setup.kinds /\ todo \subseteq txn.files
      BY <3>1, TxnAssumption DEF AfterMarkerInv, MarkerInv, TypeOK, Txn, Marker
    <3>6. CASE setup.knowsBinary
      BY <3>1, <3>2, <3>3, <3>4, <3>6 DEF ApprovedInv, Managed, TypeOK, Txn
    <3>7. CASE ~setup.knowsBinary
      <4>1. txn.files # File
        BY <3>5, <3>7 DEF Whole
      <4>2. txn.files = {f} /\ todo = {f}
        <5>1. txn.files \subseteq File
          BY TxnFacts DEF TypeOK
        <5>2. f \in File /\ \A g \in File : g # f => g \notin txn.files
          BY <3>1, <4>1, <5>1 DEF File
        <5> QED
          BY <3>1, <3>5, <5>1, <5>2
      <4> QED
        BY <3>1, <3>2, <3>3, <3>4, <3>7, <4>2 DEF ApprovedInv, Managed
    <3> QED
      BY <3>6, <3>7
  <2>2. /\ MarkerInv' /\ BeforeMarkerInv' /\ AfterMarkerInv' /\ SnapshotInv'
        /\ StagedInv' /\ RenamedInv' /\ RecoverInv' /\ UnmarkInv'
    BY <1>11, <1>s, TxnFacts, TxnAssumption DEF Rename,
      MarkerInv, BeforeMarkerInv, AfterMarkerInv, SnapshotInv, StagedInv,
      RenamedInv, ApprovedInv, RecoverInv, UnmarkInv, TypeOK, Whole,
      Goto, Advance, SweepThen, SweepTo, Return, Config1st, Binary1st, Settled,
      Snapshotted, Candidates, Sweeping, InFlight, Managed, NoTxn, File, Area,
      files, control, history, bounds
  <2> QED
    BY <2>1, <2>2
<1>12. CASE RenameFails
  BY <1>12, <1>s, TxnFacts, TxnAssumption DEF RenameFails,
      MarkerInv, BeforeMarkerInv, AfterMarkerInv, SnapshotInv, StagedInv,
      RenamedInv, ApprovedInv, RecoverInv, UnmarkInv, TypeOK, Whole,
      Goto, Advance, SweepThen, SweepTo, Return, Config1st, Binary1st, Settled,
      Snapshotted, Candidates, Sweeping, InFlight, Managed, NoTxn, File, Area,
      files, control, history, bounds
<1>13. CASE Link
  <2>1. MarkerInv' /\ RenamedInv' /\ ApprovedInv'
    <3>1. /\ phase = "rename" /\ setup.installOnly /\ txn.files = {"config"} /\ todo = {"config"}
          /\ txn.cand # None /\ staging["config"] = txn.cand /\ approved = Candidates
      <4>1. /\ phase = "rename" /\ setup.installOnly /\ todo # {} /\ todo \subseteq txn.files
            /\ txn.files \in setup.kinds /\ txn.cand # None /\ approved = Candidates
        BY <1>13, TxnAssumption DEF Link, AfterMarkerInv, MarkerInv, ApprovedInv, TypeOK, Txn, Marker
      <4>2. txn.files = {"config"}
        BY <4>1, TxnAssumption DEF TypeOK
      <4> QED
        BY <4>1, <4>2 DEF StagedInv
    <3>2. /\ phase' = "commit" /\ linked' = TRUE /\ live'["config"] = txn.cand
          /\ live' = [live EXCEPT !["config"] = staging["config"]]
          /\ UNCHANGED <<setup, pending, txn, approved, next>>
      BY <1>13, <3>1 DEF Link, Goto, TypeOK, File, history
    <3>3. MarkerInv'
      BY <3>1, <3>2 DEF MarkerInv, Sweeping
    <3>4. RenamedInv'
      BY <3>1, <3>2 DEF RenamedInv
    <3>5. Candidates' = Candidates
      BY <3>1, <3>2 DEF Candidates, TypeOK
    <3>6. ApprovedInv'
      BY <3>1, <3>2, <3>5 DEF ApprovedInv, Managed, File
    <3> QED
      BY <3>3, <3>4, <3>6
  <2>2. /\ BeforeMarkerInv' /\ AfterMarkerInv' /\ SnapshotInv' /\ StagedInv'
        /\ RecoverInv' /\ UnmarkInv'
    BY <1>13, <1>s, TxnFacts, TxnAssumption DEF Link,
      MarkerInv, BeforeMarkerInv, AfterMarkerInv, SnapshotInv, StagedInv,
      RenamedInv, ApprovedInv, RecoverInv, UnmarkInv, TypeOK, Whole,
      Goto, Advance, SweepThen, SweepTo, Return, Config1st, Binary1st, Settled,
      Snapshotted, Candidates, Sweeping, InFlight, Managed, NoTxn, File, Area,
      files, control, history, bounds
  <2> QED
    BY <2>1, <2>2
<1>14. CASE LinkFails
  <2>1. UnmarkInv'
    <3>1. /\ setup.installOnly /\ ~linked /\ pending # NoPending
          /\ UNCHANGED <<setup, files, pending>>
      BY <1>14, TxnAssumption DEF LinkFails, AfterMarkerInv, TypeOK, Txn, Marker
    <3> QED
      BY <3>1 DEF UnmarkInv, Settled, files
  <2>2. /\ MarkerInv' /\ BeforeMarkerInv' /\ AfterMarkerInv' /\ SnapshotInv'
        /\ StagedInv' /\ RenamedInv' /\ ApprovedInv' /\ RecoverInv'
    BY <1>14, <1>s, TxnFacts, TxnAssumption DEF LinkFails,
      MarkerInv, BeforeMarkerInv, AfterMarkerInv, SnapshotInv, StagedInv,
      RenamedInv, ApprovedInv, RecoverInv, UnmarkInv, TypeOK, Whole,
      Goto, Advance, SweepThen, SweepTo, Return, Config1st, Binary1st, Settled,
      Snapshotted, Candidates, Sweeping, InFlight, Managed, NoTxn, File, Area,
      files, control, history, bounds
  <2> QED
    BY <2>1, <2>2
<1>15. CASE MarkCommitted
  <2>1. MarkerInv' /\ UnmarkInv'
    <3>1. /\ pending \in Marker /\ pending' \in Marker /\ pending'.state = "committed"
          /\ pending'.files = pending.files /\ pending'.noPrior = pending.noPrior
          /\ phase' = "sweep" /\ next' = "unmark" /\ UNCHANGED <<setup, files>>
      BY <1>15, TxnAssumption DEF MarkCommitted, SweepThen, AfterMarkerInv, TypeOK, Txn, Marker
    <3>2. pending # NoPending /\ pending' # NoPending
      BY <3>1, TxnAssumption DEF Marker
    <3>3. MarkerInv'
      BY <3>1, <3>2 DEF MarkerInv, Sweeping, files
    <3> QED
      BY <3>1, <3>2, <3>3 DEF UnmarkInv, InFlight
  <2>2. /\ BeforeMarkerInv' /\ AfterMarkerInv' /\ SnapshotInv' /\ StagedInv'
        /\ RenamedInv' /\ ApprovedInv' /\ RecoverInv'
    BY <1>15, <1>s, TxnFacts, TxnAssumption DEF MarkCommitted,
      MarkerInv, BeforeMarkerInv, AfterMarkerInv, SnapshotInv, StagedInv,
      RenamedInv, ApprovedInv, RecoverInv, UnmarkInv, TypeOK, Whole,
      Goto, Advance, SweepThen, SweepTo, Return, Config1st, Binary1st, Settled,
      Snapshotted, Candidates, Sweeping, InFlight, Managed, NoTxn, File, Area,
      files, control, history, bounds
  <2> QED
    BY <2>1, <2>2
<1>16. CASE MarkCommittedFails
  BY <1>16, <1>s, TxnFacts, TxnAssumption DEF MarkCommittedFails,
      MarkerInv, BeforeMarkerInv, AfterMarkerInv, SnapshotInv, StagedInv,
      RenamedInv, ApprovedInv, RecoverInv, UnmarkInv, TypeOK, Whole,
      Goto, Advance, SweepThen, SweepTo, Return, Config1st, Binary1st, Settled,
      Snapshotted, Candidates, Sweeping, InFlight, Managed, NoTxn, File, Area,
      files, control, history, bounds
<1>17. CASE Unmark
  BY <1>17, <1>s, TxnFacts, TxnAssumption DEF Unmark,
      MarkerInv, BeforeMarkerInv, AfterMarkerInv, SnapshotInv, StagedInv,
      RenamedInv, ApprovedInv, RecoverInv, UnmarkInv, TypeOK, Whole,
      Goto, Advance, SweepThen, SweepTo, Return, Config1st, Binary1st, Settled,
      Snapshotted, Candidates, Sweeping, InFlight, Managed, NoTxn, File, Area,
      files, control, history, bounds
<1>18. ASSUME NEW slot \in Area \X File, Sweep(slot) PROVE Goal
  BY SMTT(20), <1>18, <1>s, TxnFacts, TxnAssumption DEF Sweep,
      MarkerInv, BeforeMarkerInv, AfterMarkerInv, SnapshotInv, StagedInv,
      RenamedInv, ApprovedInv, RecoverInv, UnmarkInv, TypeOK, Whole,
      Goto, Advance, SweepThen, SweepTo, Return, Config1st, Binary1st, Settled,
      Snapshotted, Candidates, Sweeping, InFlight, Managed, NoTxn, File, Area,
      files, control, history, bounds
<1>19. ASSUME NEW slot \in Area \X File, SweepFails(slot) PROVE Goal
  BY <1>19, <1>s, TxnFacts, TxnAssumption DEF SweepFails,
      MarkerInv, BeforeMarkerInv, AfterMarkerInv, SnapshotInv, StagedInv,
      RenamedInv, ApprovedInv, RecoverInv, UnmarkInv, TypeOK, Whole,
      Goto, Advance, SweepThen, SweepTo, Return, Config1st, Binary1st, Settled,
      Snapshotted, Candidates, Sweeping, InFlight, Managed, NoTxn, File, Area,
      files, control, history, bounds
<1>20. CASE SweepDone
  BY <1>20, <1>s, TxnFacts, TxnAssumption DEF SweepDone,
      MarkerInv, BeforeMarkerInv, AfterMarkerInv, SnapshotInv, StagedInv,
      RenamedInv, ApprovedInv, RecoverInv, UnmarkInv, TypeOK, Whole,
      Goto, Advance, SweepThen, SweepTo, Return, Config1st, Binary1st, Settled,
      Snapshotted, Candidates, Sweeping, InFlight, Managed, NoTxn, File, Area,
      files, control, history, bounds
<1>21. CASE Crash
  BY <1>21, <1>s, TxnFacts, TxnAssumption DEF Crash,
      MarkerInv, BeforeMarkerInv, AfterMarkerInv, SnapshotInv, StagedInv,
      RenamedInv, ApprovedInv, RecoverInv, UnmarkInv, TypeOK, Whole,
      Goto, Advance, SweepThen, SweepTo, Return, Config1st, Binary1st, Settled,
      Snapshotted, Candidates, Sweeping, InFlight, Managed, NoTxn, File, Area,
      files, control, history, bounds
<1>22. CASE RecoverOnBoot
  <2>1. RecoverInv'
    <3>1. UNCHANGED <<setup, files, pending>> /\ phase = "down"
      BY <1>22 DEF RecoverOnBoot
    <3>2. CASE pending = NoPending
      BY <1>22, <3>1, <3>2 DEF RecoverOnBoot, RecoverInv, SweepThen, Sweeping, InFlight
    <3>3. CASE pending # NoPending /\ ~InFlight
      BY <1>22, <3>1, <3>3 DEF RecoverOnBoot, RecoverInv, SweepThen, Sweeping
    <3>4. CASE InFlight
      <4>1. phase' = "recover" /\ todo' = pending.files
        BY <1>22, <3>4 DEF RecoverOnBoot, InFlight
      <4> QED
        BY <3>1, <3>4, <4>1 DEF RecoverInv, Sweeping, InFlight
    <3> QED
      BY <3>2, <3>3, <3>4
  <2>2. /\ MarkerInv' /\ BeforeMarkerInv' /\ AfterMarkerInv' /\ SnapshotInv'
        /\ StagedInv' /\ RenamedInv' /\ ApprovedInv' /\ UnmarkInv'
    BY <1>22, <1>s, TxnFacts, TxnAssumption DEF RecoverOnBoot,
      MarkerInv, BeforeMarkerInv, AfterMarkerInv, SnapshotInv, StagedInv,
      RenamedInv, ApprovedInv, RecoverInv, UnmarkInv, TypeOK, Whole,
      Goto, Advance, SweepThen, SweepTo, Return, Config1st, Binary1st, Settled,
      Snapshotted, Candidates, Sweeping, InFlight, Managed, NoTxn, File, Area,
      files, control, history, bounds
  <2> QED
    BY <2>1, <2>2
<1>23. CASE RollBack
  BY <1>23, <1>s, TxnFacts, TxnAssumption DEF RollBack,
      MarkerInv, BeforeMarkerInv, AfterMarkerInv, SnapshotInv, StagedInv,
      RenamedInv, ApprovedInv, RecoverInv, UnmarkInv, TypeOK, Whole,
      Goto, Advance, SweepThen, SweepTo, Return, Config1st, Binary1st, Settled,
      Snapshotted, Candidates, Sweeping, InFlight, Managed, NoTxn, File, Area,
      files, control, history, bounds
<1>24. CASE RollBackFails
  BY <1>24, <1>s, TxnFacts, TxnAssumption DEF RollBackFails,
      MarkerInv, BeforeMarkerInv, AfterMarkerInv, SnapshotInv, StagedInv,
      RenamedInv, ApprovedInv, RecoverInv, UnmarkInv, TypeOK, Whole,
      Goto, Advance, SweepThen, SweepTo, Return, Config1st, Binary1st, Settled,
      Snapshotted, Candidates, Sweeping, InFlight, Managed, NoTxn, File, Area,
      files, control, history, bounds
<1>25. CASE RecoveryDone
  BY <1>25, <1>s, TxnFacts, TxnAssumption DEF RecoveryDone,
      MarkerInv, BeforeMarkerInv, AfterMarkerInv, SnapshotInv, StagedInv,
      RenamedInv, ApprovedInv, RecoverInv, UnmarkInv, TypeOK, Whole,
      Goto, Advance, SweepThen, SweepTo, Return, Config1st, Binary1st, Settled,
      Snapshotted, Candidates, Sweeping, InFlight, Managed, NoTxn, File, Area,
      files, control, history, bounds
<1>26. CASE SaveBegins
  BY <1>26, <1>s, TxnFacts, TxnAssumption DEF SaveBegins,
      MarkerInv, BeforeMarkerInv, AfterMarkerInv, SnapshotInv, StagedInv,
      RenamedInv, ApprovedInv, RecoverInv, UnmarkInv, TypeOK, Whole,
      Goto, Advance, SweepThen, SweepTo, Return, Config1st, Binary1st, Settled,
      Snapshotted, Candidates, Sweeping, InFlight, Managed, NoTxn, File, Area,
      files, control, history, bounds
<1>27. ASSUME NEW v \in Version, SaveEnds(v) PROVE Goal
  BY <1>27, <1>s, TxnFacts, TxnAssumption DEF SaveEnds,
      MarkerInv, BeforeMarkerInv, AfterMarkerInv, SnapshotInv, StagedInv,
      RenamedInv, ApprovedInv, RecoverInv, UnmarkInv, TypeOK, Whole,
      Goto, Advance, SweepThen, SweepTo, Return, Config1st, Binary1st, Settled,
      Snapshotted, Candidates, Sweeping, InFlight, Managed, NoTxn, File, Area,
      files, control, history, bounds
<1>28. ASSUME NEW v \in Version, OtherWriter(v) PROVE Goal
  <2>1. ApprovedInv'
    <3>1. /\ setup.installOnly /\ live' = [live EXCEPT !["config"] = v]
          /\ UNCHANGED <<setup, phase, txn, approved>>
      BY <1>28 DEF OtherWriter, control
    <3>2. ASSUME phase \in {"rename", "commit"} PROVE Candidates' = Candidates
      <4>1. txn.files = {"config"}
        BY <3>1, <3>2, TxnAssumption DEF AfterMarkerInv, MarkerInv, TypeOK, Txn, Marker
      <4> QED
        BY <3>1, <4>1 DEF Candidates, TypeOK
    <3> QED
      BY <3>1, <3>2 DEF ApprovedInv, Managed
  <2>2. /\ MarkerInv' /\ BeforeMarkerInv' /\ AfterMarkerInv' /\ SnapshotInv'
        /\ StagedInv' /\ RenamedInv' /\ RecoverInv' /\ UnmarkInv'
    BY <1>28, <1>s, TxnFacts, TxnAssumption DEF OtherWriter,
      MarkerInv, BeforeMarkerInv, AfterMarkerInv, SnapshotInv, StagedInv,
      RenamedInv, ApprovedInv, RecoverInv, UnmarkInv, TypeOK, Whole,
      Goto, Advance, SweepThen, SweepTo, Return, Config1st, Binary1st, Settled,
      Snapshotted, Candidates, Sweeping, InFlight, Managed, NoTxn, File, Area,
      files, control, history, bounds
  <2> QED
    BY <2>1, <2>2
<1>29. CASE UNCHANGED vars
  BY <1>29 DEF vars, MarkerInv, BeforeMarkerInv, AfterMarkerInv, SnapshotInv, StagedInv,
      RenamedInv, ApprovedInv, RecoverInv, UnmarkInv, TypeOK, Whole,
      Goto, Advance, SweepThen, SweepTo, Return, Config1st, Binary1st, Settled,
      Snapshotted, Candidates, Sweeping, InFlight, Managed, NoTxn, File, Area,
      files, control, history, bounds
<1> QED
  BY <1>1, <1>2, <1>3, <1>4, <1>5, <1>6, <1>7, <1>8, <1>9, <1>10, <1>11, <1>12, <1>13, <1>14, <1>15, <1>16, <1>17, <1>18, <1>19, <1>20, <1>21, <1>22, <1>23, <1>24, <1>25, <1>26, <1>27, <1>28, <1>29
  DEF Next

\* Every reachable state satisfies the invariant.
LEMMA Invariance ==
  ASSUME \A s \in Setups : Whole(s)
  PROVE  Spec => [](IInv /\ Whole(setup))
<1>1. Init => IInv /\ Whole(setup)
  BY InitType DEF Init, IInv, TypeOK, MarkerInv, BeforeMarkerInv, AfterMarkerInv, SnapshotInv,
     StagedInv, RenamedInv, ApprovedInv, RecoverInv, UnmarkInv, Sweeping, NoTxn
<1>2. IInv /\ Whole(setup) /\ [Next]_vars => (IInv /\ Whole(setup))'
  <2> SUFFICES ASSUME IInv, Whole(setup), [Next]_vars PROVE (IInv /\ Whole(setup))'
    OBVIOUS
  <2>1. TypeOK'
    BY NextType
  <2>2. Whole(setup)'
    BY <2>1 DEF TypeOK
  <2> QED
    BY <2>1, <2>2, NextInv DEF IInv
<1> QED
  BY <1>1, <1>2, PTL DEF Spec

\* The variables have the values they are meant to have.
THEOREM TypeCorrect == ASSUME \A s \in Setups : Whole(s) PROVE Spec => []TypeOK
<1>1. IInv => TypeOK
  BY DEF IInv
<1> QED
  BY <1>1, Invariance, PTL

----------------------------------------------------------------------------
\* The refinement.  All but five actions leave what the next boot would make
\* of every file unchanged.

\* None of these actions changes what the next boot would leave of a file.
LEMMA ValueKept ==
  ASSUME IInv, TypeOK', Whole(setup),
         \/ \E kind \in Kind, v \in Version : Start(kind, v)
         \/ Snapshot \/ Copy \/ SnapshotFails \/ Stage \/ StageFails
         \/ MarkInflight \/ MarkInflightFails \/ ProbeAccepts \/ ProbeRejects
         \/ RenameFails \/ Link \/ LinkFails \/ MarkCommittedFails \/ Unmark
         \/ \E slot \in Area \X File : Sweep(slot) \/ SweepFails(slot)
         \/ SweepDone \/ Crash \/ RecoverOnBoot \/ RollBack \/ RollBackFails
         \/ RecoveryDone \/ UNCHANGED vars,
         NEW f \in File
  PROVE  Value(f)' = Value(f)
<1>0. /\ TypeOK /\ MarkerInv /\ BeforeMarkerInv /\ AfterMarkerInv
      /\ SnapshotInv /\ RecoverInv /\ UnmarkInv
  BY DEF IInv
<1>s. setup.installOnly => setup.kinds \subseteq {{"config"}}
  BY <1>0, TxnAssumption DEF TypeOK
<1> USE <1>0 DEF Value, InFlight, Managed
<1>1. CASE \/ \E kind \in Kind, v \in Version : Start(kind, v)
         \/ MarkInflightFails \/ ProbeAccepts \/ ProbeRejects \/ RenameFails \/ LinkFails
         \/ MarkCommittedFails \/ SweepDone \/ Crash \/ RecoverOnBoot \/ RollBackFails \/ RecoveryDone
         \/ UNCHANGED vars
         \/ \E slot \in Area \X File : SweepFails(slot)
  <2>1. UNCHANGED <<setup, files, pending>>
    BY <1>1 DEF Start, SweepFails, MarkInflightFails, ProbeAccepts, ProbeRejects, RenameFails, LinkFails, MarkCommittedFails, SweepDone, Crash, RecoverOnBoot, RollBackFails, RecoveryDone, vars, files
  <2> QED
    BY <2>1 DEF files
<1>2. CASE Snapshot \/ Copy \/ SnapshotFails \/ Stage \/ StageFails
  BY <1>2, <1>s, TxnAssumption DEF Snapshot, Copy, SnapshotFails, Stage, StageFails, TypeOK, Txn, Marker, MarkerInv, BeforeMarkerInv, AfterMarkerInv, SnapshotInv, RecoverInv, UnmarkInv
<1>3. CASE MarkInflight
  BY <1>3, <1>s, TxnAssumption DEF MarkInflight, Snapshotted, files, TypeOK, Txn, Marker, MarkerInv, BeforeMarkerInv, AfterMarkerInv, SnapshotInv, RecoverInv, UnmarkInv
<1>4. CASE Link
  BY <1>4, <1>s, TxnAssumption DEF Link, TypeOK, Txn, Marker, MarkerInv, BeforeMarkerInv, AfterMarkerInv, SnapshotInv, RecoverInv, UnmarkInv
<1>5. CASE Unmark
  <2>1. UNCHANGED <<setup, files>> /\ pending # NoPending
        /\ (pending' = NoPending \/ pending' = pending)
        /\ (InFlight => \A g \in pending.files : Settled(g))
    BY <1>5 DEF Unmark, UnmarkInv
  <2> QED
    BY <2>1 DEF Settled, files
<1>6. CASE RollBack
  <2>0. PICK g : g = Config1st
    OBVIOUS
  <2>1. /\ phase = "recover" /\ InFlight /\ g \in todo /\ g \in pending.files /\ g \in File
        /\ UNCHANGED <<setup, pending>>
    BY <1>6, <2>0, FirstFacts DEF RollBack, RecoverInv, TypeOK
  <2>2. CASE g \notin Managed
    BY <1>6, <2>0, <2>1, <2>2 DEF RollBack, files
  <2>3. CASE g \in Managed /\ setup.installOnly
    <3>1. pending.files = {g}
      <4>1. pending.files \in setup.kinds
        BY <2>1 DEF MarkerInv
      <4> QED
        BY <1>s, <2>1, <2>3, <4>1
    <3>2. /\ live' = IF linked THEN [live EXCEPT ![g] = None] ELSE live
          /\ linked' = FALSE /\ lkg' = lkg
      BY <1>6, <2>0, <2>1, <2>3 DEF RollBack
    <3> QED
      BY <2>1, <2>3, <3>1, <3>2 DEF TypeOK
  <2>4. CASE g \in Managed /\ ~setup.installOnly
    <3>1. \/ UNCHANGED <<live, lkg, linked>>
          \/ /\ g \notin pending.noPrior /\ UNCHANGED linked
             /\ live' = IF lkg[g] # None THEN [live EXCEPT ![g] = lkg[g]] ELSE live
             /\ lkg' = [lkg EXCEPT ![g] = None]
      BY <1>6, <2>0, <2>1, <2>4 DEF RollBack
    <3> QED
      BY <2>1, <2>4, <3>1 DEF TypeOK
  <2> QED
    BY <2>2, <2>3, <2>4
<1>7. ASSUME NEW slot \in Area \X File, Sweep(slot) PROVE Value(f)' = Value(f)
  <2>0. PICK a \in Area, g \in File : slot = <<a, g>>
    OBVIOUS
  <2>1. /\ phase = "sweep" /\ <<a, g>> \in trash /\ UNCHANGED <<setup, pending>>
        /\ staging' = IF a = "staging" THEN [staging EXCEPT ![g] = None] ELSE staging
        /\ lkg' = IF a = "lkg" THEN [lkg EXCEPT ![g] = None] ELSE lkg
        /\ live' = IF a = "live" THEN [live EXCEPT ![g] = None] ELSE live
        /\ linked' = (linked /\ ~(slot \in {<<"staging", "config">>, <<"live", "config">>}))
    BY <1>7, <2>0 DEF Sweep, SweepTo
  <2>2. next \in {"snapshot", "idle", "unmark", "recover"}
    BY <2>1 DEF MarkerInv
  <2>3. CASE a = "live"
    <3>1. next = "recover" /\ ~setup.installOnly /\ g \in pending.noPrior \cap Managed
      BY <2>1, <2>3 DEF RecoverInv
    <3>2. InFlight /\ g \in pending.files
      BY <2>1, <3>1 DEF RecoverInv, Sweeping, MarkerInv
    <3> QED
      BY <2>1, <2>3, <3>1, <3>2 DEF TypeOK
  <2>4. CASE a = "lkg"
    <3>1. next # "recover"
      BY <2>1, <2>4 DEF RecoverInv, Sweeping
    <3>2. linked' = linked /\ live' = live
      BY <2>0, <2>1, <2>4 DEF TypeOK
    <3>3. InFlight => \A h \in pending.files : Settled(h)
      BY <2>1, <2>2, <3>1 DEF BeforeMarkerInv, MarkerInv, UnmarkInv, Sweeping
    <3> QED
      BY <2>1, <2>4, <3>2, <3>3 DEF TypeOK, Settled
  <2>5. CASE a = "staging"
    <3>1. live' = live /\ lkg' = lkg
      BY <2>1, <2>5
    <3>2. CASE linked' = linked
      BY <2>1, <3>1, <3>2
    <3>3. CASE linked /\ ~linked' /\ InFlight
      <4>1. setup.installOnly /\ g = "config"
        BY <2>0, <2>1, <2>5, <3>3 DEF MarkerInv
      <4>2. pending.files = {"config"}
        <5>1. pending.files \in setup.kinds
          BY <3>3 DEF MarkerInv
        <5> QED
          BY <1>s, <4>1, <5>1
      <4>3. Settled("config")
        BY <2>1, <2>2, <2>5, <3>3, <4>1, <4>2 DEF BeforeMarkerInv, MarkerInv, UnmarkInv, RecoverInv, Sweeping
      <4> QED
        BY <3>3, <4>1, <4>2, <4>3 DEF Settled, File
    <3>4. CASE linked /\ ~linked' /\ ~InFlight
      BY <2>1, <3>1, <3>4
    <3> QED
      BY <2>1, <3>2, <3>3, <3>4 DEF TypeOK
  <2> QED
    BY <2>3, <2>4, <2>5 DEF Area
<1> QED
  BY <1>1, <1>2, <1>3, <1>4, <1>5, <1>6, <1>7

\* What the next boot leaves of a file is something a file can hold.
LEMMA ValueType == TypeOK => \A f \in File : Value(f) \in Content
  BY ContentFacts DEF TypeOK, Value

\* A pair approved by the probe is a pair, so it is not NoPair.
LEMMA CandidatesType == TypeOK => Candidates \in [File -> Content] /\ Candidates # NoPair
<1> SUFFICES ASSUME TypeOK PROVE Candidates \in [File -> Content]
  BY TxnAssumption
<1>1. txn.cand \in Content
  BY TxnFacts, ContentFacts DEF TypeOK
<1> QED
  BY <1>1 DEF Candidates, TypeOK

\* The rename of a file the boot manager can take back changes nothing yet;
\* that of one it cannot installs it.
LEMMA RenameStep ==
  ASSUME IInv, TypeOK', Whole(setup), Rename
  PROVE  \/ Installed' = Installed /\ approved' = approved
         \/ Installed' = approved /\ approved # NoPair /\ approved' = NoPair
<1>0. PICK f : f = Binary1st
  OBVIOUS
<1>1. /\ phase = "rename" /\ ~setup.installOnly /\ f \in todo /\ f \in txn.files /\ f \in File
      /\ staging[f] = txn.cand /\ approved = Candidates /\ Snapshotted(f)
      /\ live' = [live EXCEPT ![f] = txn.cand] /\ UNCHANGED <<setup, lkg, linked, pending, txn>>
      /\ approved' = IF f \notin Managed THEN NoPair ELSE approved
  BY <1>0, FirstFacts
  DEF Rename, IInv, TypeOK, AfterMarkerInv, ApprovedInv, StagedInv, SnapshotInv
<1>2. /\ pending \in Marker /\ pending # NoPending /\ pending.state = "inflight"
      /\ pending.files = txn.files /\ pending.noPrior = txn.noPrior
  BY <1>1, TxnAssumption DEF IInv, TypeOK, AfterMarkerInv, Marker, Txn
<1>3. \A g \in File \ {f} : live'[g] = live[g]
  BY <1>1 DEF IInv, TypeOK
<1>4. CASE f \in Managed
  <2>1. \A g \in File : Value(g)' = Value(g)
    BY <1>1, <1>2, <1>3, <1>4 DEF Value, InFlight, Managed, Snapshotted
  <2> QED
    BY <1>1, <1>4, <2>1 DEF Installed
<1>5. CASE f \notin Managed
  <2>1. f = "binary" /\ ~setup.knowsBinary
    BY <1>1, <1>5 DEF Managed, File
  <2>2. "config" \notin txn.files
    <3>1. txn.files \in setup.kinds /\ txn.files \subseteq File
      BY <1>2, TxnFacts DEF IInv, TypeOK, MarkerInv
    <3>2. txn.files # File
      BY <3>1, <2>1 DEF Whole
    <3> QED
      BY <1>1, <2>1, <3>1, <3>2 DEF File
  <2>3. \A g \in File : Value(g)' = Candidates[g]
    BY <1>1, <1>2, <1>3, <2>1, <2>2 DEF Value, InFlight, Managed, Candidates, File, IInv, TypeOK
  <2>4. Installed' = Candidates
    BY <2>3 DEF Installed, Candidates
  <2> QED
    BY <1>1, <1>5, <2>4, CandidatesType DEF IInv
<1> QED
  BY <1>4, <1>5

\* The committed marker installs the approved pair, unless the renames already
\* did, or another writer has replaced the linked configuration.
LEMMA CommitStep ==
  ASSUME IInv, TypeOK', Whole(setup), MarkCommitted
  PROVE  /\ approved' = NoPair
         /\ \/ Installed' = Installed
            \/ Installed' = approved /\ approved # NoPair
<1>1. /\ phase = "commit" /\ pending \in Marker /\ pending'.state = "committed"
      /\ pending # NoPending /\ pending.state = "inflight"
      /\ pending.files = txn.files /\ pending.noPrior = txn.noPrior
      /\ UNCHANGED <<setup, live, lkg, linked, staging>> /\ approved' = NoPair
  BY TxnAssumption DEF MarkCommitted, files, IInv, TypeOK, AfterMarkerInv, Marker, Txn
<1>2. \A f \in File : Value(f)' = live[f]
  BY <1>1 DEF Value, InFlight
<1>3. CASE txn.files \cap Managed = {}
  <2>1. \A f \in File : Value(f) = live[f]
    BY <1>1, <1>3 DEF Value, InFlight
  <2> QED
    BY <1>1, <1>2, <2>1 DEF Installed
<1>4. CASE txn.files \cap Managed # {} /\ (setup.installOnly => linked)
  <2>1. \A f \in txn.files : live[f] = txn.cand
    BY <1>1, <1>4 DEF IInv, RenamedInv
  <2>2. approved = Candidates
    BY <1>1, <1>4 DEF IInv, ApprovedInv
  <2>3. \A f \in File : Value(f)' = Candidates[f]
    BY <1>2, <2>1 DEF Candidates
  <2>4. Installed' = Candidates
    BY <2>3 DEF Installed, Candidates
  <2> QED
    BY <1>1, <2>2, <2>4, CandidatesType DEF IInv
<1>5. CASE setup.installOnly /\ ~linked
  <2>1. \A f \in File : Value(f) = live[f]
    BY <1>1, <1>5 DEF Value
  <2> QED
    BY <1>1, <1>2, <2>1 DEF Installed
<1> QED
  BY <1>3, <1>4, <1>5

\* Every step is a step of AtomicReplace, or stutters there.
LEMMA RefineStep ==
  ASSUME IInv, TypeOK', Whole(setup), [Next]_vars
  PROVE  [Replace!ANext]_(Replace!aVars)
<1> USE DEF Replace!ANext, Replace!aVars
<1>0. TypeOK
  BY DEF IInv
<1>1. CASE Rename
  BY <1>1, RenameStep DEF Rename, bounds, Replace!Install
<1>2. CASE MarkCommitted
  BY <1>2, CommitStep DEF MarkCommitted, bounds, Replace!Install, Replace!Forget
<1>3. ASSUME SaveBegins \/ \E v \in Version : SaveEnds(v) \/ OtherWriter(v)
      PROVE  Replace!Save
  <2>1. /\ live'["binary"] = live["binary"] /\ UNCHANGED <<setup, lkg, pending, approved>>
        /\ linked' = linked \/ setup.installOnly
        /\ writes' = writes + 1
    BY <1>0, <1>3 DEF SaveBegins, SaveEnds, OtherWriter, TypeOK, File
  <2>2. Value("binary")' = Value("binary")
    <3>1. setup.installOnly /\ InFlight => "binary" \notin pending.files
      <4> SUFFICES ASSUME setup.installOnly, InFlight PROVE "binary" \notin pending.files
        OBVIOUS
      <4>1. pending.files \in setup.kinds
        BY DEF IInv, MarkerInv, InFlight
      <4>2. setup.kinds \subseteq {{"config"}}
        BY <1>0, TxnAssumption DEF TypeOK
      <4> QED
        BY <4>1, <4>2
    <3> QED
      BY <2>1, <3>1 DEF Value, InFlight, Managed
  <2>3. Value("config")' \in Content
    <3>1. (TypeOK => \A f \in File : Value(f) \in Content)'
      BY ValueType, PTL
    <3> QED
      BY <3>1 DEF File
  <2>4. Installed' = [Installed EXCEPT !["config"] = Value("config")']
    BY <2>2 DEF Installed, File
  <2> QED
    BY <2>1, <2>3, <2>4 DEF Replace!Save
<1>4. ASSUME ~Rename, ~MarkCommitted, ~SaveBegins,
             ~\E v \in Version : SaveEnds(v) \/ OtherWriter(v)
      PROVE  [Replace!ANext]_(Replace!aVars)
  <2>1. \A f \in File : Value(f)' = Value(f)
    BY <1>4, ValueKept DEF Next
  <2>2. Installed' = Installed
    BY <2>1 DEF Installed
  <2>5. writes' = writes
    BY <1>4
    DEF Next, vars, bounds, Start, Snapshot, Copy, SnapshotFails, Stage, StageFails,
        MarkInflight, MarkInflightFails, ProbeAccepts, ProbeRejects, RenameFails, Link, LinkFails,
        MarkCommittedFails, Unmark, Sweep, SweepFails, SweepDone, Crash, RecoverOnBoot,
        RollBack, RollBackFails, RecoveryDone
  <2>3. CASE ProbeAccepts
    <3>1. approved' \in [File -> Content]
      <4>1. approved' # NoPair \/ approved' = NoPair
        OBVIOUS
      <4>2. \A f \in File : staging[f] \in Content /\ live[f] \in Content
        BY <1>0, ContentFacts DEF TypeOK
      <4> QED
        BY <2>3, <4>2 DEF ProbeAccepts
    <3> QED
      BY <2>2, <2>5, <3>1 DEF Replace!Approve, Replace!Pair
  <2>4. CASE ~ProbeAccepts
    <3>1. approved' = approved \/ approved' = NoPair
      BY <1>4, <2>4
      DEF Next, vars, history, Return, Start, Snapshot, Copy, SnapshotFails, Stage, StageFails,
          MarkInflight, MarkInflightFails, ProbeRejects, RenameFails, Link, LinkFails,
          MarkCommittedFails, Unmark, Sweep, SweepFails, SweepDone, Crash, RecoverOnBoot,
          RollBack, RollBackFails, RecoveryDone
    <3> QED
      BY <2>2, <2>5, <3>1 DEF Replace!Forget
  <2> QED
    BY <2>3, <2>4
<1> QED
  BY <1>1, <1>2, <1>3, <1>4

\* For every set of versions and every setup whose boot manager can take back
\* all of a transaction or none of it: whatever crashes or fails, files are
\* replaced atomically, and only by a pair the probe accepted.
THEOREM TxnRefines == ASSUME \A s \in Setups : Whole(s) PROVE Spec => Refines
<1>1. Init => Replace!AInit
  <2> SUFFICES ASSUME Init PROVE Replace!AInit
    OBVIOUS
  <2>1. TypeOK
    BY InitType
  <2>2. Installed \in [File -> Content]
    BY <2>1, ValueType DEF Installed
  <2> QED
    BY <2>2 DEF Init, Replace!AInit, Replace!Pair
<1>2. IInv /\ IInv' /\ Whole(setup) /\ [Next]_vars => [Replace!ANext]_(Replace!aVars)
  BY RefineStep DEF IInv
<1>3. Spec => [](IInv /\ Whole(setup))
  BY Invariance
<1> QED
  BY <1>1, <1>2, <1>3, PTL DEF Spec, Refines, Replace!ASpec

----------------------------------------------------------------------------
\* The promises.  An action that reports nothing, starts nothing and writes no
\* value keeps them.

\* What the action leaves alone, as far as promises go.
Silent == /\ \A f \in File : Value(f)' = Value(f)
          /\ UNCHANGED <<setup, promise>>
          /\ txn'.files = txn.files /\ txn'.cand = txn.cand
          /\ txn'.base = txn.base /\ txn'.outcome = txn.outcome

\* A silent action keeps what was promised and what will be reported.
LEMMA SilentStep ==
  ASSUME TypeOK, PromiseInv, Silent, phase # "commit" \/ phase' = "commit" \/ txn.files = {}
  PROVE  /\ PromisedInv' /\ ReportInv'
         /\ \A f \in txn.files : promise'[f] = Unknown \/ (setup'.installOnly /\ promise'[f] # None)
<1>1. PromisedInv'
  BY DEF PromiseInv, PromisedInv, Silent
<1>2. txn.files \subseteq File
  BY TxnFacts DEF TypeOK
<1>3. ReportInv'
  BY <1>2 DEF PromiseInv, ReportInv, Silent
<1> QED
  BY <1>1, <1>3 DEF PromiseInv, WritersInv, Silent

\* A report, when the value of every file is settled.
LEMMA ReturnStep ==
  ASSUME TypeOK, PromiseInv, NEW o \in Outcome, Return(o),
         \A f \in File : Value(f)' = Value(f), UNCHANGED setup,
         phase # "commit", o = txn.outcome,
         setup.faults \cap Lingering = {} => pending' = NoPending
  PROVE  PromiseInv'
<1>1. phase' = "idle" /\ txn' = NoTxn /\ NoTxn.files = {} /\ NoTxn.outcome = "rollback"
  BY DEF Return, NoTxn
<1>2. PromisedInv'
  <2> SUFFICES ASSUME NEW f \in File, promise'[f] # Unknown PROVE Value(f)' = promise'[f]
    BY DEF PromisedInv
  <2>1. promise'[f] = IF f \notin txn.files \/ promise[f] # Unknown THEN promise[f]
                      ELSE IF o = "committed" THEN txn.cand ELSE txn.base[f]
    BY DEF Return
  <2>2. CASE f \notin txn.files \/ promise[f] # Unknown
    BY <2>1, <2>2 DEF PromiseInv, PromisedInv
  <2>3. CASE f \in txn.files /\ promise[f] = Unknown
    BY <2>1, <2>3 DEF PromiseInv, ReportInv, Outcome
  <2> QED
    BY <2>2, <2>3
<1> QED
  BY <1>1, <1>2 DEF PromiseInv, ReportInv, WritersInv, RunInv, Sweeping

\* A step of any action of a setup whose reports are final keeps PromiseInv.
LEMMA PromiseStep ==
  ASSUME IInv, TypeOK', Whole(setup), Final(setup), PromiseInv, [Next]_vars
  PROVE  PromiseInv'
<1>0. TypeOK
  BY DEF IInv
<1>1. ASSUME NEW kind \in Kind, NEW v \in Version, Start(kind, v) PROVE PromiseInv'
  <2>1. /\ txn'.files = kind /\ txn'.base = live /\ txn'.outcome = "rollback"
        /\ phase' = "sweep" /\ next' = "snapshot" /\ kind \subseteq File
        /\ UNCHANGED <<setup, files, pending>> /\ pending = NoPending
    BY <1>1 DEF Start, NoTxn, Kind
  <2>2. \A f \in File : Value(f)' = live[f] /\ Value(f) = live[f]
    BY <2>1 DEF Value, InFlight, files
  <2>3. \A f \in File : promise'[f] = IF f \in kind THEN Unknown ELSE promise[f]
    BY <1>1 DEF Start
  <2> QED
    BY <2>1, <2>2, <2>3 DEF PromiseInv, PromisedInv, ReportInv, WritersInv, RunInv, Sweeping
<1>2. CASE \/ Snapshot \/ Copy \/ Stage \/ StageFails \/ MarkInflight \/ MarkInflightFails
           \/ ProbeAccepts \/ ProbeRejects \/ LinkFails \/ RecoverOnBoot \/ RollBack \/ RecoveryDone
  <2>1. \A f \in File : Value(f)' = Value(f)
    BY <1>2, ValueKept
  <2>2. /\ UNCHANGED <<setup, promise>>
        /\ txn' = txn \/ \E f \in File : txn' = [txn EXCEPT !.noPrior = @ \cup {f}]
    BY <1>2
    DEF Snapshot, Copy, Stage, StageFails, MarkInflight, MarkInflightFails, ProbeAccepts,
        ProbeRejects, LinkFails, RecoverOnBoot, RollBack, RecoveryDone, history, Config1st, File
  <2>3. Silent
    BY <1>0, <2>1, <2>2 DEF Silent, TypeOK, Txn
  <2>4. /\ phase # "commit" /\ phase' # "commit" /\ phase' # "idle" /\ phase' # "saving" /\ phase' # "down"
        /\ phase # "unmark" /\ (Sweeping("unmark") <=> FALSE)
    BY <1>2
    DEF Snapshot, Copy, Stage, StageFails, MarkInflight, MarkInflightFails, ProbeAccepts,
        ProbeRejects, LinkFails, RecoverOnBoot, RollBack, RecoveryDone, Goto, Advance, SweepThen, Sweeping, InFlight
  <2>5. txn.outcome = "rollback"
    BY <2>4 DEF PromiseInv, RunInv
  <2> QED
    BY <1>0, <2>3, <2>4, <2>5, SilentStep DEF Silent, PromiseInv, WritersInv, RunInv
<1>3. CASE SnapshotFails
  <2>1. \A f \in File : Value(f)' = Value(f)
    BY <1>3, ValueKept
  <2>2. /\ phase \in {"snapshot", "copy"} /\ pending' = NoPending /\ setup' = setup
    BY <1>3 DEF SnapshotFails, IInv, BeforeMarkerInv
  <2>3. txn.outcome = "rollback"
    BY <2>2 DEF PromiseInv, RunInv, Sweeping
  <2>4. CASE Return("rollback")
    BY <1>0, <2>1, <2>2, <2>3, <2>4, ReturnStep DEF Outcome
  <2>5. CASE SweepThen({"lkg"} \X txn.files, "idle") /\ UNCHANGED <<txn, history>>
    BY <1>0, <2>1, <2>2, <2>3, <2>5, SilentStep
    DEF Silent, SweepThen, history, PromiseInv, WritersInv, RunInv
  <2> QED
    BY <1>3, <2>4, <2>5 DEF SnapshotFails
<1>4. CASE Rename
  <2>1. \A f \in File : Value(f)' = Value(f) \/ (promise[f] = Unknown /\ phase' = "commit")
    <3>0. PICK f : f = Binary1st
      OBVIOUS
    <3>1. /\ phase = "rename" /\ ~setup.installOnly /\ f \in todo /\ f \in txn.files /\ f \in File
          /\ live' = [live EXCEPT ![f] = staging[f]] /\ UNCHANGED <<setup, lkg, linked, pending>>
          /\ Snapshotted(f) /\ pending.files = txn.files /\ pending.noPrior = txn.noPrior
          /\ InFlight
      BY <1>4, <3>0, FirstFacts, TxnAssumption
      DEF Rename, IInv, TypeOK, AfterMarkerInv, SnapshotInv, Txn, Marker, InFlight
    <3>2. \A g \in File \ {f} : Value(g)' = Value(g)
      BY <1>0, <3>1 DEF Value, InFlight, Managed, TypeOK
    <3>3. CASE f \in Managed
      BY <3>1, <3>2, <3>3 DEF Value, InFlight, Managed, Snapshotted
    <3>4. CASE f \notin Managed
      <4>1. approved' = NoPair /\ approved = Candidates
        BY <1>4, <3>0, <3>1, <3>4 DEF Rename, IInv, ApprovedInv
      <4>2. phase' = "commit"
        <5>1. f = "binary" /\ ~setup.knowsBinary
          BY <3>1, <3>4 DEF Managed, File
        <5>2. txn.files # File
          BY <3>1, <5>1 DEF Whole, IInv, MarkerInv, InFlight
        <5>3. txn.files \subseteq File /\ todo \subseteq txn.files
          BY <1>0, <3>1, TxnFacts DEF IInv, AfterMarkerInv, TypeOK
        <5>4. \A g \in File : g # f => g \notin txn.files
          BY <3>1, <5>1, <5>2, <5>3 DEF File
        <5>5. todo = {f}
          BY <3>1, <5>3, <5>4
        <5> QED
          BY <1>4, <3>0, <5>5 DEF Rename, Advance
      <4>3. promise[f] = Unknown
        BY <3>1 DEF PromiseInv, WritersInv
      <4> QED
        BY <3>2, <4>2, <4>3
    <3> QED
      BY <3>3, <3>4
  <2>2. /\ UNCHANGED <<setup, promise, txn>> /\ phase = "rename" /\ phase' \in {"rename", "commit"}
        /\ ~setup.installOnly /\ txn.files \subseteq File
    BY <1>0, <1>4, TxnFacts DEF Rename, Advance, TypeOK
  <2>3. txn.outcome = "rollback"
    BY <2>2 DEF PromiseInv, RunInv, Sweeping
  <2> QED
    BY <2>1, <2>2, <2>3 DEF PromiseInv, PromisedInv, ReportInv, WritersInv, RunInv, Sweeping
<1>5. CASE RenameFails
  <2>1. \A f \in File : Value(f)' = Value(f)
    BY <1>5, ValueKept
  <2>2. phase = "rename" /\ setup' = setup /\ Return("rollback") /\ setup.faults \cap Lingering # {}
    BY <1>5 DEF RenameFails, May, Lingering
  <2>3. txn.outcome = "rollback"
    BY <2>2 DEF PromiseInv, RunInv, Sweeping
  <2> QED
    BY <1>0, <2>1, <2>2, <2>3, ReturnStep DEF Outcome
<1>6. CASE Link
  <2>1. \A f \in File : Value(f)' = Value(f)
    BY <1>6, ValueKept
  <2>2. /\ phase = "rename" /\ phase' = "commit" /\ linked' = TRUE /\ setup.installOnly
        /\ UNCHANGED <<setup, txn, promise>> /\ live["config"] = None /\ ~linked
    BY <1>6 DEF Link, Goto, history, IInv, AfterMarkerInv
  <2>3. "config" \in txn.files
    <3>1. txn.files \in setup.kinds /\ txn.files # {}
      BY <2>2, TxnAssumption DEF IInv, AfterMarkerInv, MarkerInv, TypeOK, Txn, Marker
    <3>2. setup.kinds \subseteq {{"config"}}
      BY <1>0, <2>2, TxnAssumption DEF TypeOK
    <3> QED
      BY <3>1, <3>2
  <2>4. promise["config"] = Unknown
    <3>1. Value("config") = None
      BY <2>2 DEF Value
    <3> QED
      BY <2>3, <3>1 DEF PromiseInv, PromisedInv, WritersInv, File
  <2>5. Silent
    BY <2>1, <2>2 DEF Silent
  <2>6. txn.outcome = "rollback"
    BY <2>2 DEF PromiseInv, RunInv, Sweeping
  <2> QED
    BY <1>0, <2>2, <2>4, <2>5, <2>6, SilentStep DEF PromiseInv, WritersInv, RunInv
<1>7. CASE MarkCommitted
  <2>1. /\ phase = "commit" /\ pending \in Marker /\ pending'.state = "committed"
        /\ pending # NoPending /\ pending.state = "inflight" /\ pending.files = txn.files
        /\ UNCHANGED <<setup, live, lkg, linked, staging, promise>>
        /\ phase' = "sweep" /\ next' = "unmark"
    BY <1>7, TxnAssumption
    DEF MarkCommitted, SweepThen, files, IInv, TypeOK, AfterMarkerInv, Marker, Txn
  <2>2. /\ txn'.files = txn.files /\ txn'.cand = txn.cand /\ txn'.outcome = "committed"
        /\ txn.files \subseteq File
    BY <1>0, <1>7, TxnFacts DEF MarkCommitted, TypeOK, Txn
  <2>3. \A f \in File : Value(f)' = live[f]
    BY <2>1 DEF Value, InFlight
  <2>4. ASSUME NEW f \in txn.files, promise[f] = Unknown PROVE live[f] = txn.cand
    <3>1. setup.installOnly => f = "config"
      <4>1. txn.files \in setup.kinds
        BY <2>1 DEF IInv, MarkerInv
      <4> QED
        BY <1>0, <4>1, TxnAssumption DEF TypeOK
    <3> QED
      BY <2>1, <2>4, <3>1 DEF IInv, RenamedInv, PromiseInv, WritersInv
  <2>5. ASSUME NEW f \in File, promise[f] # Unknown PROVE live[f] = promise[f]
    <3>1. Value(f) = promise[f]
      BY <2>5 DEF PromiseInv, PromisedInv
    <3>2. CASE f \notin txn.files
      BY <2>1, <3>1, <3>2 DEF Value
    <3>3. CASE f \in txn.files
      <4>1. setup.installOnly
        BY <2>5, <3>3 DEF PromiseInv, WritersInv
      <4>2. f = "config"
        <5>1. txn.files \in setup.kinds
          BY <2>1 DEF IInv, MarkerInv
        <5> QED
          BY <1>0, <3>3, <4>1, <5>1, TxnAssumption DEF TypeOK
      <4>3. ~linked
        BY <2>1, <2>5, <4>1, <4>2 DEF PromiseInv, WritersInv
      <4> QED
        BY <3>1, <4>1, <4>3 DEF Value
    <3> QED
      BY <3>2, <3>3
  <2>6. PromisedInv'
    BY <2>1, <2>3, <2>5 DEF PromisedInv
  <2>7. ReportInv'
    BY <2>1, <2>2, <2>3, <2>4 DEF ReportInv
  <2> QED
    BY <2>1, <2>2, <2>6, <2>7 DEF PromiseInv, WritersInv, RunInv, Sweeping
<1>8. CASE MarkCommittedFails
  BY <1>8 DEF MarkCommittedFails, May, Final
<1>9. CASE Unmark
  <2>1. \A f \in File : Value(f)' = Value(f)
    BY <1>9, ValueKept
  <2>2. /\ phase = "unmark" /\ setup' = setup /\ Return(txn.outcome)
        /\ setup.faults \cap Lingering = {} => pending' = NoPending
    BY <1>9 DEF Unmark, May, Lingering
  <2> QED
    BY <1>0, <2>1, <2>2, TxnFacts, ReturnStep DEF TypeOK
<1>10. ASSUME NEW slot \in Area \X File, Sweep(slot) \/ SweepFails(slot) PROVE PromiseInv'
  <2>1. \A f \in File : Value(f)' = Value(f)
    BY <1>10, ValueKept
  <2>2. phase = "sweep" /\ setup' = setup
    BY <1>10 DEF Sweep, SweepFails
  <2>3. CASE UNCHANGED <<phase, next, txn, promise>>
    <3>1. Silent
      BY <2>1, <2>2, <2>3 DEF Silent
    <3> QED
      BY <1>0, <2>2, <2>3, <3>1, SilentStep DEF PromiseInv, WritersInv, RunInv, Sweeping
  <2>4. CASE next = "snapshot" /\ Return("rollback") /\ UNCHANGED pending
    <3>1. pending = NoPending
      BY <2>2, <2>4 DEF IInv, BeforeMarkerInv, Sweeping
    <3>2. txn.outcome = "rollback"
      BY <2>2, <2>4 DEF PromiseInv, RunInv, Sweeping
    <3> QED
      BY <1>0, <2>1, <2>2, <2>4, <3>1, <3>2, ReturnStep DEF Outcome
  <2> QED
    BY <1>10, <2>3, <2>4 DEF Sweep, SweepFails, history
<1>11. CASE SweepDone
  <2>1. \A f \in File : Value(f)' = Value(f)
    BY <1>11, ValueKept
  <2>2. phase = "sweep" /\ setup' = setup /\ pending' = pending
    BY <1>11 DEF SweepDone
  <2>3. CASE next = "idle" /\ Return(txn.outcome)
    <3>1. pending = NoPending
      BY <2>2, <2>3 DEF IInv, MarkerInv, Sweeping
    <3> QED
      BY <1>0, <2>1, <2>2, <2>3, <3>1, TxnFacts, ReturnStep DEF TypeOK
  <2>4. CASE next # "idle" /\ phase' = next /\ UNCHANGED <<todo, trash, next, txn, history>>
    <3>1. Silent /\ next \in {"snapshot", "unmark", "recover"}
      BY <2>1, <2>2, <2>4 DEF Silent, history, IInv, MarkerInv
    <3> QED
      BY <1>0, <2>2, <2>4, <3>1, SilentStep DEF PromiseInv, WritersInv, RunInv, Sweeping, Silent
  <2> QED
    BY <1>11, <2>3, <2>4 DEF SweepDone
<1>12. CASE Crash
  <2>1. \A f \in File : Value(f)' = Value(f)
    BY <1>12, ValueKept
  <2>2. /\ phase' = "down" /\ UNCHANGED <<setup, promise>>
        /\ txn'.files = {} /\ txn'.outcome = "rollback"
    BY <1>12 DEF Crash, NoTxn
  <2> QED
    BY <2>1, <2>2 DEF PromiseInv, PromisedInv, ReportInv, WritersInv, RunInv, Sweeping
<1>13. CASE RollBackFails
  <2>1. \A f \in File : Value(f)' = Value(f)
    BY <1>13, ValueKept
  <2>2. /\ phase = "recover" /\ setup' = setup /\ Return("rollback")
        /\ setup.faults \cap Lingering # {}
    BY <1>13 DEF RollBackFails, May, Lingering
  <2>3. txn.outcome = "rollback"
    BY <2>2 DEF PromiseInv, RunInv, Sweeping
  <2> QED
    BY <1>0, <2>1, <2>2, <2>3, ReturnStep DEF Outcome
<1>14. CASE SaveBegins \/ \E v \in Version : SaveEnds(v)
  <2>1. /\ phase \in {"idle", "saving"} /\ phase' \in {"idle", "saving"}
        /\ live'["binary"] = live["binary"] /\ promise'["binary"] = promise["binary"]
        /\ promise'["config"] \in {Unknown, live'["config"]}
        /\ UNCHANGED <<setup, pending, txn>>
    BY <1>0, <1>14 DEF SaveBegins, SaveEnds, Goto, TypeOK, File
  <2>2. setup.faults \cap Lingering = {}
    <3>1. phase = "idle" => setup.writes /\ ~setup.installOnly
      BY <1>14 DEF SaveBegins, SaveEnds
    <3>2. phase = "saving" => setup.writes /\ ~setup.installOnly
      BY DEF PromiseInv, RunInv
    <3> QED
      BY <2>1, <3>1, <3>2 DEF Final
  <2>3. pending = NoPending /\ txn.files = {} /\ txn.outcome = "rollback"
    BY <2>1, <2>2 DEF PromiseInv, RunInv, Sweeping
  <2>4. \A f \in File : Value(f)' = live'[f] /\ Value(f) = live[f]
    BY <2>1, <2>3 DEF Value, InFlight
  <2>5. phase' = "saving" => setup.writes /\ ~setup.installOnly
    BY <1>14 DEF SaveBegins, SaveEnds, Goto
  <2> QED
    BY <2>1, <2>3, <2>4, <2>5 DEF PromiseInv, PromisedInv, ReportInv, WritersInv, RunInv, Sweeping, File
<1>15. ASSUME NEW v \in Version, OtherWriter(v) PROVE PromiseInv'
  <2>1. /\ setup.installOnly /\ live'["config"] = v /\ live'["binary"] = live["binary"]
        /\ promise'["config"] = v /\ promise'["binary"] = promise["binary"]
        /\ linked' = FALSE /\ UNCHANGED <<setup, pending, phase, next, txn, lkg>>
    BY <1>0, <1>15 DEF OtherWriter, control, TypeOK, File
  <2>2. v # Unknown /\ v # None
    BY TxnAssumption
  <2>3. InFlight => "binary" \notin pending.files
    <3> SUFFICES ASSUME InFlight PROVE "binary" \notin pending.files
      OBVIOUS
    <3>1. pending.files \in setup.kinds
      BY DEF IInv, MarkerInv, InFlight
    <3> QED
      BY <1>0, <2>1, <3>1, TxnAssumption DEF TypeOK
  <2>4. Value("binary")' = Value("binary") /\ Value("config")' = v
    BY <2>1, <2>3 DEF Value, InFlight, Managed
  <2>5. PromisedInv'
    BY <2>1, <2>4 DEF PromiseInv, PromisedInv, File
  <2>6. txn.files \subseteq File
    BY <1>0, TxnFacts DEF TypeOK
  <2>7. ReportInv'
    BY <2>1, <2>2, <2>4, <2>6 DEF PromiseInv, ReportInv, File
  <2>8. WritersInv'
    BY <2>1, <2>2, <2>6 DEF PromiseInv, WritersInv, File
  <2> QED
    BY <2>1, <2>5, <2>7, <2>8 DEF PromiseInv, RunInv, Sweeping
<1>16. CASE UNCHANGED vars
  BY <1>16
  DEF vars, PromiseInv, PromisedInv, ReportInv, WritersInv, RunInv, Sweeping, Value, InFlight, Managed
<1> QED
  BY <1>1, <1>2, <1>3, <1>4, <1>5, <1>6, <1>7, <1>8, <1>9, <1>10, <1>11, <1>12, <1>13,
     <1>14, <1>15, <1>16
  DEF Next

LEMMA SetupKept == [Next]_vars => setup' = setup
<1>1. CASE UNCHANGED vars
  BY <1>1 DEF vars
<1>2. ASSUME NEW kind \in Kind, NEW v \in Version, Start(kind, v) PROVE setup' = setup
  BY <1>2 DEF Start
<1>3. ASSUME NEW slot \in Area \X File, Sweep(slot) \/ SweepFails(slot) PROVE setup' = setup
  BY <1>3 DEF Sweep, SweepFails
<1>4. ASSUME NEW v \in Version, SaveEnds(v) \/ OtherWriter(v) PROVE setup' = setup
  BY <1>4 DEF SaveEnds, OtherWriter
<1>5. CASE \/ Snapshot \/ Copy \/ SnapshotFails \/ Stage \/ StageFails \/ MarkInflight
           \/ MarkInflightFails \/ ProbeAccepts \/ ProbeRejects \/ Rename \/ RenameFails
           \/ Link \/ LinkFails
  BY <1>5 DEF Snapshot, Copy, SnapshotFails, Stage, StageFails, MarkInflight, MarkInflightFails,
     ProbeAccepts, ProbeRejects, Rename, RenameFails, Link, LinkFails
<1>6. CASE \/ MarkCommitted \/ MarkCommittedFails \/ Unmark \/ SweepDone \/ Crash
           \/ RecoverOnBoot \/ RollBack \/ RollBackFails \/ RecoveryDone \/ SaveBegins
  BY <1>6 DEF MarkCommitted, MarkCommittedFails, Unmark, SweepDone, Crash, RecoverOnBoot,
     RollBack, RollBackFails, RecoveryDone, SaveBegins
<1> QED
  BY <1>1, <1>2, <1>3, <1>4, <1>5, <1>6 DEF Next

\* For every such setup: where reports are final, what Run reported of a file, or
\* a save wrote to it, is what is on disk once no marker is left.
THEOREM PromisesKept ==
  ASSUME \A s \in Setups : Whole(s)
  PROVE  Spec => []ReportsFinal
<1>1. Init => FinalInv
  BY DEF Init, FinalInv, PromiseInv, PromisedInv, ReportInv, WritersInv, RunInv, Value, InFlight,
     Sweeping, NoTxn
<1>2. /\ IInv /\ Whole(setup) /\ (IInv /\ Whole(setup))' /\ FinalInv /\ [Next]_vars
      => FinalInv'
  <2> SUFFICES ASSUME IInv, Whole(setup), IInv', FinalInv, [Next]_vars, Final(setup)'
               PROVE  PromiseInv'
    BY DEF FinalInv
  <2>1. TypeOK'
    BY DEF IInv
  <2>2. Final(setup)
    BY SetupKept
  <2>3. PromiseInv
    BY <2>2 DEF FinalInv
  <2> QED
    BY <2>1, <2>2, <2>3, PromiseStep
<1>3. FinalInv => ReportsFinal
  BY DEF FinalInv, ReportsFinal, PromiseInv, PromisedInv, PromiseKept, Value, InFlight
<1>4. Spec => [](IInv /\ Whole(setup))
  BY Invariance
<1> QED
  BY <1>1, <1>2, <1>3, <1>4, PTL DEF Spec

\* For every such setup: no step of an initial installation, its recovery
\* included, replaces or removes a configuration it has not itself linked.
THEOREM ForeignConfigIsKept ==
  ASSUME \A s \in Setups : Whole(s)
  PROVE  Spec => ForeignConfigKept
<1> DEFINE Foreign == setup.installOnly /\ live["config"] # None /\ ~linked
           Kept == live'["config"] = live["config"] \/ writes' > writes
<1>1. ASSUME IInv, Next, Foreign PROVE Kept
  <2>0. TypeOK /\ RecoverInv
    BY <1>1 DEF IInv
  <2>1. CASE live' = live
    BY <2>1
  <2>2. CASE \E v \in Version : OtherWriter(v) \/ SaveEnds(v)
    BY <2>0, <2>2 DEF OtherWriter, SaveEnds, TypeOK
  <2>3. CASE RollBack
    BY <1>1, <2>3 DEF RollBack, files
  <2>4. ASSUME NEW slot \in Area \X File, Sweep(slot) PROVE live' = live
    <3>1. PICK a \in Area, f \in File : slot = <<a, f>>
      OBVIOUS
    <3>2. a # "live"
      BY <1>1, <2>0, <2>4, <3>1 DEF RecoverInv, Sweep
    <3> QED
      BY <2>4, <3>1, <3>2 DEF Sweep, SweepTo
  <2> QED
    BY <1>1, <2>1, <2>2, <2>3, <2>4
    DEF Next, files, bounds, Start, Snapshot, Copy, SnapshotFails, Stage, StageFails,
        MarkInflight, MarkInflightFails, ProbeAccepts, ProbeRejects, Rename, RenameFails, Link,
        LinkFails, MarkCommitted, MarkCommittedFails, Unmark, SweepFails, SweepDone, Crash,
        RecoverOnBoot, RollBackFails, RecoveryDone, SaveBegins
<1>2. IInv /\ [Next]_vars => [Foreign => Kept]_vars
  BY <1>1
<1>3. Spec => []IInv
  BY Invariance, PTL
<1> QED
  BY <1>2, <1>3, PTL DEF Spec, ForeignConfigKept
=============================================================================
