-------------------------------- MODULE Txn --------------------------------
(***************************************************************************)
(* The transactional replace of radio-gaga's files (internal/txn): a       *)
(* manager snapshots the live files to .lkg, stages the candidates to      *)
(* .staging, writes the pending marker, probes, renames, marks the         *)
(* transaction committed and cleans up; RecoverOnBoot repairs what a crash *)
(* left.  Every file operation is a step, any of them may be the last one  *)
(* before a crash, and those in setup.faults may fail.                     *)
(*                                                                         *)
(* A transaction's kind is the set of files it swaps.  The contents of a   *)
(* file are a version; a candidate gives every swapped file one version.   *)
(* Deletions of .staging and .lkg files are made in no particular order:   *)
(* nothing depends on it, and no directory is synced between them.         *)
(***************************************************************************)
EXTENDS Naturals, FiniteSets

CONSTANTS Version,   \* versions of a file
          None,      \* the file does not exist
          Torn,      \* a file a crash left half written
          Unknown,   \* nothing was promised of a file
          NoPending, \* there is no pending marker
          NoPair,    \* the probe has approved nothing
          Setups,    \* the installations to consider, see Setup
          MaxRuns,   \* bound on the transactions of a behaviour
          MaxWrites  \* bound on the writes of other writers

File == {"config", "binary"}
Area == {"live", "staging", "lkg"}
Content == Version \cup {None, Torn}
Kind == (SUBSET File) \ {{}}
Fault == {"snapshot", "stage", "mark", "rename", "commit", "remove", "unmark", "restore"}

\* How an installation's managers are built, and what may go wrong in it:
\* the kinds it runs, ConfigInstallOnly, whether the manager that recovers at
\* boot has LiveBinaryPath, whether something else writes the configuration.
Setup == [kinds : SUBSET Kind, installOnly : BOOLEAN, knowsBinary : BOOLEAN,
          writes : BOOLEAN, faults : SUBSET Fault]

ASSUME TxnAssumption ==
  /\ Setups \subseteq Setup
  /\ \A s \in Setups : s.installOnly => s.kinds \subseteq {{"config"}}
  /\ {None, Torn, Unknown} \cap Version = {}
  /\ None # Torn /\ None # Unknown /\ Torn # Unknown
  /\ NoPair \notin [File -> Content]
  /\ NoPending \notin [files : SUBSET File, state : {"inflight", "committed"}, noPrior : SUBSET File]
  /\ MaxRuns \in Nat /\ MaxWrites \in Nat

VARIABLES
  setup,     \* the installation, chosen once
  live, staging, lkg, \* the files
  linked,    \* live and staged configuration are one inode
  pending,   \* the marker file
  phase,     \* where the process is
  todo,      \* files the current phase has still to handle
  trash,     \* files a sweep has still to delete
  next,      \* the phase that follows the sweep
  txn,       \* Run's arguments and locals
  approved,  \* history: the pair the probe accepted
  promise,   \* history: what the last report, or a save, said of each file
  runs,      \* transactions started, at most MaxRuns
  writes     \* writes of other writers (a save makes two); none begins after MaxWrites

files == <<live, staging, lkg, linked>>
control == <<phase, todo, trash, next>>
history == <<approved, promise>>
bounds == <<runs, writes>>
vars == <<setup, live, staging, lkg, linked, pending, phase, todo, trash, next,
          txn, approved, promise, runs, writes>>

Phase == {"down", "recover", "sweep", "unmark", "idle", "snapshot", "copy",
          "stage", "mark", "probe", "rename", "commit", "saving"}
Outcome == {"rollback", "committed"}
Marker == [files : SUBSET File, state : {"inflight", "committed"}, noPrior : SUBSET File]
Txn == [files : SUBSET File, cand : Version \cup {None}, noPrior : SUBSET File,
        base : [File -> Content], outcome : Outcome]

NoTxn == [files |-> {}, cand |-> None, noPrior |-> {},
          base |-> [f \in File |-> None], outcome |-> "rollback"]

----------------------------------------------------------------------------
TypeOK ==
  /\ setup \in Setups
  /\ live \in [File -> Content]
  /\ staging \in [File -> Version \cup {None}]
  /\ lkg \in [File -> Content]
  /\ linked \in BOOLEAN
  /\ pending \in Marker \cup {NoPending}
  /\ phase \in Phase
  /\ todo \in SUBSET File
  /\ trash \in SUBSET (Area \X File)
  /\ next \in Phase
  /\ txn \in Txn
  /\ approved \in [File -> Content] \cup {NoPair}
  /\ promise \in [File -> Content \cup {Unknown}]
  /\ runs \in Nat /\ writes \in Nat

\* The binary exists, the process runs from it; a configuration may not.
Init ==
  /\ setup \in Setups
  /\ live \in {l \in [File -> Version \cup {None}] : l["binary"] # None}
  /\ staging = [f \in File |-> None] /\ lkg = [f \in File |-> None]
  /\ linked = FALSE
  /\ pending = NoPending
  /\ phase = "down"
  /\ todo = {} /\ trash = {} /\ next = "idle"
  /\ txn = NoTxn
  /\ approved = NoPair
  /\ promise = live
  /\ runs = 0 /\ writes = 0

----------------------------------------------------------------------------
\* Helpers.

May(fault) == fault \in setup.faults
InFlight == pending # NoPending /\ pending.state = "inflight"
Managed == IF setup.knowsBinary THEN File ELSE {"config"}

\* Configuration first everywhere, binary first in the commit.
Config1st == IF "config" \in todo THEN "config" ELSE "binary"
Binary1st == IF "binary" \in todo THEN "binary" ELSE "config"

\* f is done in this phase: the next file, or the next phase with all of them.
Advance(f, again, then) ==
  /\ IF todo = {f} THEN phase' = then /\ todo' = txn.files
                   ELSE phase' = again /\ todo' = todo \ {f}
  /\ UNCHANGED <<trash, next>>

Goto(p) == phase' = p /\ UNCHANGED <<todo, trash, next>>

\* Delete these files, then go on with phase p.
SweepThen(slots, p) ==
  phase' = "sweep" /\ trash' = slots /\ next' = p /\ UNCHANGED todo

\* Run reports an outcome and returns: the report is a promise about the files
\* it swapped, unless another writer has replaced the configuration meanwhile.
Return(outcome) ==
  /\ phase' = "idle" /\ todo' = {} /\ trash' = {} /\ next' = "idle"
  /\ txn' = NoTxn
  /\ approved' = NoPair
  /\ promise' = [f \in File |->
       IF f \notin txn.files \/ promise[f] # Unknown THEN promise[f]
       ELSE IF outcome = "committed" THEN txn.cand ELSE txn.base[f]]

----------------------------------------------------------------------------
\* Run, up to the marker.

\* Mutant: Run does not look for a marker.
StartAnyway(kind, cand) ==
  /\ phase = "idle" /\ runs < MaxRuns
  /\ kind \in setup.kinds
  /\ setup.installOnly => live["config"] = None
  /\ txn' = [NoTxn EXCEPT !.files = kind, !.cand = cand, !.base = live]
  /\ todo' = kind /\ phase' = "sweep" /\ next' = "snapshot"
  /\ trash' = {"staging", "lkg"} \X kind
  /\ promise' = [f \in File |-> IF f \in kind THEN Unknown ELSE promise[f]]
  /\ runs' = runs + 1
  /\ UNCHANGED <<setup, files, pending, approved, writes>>

\* Refuses while a marker exists; an initial installation also refuses an
\* existing configuration.  Leftovers of the swapped files go first.
Start(kind, cand) ==
  /\ phase = "idle" /\ pending = NoPending /\ runs < MaxRuns
  /\ kind \in setup.kinds
  /\ setup.installOnly => live["config"] = None
  /\ txn' = [NoTxn EXCEPT !.files = kind, !.cand = cand, !.base = live]
  /\ todo' = kind /\ phase' = "sweep" /\ next' = "snapshot"
  /\ trash' = {"staging", "lkg"} \X kind
  /\ promise' = [f \in File |-> IF f \in kind THEN Unknown ELSE promise[f]]
  /\ runs' = runs + 1
  /\ UNCHANGED <<setup, files, pending, approved, writes>>

\* snapshotLkg: nothing to copy, or the copy begins.
Snapshot ==
  /\ phase = "snapshot"
  /\ LET f == Config1st IN
       IF live[f] = None
       THEN /\ txn' = [txn EXCEPT !.noPrior = @ \cup {f}]
            /\ Advance(f, "snapshot", "stage")
            /\ UNCHANGED lkg
       ELSE /\ lkg' = [lkg EXCEPT ![f] = Torn]
            /\ Goto("copy")
            /\ UNCHANGED txn
  /\ UNCHANGED <<setup, live, staging, linked, pending, history, bounds>>

\* Mutant: copyFile returns before the bytes are on disk.
CopyUnsynced ==
  /\ phase = "copy"
  /\ IF setup.installOnly
     THEN SweepThen({<<"lkg", Config1st>>}, "idle")
     ELSE Advance(Config1st, "snapshot", "stage")
  /\ UNCHANGED <<setup, files, pending, txn, history, bounds>>

\* The copy is complete; an initial installation gives up, the configuration
\* has appeared since Start looked.
Copy ==
  /\ phase = "copy"
  /\ LET f == Config1st IN
       /\ lkg' = [lkg EXCEPT ![f] = live[f]]
       /\ IF setup.installOnly
          THEN SweepThen({<<"lkg", f>>}, "idle")
          ELSE Advance(f, "snapshot", "stage")
  /\ UNCHANGED <<setup, live, staging, linked, pending, txn, history, bounds>>

\* The copy fails, and may leave anything when it fails late; the binary's
\* failure also takes back the snapshots.
SnapshotFails ==
  /\ phase \in {"snapshot", "copy"} /\ May("snapshot")
  /\ \E v \in IF phase = "copy" THEN {None, Torn, live[Config1st]} ELSE {lkg[Config1st]} :
       lkg' = [lkg EXCEPT ![Config1st] = v]
  /\ IF Config1st = "config"
     THEN Return("rollback")
     ELSE SweepThen({"lkg"} \X txn.files, "idle") /\ UNCHANGED <<txn, history>>
  /\ UNCHANGED <<setup, live, staging, linked, pending, bounds>>

\* Mutant: the candidate is written to .staging in place.
StageInPlace ==
  /\ phase = "stage"
  /\ \/ staging' = [staging EXCEPT ![Config1st] = Torn] /\ UNCHANGED control
     \/ /\ staging' = [staging EXCEPT ![Config1st] = txn.cand]
        /\ Advance(Config1st, "stage", "mark")
  /\ UNCHANGED <<setup, live, lkg, linked, pending, txn, history, bounds>>

\* writeFileSync: a temporary file renamed to .staging.
Stage ==
  /\ phase = "stage"
  /\ LET f == Config1st IN
       /\ staging' = [staging EXCEPT ![f] = txn.cand]
       /\ Advance(f, "stage", "mark")
  /\ UNCHANGED <<setup, live, lkg, linked, pending, txn, history, bounds>>

\* It fails before the rename or, the directory sync failing, after it; what
\* was staged of the failing file itself stays behind.
StageFails ==
  /\ phase = "stage" /\ May("stage")
  /\ LET f == Config1st IN
       /\ \E v \in {staging[f], txn.cand} : staging' = [staging EXCEPT ![f] = v]
       /\ SweepThen(({"lkg"} \X txn.files) \cup ({"staging"} \X (txn.files \ todo)), "idle")
  /\ UNCHANGED <<setup, live, lkg, linked, pending, txn, history, bounds>>

MarkInflight ==
  /\ phase = "mark"
  /\ pending' = [files |-> txn.files, state |-> "inflight", noPrior |-> txn.noPrior]
  /\ Goto("probe")
  /\ UNCHANGED <<setup, files, txn, history, bounds>>

MarkInflightFails ==
  /\ phase = "mark" /\ May("mark")
  /\ SweepThen({"staging", "lkg"} \X txn.files, "idle")
  /\ UNCHANGED <<setup, files, pending, txn, history, bounds>>

----------------------------------------------------------------------------
\* Run, from the probe to the clean-up.

\* The probe child runs the staged files beside the live ones.
ProbeAccepts ==
  /\ phase = "probe"
  /\ approved' = [f \in File |-> IF f \in txn.files THEN staging[f] ELSE live[f]]
  /\ phase' = "rename" /\ todo' = txn.files /\ UNCHANGED <<trash, next>>
  /\ UNCHANGED <<setup, files, pending, txn, promise, bounds>>

\* Any error, the deadline included.
ProbeRejects ==
  /\ phase = "probe"
  /\ SweepThen({"staging", "lkg"} \X txn.files, "unmark")
  /\ UNCHANGED <<setup, files, pending, txn, history, bounds>>

\* 6a: os.Rename, the binary first.
Rename ==
  /\ phase = "rename" /\ ~setup.installOnly
  /\ LET f == Binary1st IN
       /\ live' = [live EXCEPT ![f] = staging[f]]
       /\ staging' = [staging EXCEPT ![f] = None]
       /\ Advance(f, "rename", "commit")
       \* A boot manager without the binary's path will not take it back.
       /\ approved' = IF f \notin Managed THEN NoPair ELSE approved
  /\ UNCHANGED <<setup, lkg, linked, pending, txn, promise, bounds>>

\* Run gives up: the marker, the snapshots and what was renamed stay.
RenameFails ==
  /\ phase = "rename" /\ ~setup.installOnly /\ May("rename")
  /\ Return("rollback")
  /\ UNCHANGED <<setup, files, pending, bounds>>

\* Mutant: os.Rename in place of os.Link.
LinkOver ==
  /\ phase = "rename" /\ setup.installOnly
  /\ live' = [live EXCEPT !["config"] = staging["config"]]
  /\ linked' = TRUE
  /\ Goto("commit")
  /\ UNCHANGED <<setup, staging, lkg, pending, txn, history, bounds>>

\* 6a, initial installation: os.Link never replaces a file.
Link ==
  /\ phase = "rename" /\ setup.installOnly /\ live["config"] = None
  /\ live' = [live EXCEPT !["config"] = staging["config"]]
  /\ linked' = TRUE
  /\ Goto("commit")
  /\ UNCHANGED <<setup, staging, lkg, pending, txn, history, bounds>>

LinkFails ==
  /\ phase = "rename" /\ setup.installOnly
  /\ live["config"] # None \/ May("rename")
  /\ SweepThen({<<"staging", "config">>}, "unmark")
  /\ approved' = NoPair
  /\ UNCHANGED <<setup, files, pending, txn, promise, bounds>>

\* Mutant: the clean-up begins without the committed marker.
CommitUnmarked ==
  /\ phase = "commit"
  /\ SweepThen((IF setup.installOnly THEN {"staging", "lkg"} ELSE {"lkg"}) \X txn.files, "unmark")
  /\ txn' = [txn EXCEPT !.outcome = "committed"]
  /\ approved' = NoPair
  /\ UNCHANGED <<setup, files, pending, promise, bounds>>

\* 6b and the start of 6c; an initial installation drops its staged file too.
MarkCommitted ==
  /\ phase = "commit"
  /\ pending' = [pending EXCEPT !.state = "committed"]
  /\ SweepThen((IF setup.installOnly THEN {"staging", "lkg"} ELSE {"lkg"}) \X txn.files, "unmark")
  /\ txn' = [txn EXCEPT !.outcome = "committed"]
  /\ approved' = NoPair
  /\ UNCHANGED <<setup, files, promise, bounds>>

\* "commit succeeded but marker write failed": reported as committed.
MarkCommittedFails ==
  /\ phase = "commit" /\ May("commit")
  /\ Return("committed")
  /\ UNCHANGED <<setup, files, pending, bounds>>

\* The last step of Run and of RecoverOnBoot; a failure leaves the marker.
Unmark ==
  /\ phase = "unmark"
  /\ \/ pending' = NoPending
     \/ May("unmark") /\ UNCHANGED pending
  /\ Return(txn.outcome)
  /\ UNCHANGED <<setup, files, bounds>>

\* Delete one file of the sweep, or fail to: only the leftovers of an earlier
\* transaction make Run give up.
SweepTo(slot, gone) ==
  /\ staging' = IF gone /\ slot[1] = "staging" THEN [staging EXCEPT ![slot[2]] = None] ELSE staging
  /\ lkg' = IF gone /\ slot[1] = "lkg" THEN [lkg EXCEPT ![slot[2]] = None] ELSE lkg
  /\ live' = IF gone /\ slot[1] = "live" THEN [live EXCEPT ![slot[2]] = None] ELSE live
  /\ linked' = (linked /\ ~(gone /\ slot \in {<<"staging", "config">>, <<"live", "config">>}))

Sweep(slot) ==
  /\ phase = "sweep" /\ slot \in trash
  /\ SweepTo(slot, TRUE)
  /\ trash' = trash \ {slot}
  /\ UNCHANGED <<setup, pending, phase, todo, next, txn, history, bounds>>

SweepFails(slot) ==
  /\ phase = "sweep" /\ slot \in trash /\ May("remove")
  /\ slot[1] # "live"
  /\ IF next = "snapshot"
     THEN Return("rollback")
     ELSE trash' = trash \ {slot} /\ UNCHANGED <<phase, todo, next, txn, history>>
  /\ UNCHANGED <<setup, files, pending, bounds>>

\* The sweep is over; one that ends the attempt returns.
SweepDone ==
  /\ phase = "sweep" /\ trash = {}
  /\ IF next = "idle"
     THEN Return(txn.outcome)
     ELSE phase' = next /\ UNCHANGED <<todo, trash, next, txn, history>>
  /\ UNCHANGED <<setup, files, pending, bounds>>

----------------------------------------------------------------------------
\* Crash and RecoverOnBoot.

Crash ==
  /\ phase # "down"
  /\ phase' = "down" /\ todo' = {} /\ trash' = {} /\ next' = "idle"
  /\ txn' = NoTxn /\ approved' = NoPair
  /\ UNCHANGED <<setup, files, pending, promise, bounds>>

\* No marker: orphans go.  Committed: snapshots and staged files go, then the
\* marker.  In flight: every swapped file is rolled back.
RecoverOnBoot ==
  /\ phase = "down"
  /\ CASE pending = NoPending -> SweepThen({"staging", "lkg"} \X Managed, "idle")
       [] pending # NoPending /\ ~InFlight ->
            SweepThen({"staging", "lkg"} \X (pending.files \cap Managed), "unmark")
       [] InFlight -> /\ phase' = "recover" /\ todo' = pending.files
                      /\ UNCHANGED <<trash, next>>
  /\ UNCHANGED <<setup, files, pending, txn, history, bounds>>

\* Mutant: only .staging and .lkg are removed, nothing is restored.
RollBackForgets ==
  /\ phase = "recover" /\ todo # {}
  /\ LET f == Config1st IN
       /\ todo' = todo \ {f}
       /\ phase' = "sweep" /\ trash' = {<<"staging", f>>} /\ next' = "recover"
       /\ lkg' = [lkg EXCEPT ![f] = None]
  /\ UNCHANGED <<setup, live, staging, linked, pending, txn, history, bounds>>

\* rollbackOne, and the initial installation's own rule: only the inode that
\* was staged is removed.  A path the manager does not have restores nothing.
RollBack ==
  /\ phase = "recover" /\ todo # {}
  /\ LET f == Config1st IN
       /\ todo' = todo \ {f}
       /\ \/ f \notin Managed /\ UNCHANGED <<files, phase, trash, next>>
          \/ /\ f \in Managed /\ setup.installOnly
             /\ live' = IF linked THEN [live EXCEPT ![f] = None] ELSE live
             /\ linked' = FALSE
             /\ phase' = "sweep" /\ trash' = {<<"staging", f>>} /\ next' = "recover"
             /\ UNCHANGED <<staging, lkg>>
          \/ /\ f \in Managed /\ ~setup.installOnly
             /\ phase' = "sweep" /\ next' = "recover"
             /\ IF f \in pending.noPrior
                THEN trash' = {"staging", "live"} \X {f} /\ UNCHANGED <<live, lkg>>
                ELSE /\ trash' = {<<"staging", f>>}
                     /\ live' = IF lkg[f] # None THEN [live EXCEPT ![f] = lkg[f]] ELSE live
                     /\ lkg' = [lkg EXCEPT ![f] = None]
             /\ UNCHANGED <<staging, linked>>
  /\ UNCHANGED <<setup, pending, txn, history, bounds>>

\* The rename of the snapshot fails: main goes on with what is on disk.
RollBackFails ==
  /\ phase = "recover" /\ todo # {} /\ May("restore")
  /\ LET f == Config1st IN
       f \in Managed /\ ~setup.installOnly /\ f \notin pending.noPrior /\ lkg[f] # None
  /\ Return("rollback")
  /\ UNCHANGED <<setup, files, pending, bounds>>

RecoveryDone ==
  /\ phase = "recover" /\ todo = {}
  /\ Goto("unmark")
  /\ UNCHANGED <<setup, files, pending, txn, history, bounds>>

----------------------------------------------------------------------------
\* Other writers of the configuration.

\* config:save and the commands that save: the command worker runs them and
\* transactions one after the other.  SaveConfig truncates, then writes.
SaveBegins ==
  /\ phase = "idle" /\ setup.writes /\ ~setup.installOnly /\ writes < MaxWrites
  /\ live' = [live EXCEPT !["config"] = Torn]
  /\ promise' = [promise EXCEPT !["config"] = Unknown]
  /\ writes' = writes + 1
  /\ Goto("saving")
  /\ UNCHANGED <<setup, staging, lkg, linked, pending, txn, approved, runs>>

SaveEnds(v) ==
  /\ phase = "saving"
  /\ live' = [live EXCEPT !["config"] = v]
  /\ promise' = [promise EXCEPT !["config"] = v]
  /\ writes' = writes + 1
  /\ Goto("idle")
  /\ UNCHANGED <<setup, staging, lkg, linked, pending, txn, approved, runs>>

\* An initial installation shares the directory with whoever else may write a
\* configuration there, at any time.
OtherWriter(v) ==
  /\ setup.installOnly /\ setup.writes /\ writes < MaxWrites
  /\ live' = [live EXCEPT !["config"] = v]
  /\ linked' = FALSE
  /\ promise' = [promise EXCEPT !["config"] = v]
  /\ writes' = writes + 1
  /\ UNCHANGED <<setup, staging, lkg, pending, control, txn, approved, runs>>

----------------------------------------------------------------------------
Next ==
  \/ \E kind \in Kind, v \in Version : Start(kind, v)
  \/ Snapshot \/ Copy \/ SnapshotFails
  \/ Stage \/ StageFails
  \/ MarkInflight \/ MarkInflightFails
  \/ ProbeAccepts \/ ProbeRejects
  \/ Rename \/ RenameFails \/ Link \/ LinkFails
  \/ MarkCommitted \/ MarkCommittedFails \/ Unmark
  \/ \E slot \in Area \X File : Sweep(slot) \/ SweepFails(slot)
  \/ SweepDone
  \/ Crash \/ RecoverOnBoot \/ RollBack \/ RollBackFails \/ RecoveryDone
  \/ SaveBegins
  \/ \E v \in Version : SaveEnds(v) \/ OtherWriter(v)

Spec == Init /\ [][Next]_vars

----------------------------------------------------------------------------
\* What the next RecoverOnBoot leaves of file f: this is what a transaction
\* changes in one step.
Value(f) ==
  IF ~InFlight \/ f \notin pending.files \cap Managed THEN live[f]
  ELSE IF setup.installOnly THEN IF linked THEN None ELSE live[f]
  ELSE IF f \in pending.noPrior THEN None
  ELSE IF lkg[f] # None THEN lkg[f] ELSE live[f]

Installed == [f \in File |-> Value(f)]

Replace == INSTANCE AtomicReplace WITH value <- Installed

\* Whatever step crashes or fails, at the next boot the files are the pair
\* from before the transaction or the pair its probe accepted, never a mixture
\* and never an unprobed candidate (Run's crash safety, manager.go:83-86).
Refines == Replace!ASpec

\* What Run reported of a file, or a save wrote to it, is what is on disk once
\* no marker is left: no later recovery takes back a commit, and none brings
\* back what a rollback undid (manager.go:80-81, txn_replace.go:61-64).
PromiseKept ==
  phase = "idle" /\ pending = NoPending =>
    \A f \in File : promise[f] # Unknown => live[f] = promise[f]

\* An initial installation never replaces or removes a configuration that
\* another writer created, whether it appears before the snapshot, during the
\* probe, before or after the link, or before a recovery
\* (docs/connect-enrollment.md:18).
ForeignConfigKept ==
  [][setup.installOnly /\ live["config"] # None /\ ~linked
       => live'["config"] = live["config"] \/ writes' > writes]_vars

\* Before the marker of a transaction that is being undone goes, no file it
\* swapped still differs from its snapshot: "state=inflight -> roll back
\* (restore from .lkg, delete .staging)" (pending.go:12).
RollbackIsComplete ==
  phase = "unmark" /\ InFlight =>
    \A f \in pending.files : lkg[f] \in {None, live[f]}

----------------------------------------------------------------------------
\* Why they hold.  Two conditions on an installation: its boot manager can
\* take back all of a transaction or none of it; and what it reports is final,
\* that is, the committed marker can be written, and nothing saves the
\* configuration while the marker of a failed attempt is still there.
Whole(s) == s.knowsBinary \/ File \notin s.kinds

Lingering == {"rename", "commit", "unmark", "restore"}

Final(s) == /\ "commit" \notin s.faults
            /\ s.writes /\ ~s.installOnly => s.faults \cap Lingering = {}

\* Undoing f has nothing left to do to the live file.
Settled(f) ==
  f \in pending.files \cap Managed =>
    IF setup.installOnly THEN ~linked
    ELSE IF f \in pending.noPrior THEN live[f] = None
    ELSE lkg[f] \in {None, live[f]}

\* f has a complete snapshot, or is known to have had no file.
Snapshotted(f) ==
  IF f \in txn.noPrior THEN setup.installOnly \/ live[f] = None
  ELSE ~setup.installOnly /\ lkg[f] = live[f] /\ lkg[f] # None

Candidates == [f \in File |-> IF f \in txn.files THEN txn.cand ELSE live[f]]

Sweeping(p) == phase = "sweep" /\ next = p

MarkerInv ==
  /\ pending # NoPending => /\ pending.files \in setup.kinds
                            /\ pending.noPrior \subseteq pending.files
  /\ linked => setup.installOnly /\ live["config"] # None
  /\ phase = "sweep" => next \in {"snapshot", "idle", "unmark", "recover"}
  /\ Sweeping("idle") => pending = NoPending

\* Up to the marker: nothing but snapshots and staged files.
BeforeMarkerInv ==
  phase \in {"snapshot", "copy", "stage", "mark"} \/ Sweeping("snapshot") =>
    /\ pending = NoPending /\ ~linked
    /\ txn.cand # None
    /\ txn.files \in setup.kinds /\ txn.noPrior \subseteq txn.files
    /\ todo # {} /\ todo \subseteq txn.files
    /\ Sweeping("snapshot") => todo = txn.files
    /\ phase \notin {"stage", "mark"} => txn.noPrior \cap todo = {}
    /\ phase = "copy" /\ ~setup.installOnly => live[Config1st] # None

\* From the marker to the commit.
AfterMarkerInv ==
  phase \in {"probe", "rename", "commit"} =>
    /\ pending = [files |-> txn.files, state |-> "inflight", noPrior |-> txn.noPrior]
    /\ txn.cand # None
    /\ phase # "commit" => ~linked
    /\ phase = "rename" => todo # {} /\ todo \subseteq txn.files

SnapshotInv ==
  \A f \in txn.files :
    /\ phase \in {"snapshot", "copy"} /\ f \notin todo => Snapshotted(f)
    /\ phase \in {"stage", "mark", "probe"} => Snapshotted(f)
    /\ phase = "rename" /\ f \in todo => Snapshotted(f)

StagedInv ==
  \A f \in txn.files :
    /\ phase = "stage" /\ f \notin todo => staging[f] = txn.cand
    /\ phase \in {"mark", "probe"} => staging[f] = txn.cand
    /\ phase = "rename" /\ f \in todo => staging[f] = txn.cand

\* A renamed file is the candidate, and can still be taken back.
RenamedInv ==
  \A f \in txn.files :
    (phase = "rename" /\ f \notin todo) \/ phase = "commit" =>
      IF setup.installOnly THEN phase = "commit" /\ linked => live[f] = txn.cand
      ELSE live[f] = txn.cand /\ (f \in txn.noPrior \/ lkg[f] # None)

ApprovedInv ==
  /\ phase \notin {"rename", "commit"} => approved = NoPair
  /\ phase = "rename" => approved = Candidates
  /\ phase = "commit" =>
       approved = IF txn.files \cap Managed = {} THEN NoPair ELSE Candidates

\* During a recovery, every file already handled is settled, or will be when
\* the sweep has deleted it.
RecoverInv ==
  /\ phase = "recover" \/ Sweeping("recover") =>
       /\ InFlight /\ todo \subseteq pending.files
       /\ \A f \in pending.files \ todo :
            Settled(f) \/ (Sweeping("recover") /\ <<"live", f>> \in trash)
  /\ Sweeping("recover") =>
       \A f \in File : /\ <<"lkg", f>> \notin trash
                       /\ <<"staging", f>> \in trash => f \in pending.files \ todo
  /\ phase = "sweep" =>
       \A f \in File : <<"live", f>> \in trash =>
         next = "recover" /\ ~setup.installOnly /\ f \in pending.noPrior \cap Managed

UnmarkInv ==
  phase = "unmark" \/ Sweeping("unmark") =>
    /\ pending # NoPending
    /\ InFlight => \A f \in pending.files : Settled(f)

\* The inductive invariant of an installation all of whose setups are Whole.
IInv == /\ TypeOK
        /\ MarkerInv /\ BeforeMarkerInv /\ AfterMarkerInv
        /\ SnapshotInv /\ StagedInv /\ RenamedInv /\ ApprovedInv
        /\ RecoverInv /\ UnmarkInv

\* What has been promised of a file is already its value.
PromisedInv == \A f \in File : promise[f] # Unknown => Value(f) = promise[f]

\* What Run will report of a file is its value.
ReportInv ==
  \A f \in txn.files : promise[f] = Unknown =>
    IF txn.outcome = "committed" THEN Value(f) = txn.cand
    ELSE phase # "commit" => Value(f) = txn.base[f]

\* While Run works on a file only another writer can promise anything of it.
WritersInv ==
  /\ \A f \in txn.files : promise[f] = Unknown \/ (setup.installOnly /\ promise[f] # None)
  /\ phase = "commit" /\ setup.installOnly => (linked <=> promise["config"] = Unknown)

\* Run reports a commit only after the committed marker, and nothing when it
\* does not run; an attempt that leaves its marker behind has had a fault.
RunInv ==
  /\ phase # "unmark" /\ ~Sweeping("unmark") => txn.outcome = "rollback"
  /\ phase \in {"down", "idle", "saving"} => txn.files = {}
  /\ phase = "saving" => setup.writes /\ ~setup.installOnly
  /\ setup.faults \cap Lingering = {} /\ phase \in {"idle", "saving"} => pending = NoPending

PromiseInv == PromisedInv /\ ReportInv /\ WritersInv /\ RunInv

\* What holds of an installation whose reports are final, Final(setup): the
\* inductive invariant, and the promise.  No later recovery takes back a commit
\* or a save, and none brings back what a rollback undid (manager.go:80-81).
FinalInv == Final(setup) => PromiseInv

ReportsFinal == Final(setup) => PromiseKept
=============================================================================
