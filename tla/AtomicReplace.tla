--------------------------- MODULE AtomicReplace ---------------------------
(***************************************************************************)
(* What a transactional replace promises, with no files, no markers and no *)
(* crashes: the installation is one value per file (the configuration and  *)
(* the binary), and it changes in one step, to exactly the pair that the   *)
(* probe has approved.  A configuration written by someone else is the     *)
(* only other change.                                                      *)
(*                                                                         *)
(* The promise is the one README.md (the self-update section) and the      *)
(* package comment of internal/txn/pending.go make.                        *)
(***************************************************************************)
EXTENDS Naturals

CONSTANTS File,      \* the files a transaction may replace
          Content,   \* what a file can hold, its absence included
          NoPair     \* nothing is approved

VARIABLES value,     \* what the installation is after the next restart
          approved,  \* the pair the probe has accepted, or NoPair
          writes     \* how many times another writer has written the file

aVars == <<value, approved, writes>>

Pair == [File -> Content]

AInit == value \in Pair /\ approved = NoPair /\ writes = 0

\* The probe accepts a pair: a candidate next to the file it will run with.
Approve == \E p \in Pair : approved' = p /\ UNCHANGED <<value, writes>>

\* A candidate is dropped: the probe refused it, or the attempt ended.
Forget == approved' = NoPair /\ UNCHANGED <<value, writes>>

\* The approved pair becomes the installation, all of it at once.
Install == /\ approved # NoPair
           /\ value' = approved
           /\ approved' = NoPair
           /\ UNCHANGED writes

\* Another writer writes the configuration: the only way it changes without
\* a probe, and always a write that was counted.
Save == \E v \in Content :
          /\ value' = [value EXCEPT !["config"] = v]
          /\ writes' = writes + 1
          /\ UNCHANGED approved

ANext == Approve \/ Forget \/ Install \/ Save

ASpec == AInit /\ [][ANext]_aVars
=============================================================================
