------------------------------- MODULE MCTxn -------------------------------
(* TLC instances of Txn. *)
EXTENDS Txn

CONSTANTS v1, v2, v3

MCVersion == {v1, v2, v3}

ConfigOrBinary == {{"config"}, {"binary"}}
AllKinds == Kind

\* The faults a transaction ends cleanly after, and those that leave a marker.
CleanFaults == {"snapshot", "stage", "mark", "remove"}
AllButCommit == Fault \ {"commit"}

\* The service as main.go builds it: its boot manager has no LiveBinaryPath.
Service == [kinds |-> ConfigOrBinary, installOnly |-> FALSE,
            knowsBinary |-> FALSE, writes |-> FALSE, faults |-> AllButCommit]

\* The same with the commands that save the configuration.
SavingService == [Service EXCEPT !.writes = TRUE, !.faults = CleanFaults]

\* A manager with both paths, as -bootstrap builds it, running every kind.
FullManager == [Service EXCEPT !.kinds = AllKinds, !.knowsBinary = TRUE]

\* The Connect enrollment, beside another writer of the configuration.
Enrollment == [kinds |-> {{"config"}}, installOnly |-> TRUE,
               knowsBinary |-> TRUE, writes |-> TRUE, faults |-> AllButCommit]

\* A service in which everything may fail.
FailingService == [Service EXCEPT !.writes = TRUE, !.faults = Fault]

SoundSetups == {Service, SavingService, FullManager, Enrollment, FailingService}

\* The service replacing both files, and no fault but a crash.
CrashingService == {[Service EXCEPT !.kinds = {File}, !.faults = {}]}

\* A service whose committed marker cannot be written.
FailingMarker == {[Service EXCEPT !.kinds = {{"config"}}, !.faults = {"commit"}]}
=============================================================================
