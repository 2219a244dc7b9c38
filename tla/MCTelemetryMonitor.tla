------------------------- MODULE MCTelemetryMonitor -------------------------
(***************************************************************************)
(* TelemetryMonitor with two hashes of different priorities.                *)
(***************************************************************************)
EXTENDS TelemetryMonitor

MCHashes == {"vehicle", "ble"}
MCPriorities == {"Immediate", "Slow"}
MCPriority == [h \in MCHashes |-> IF h = "vehicle" THEN "Immediate" ELSE "Slow"]
=============================================================================
