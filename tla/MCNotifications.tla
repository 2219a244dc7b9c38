-------------------------- MODULE MCNotifications --------------------------
EXTENDS Notifications, TLC

\* A rule about both hashes, and one about a message and the battery.
MCNeeds == [both |-> [alarm |-> TRUE, battery |-> TRUE], message |-> [battery |-> TRUE]]
MCChannel == [both |-> None, message |-> "alarm"]
MCRoutes == [telegram |-> {"alarm", "both", Fault}]
MCSetups ==
  {[limit |-> 0, watched |-> FALSE, changes |-> 2, faults |-> 0],
   [limit |-> 2, watched |-> TRUE, changes |-> 1, faults |-> 1],
   [limit |-> 0, watched |-> TRUE, changes |-> 0, faults |-> 3],
   [limit |-> 2, watched |-> TRUE, changes |-> 0, faults |-> 3],
   [limit |-> 0, watched |-> FALSE, changes |-> 0, faults |-> 1]}
Symmetry == Permutations(Handlers)
=============================================================================
