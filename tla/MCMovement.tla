----------------------------- MODULE MCMovement -----------------------------
EXTENDS Movement

MCReported ==
  [s \in States |-> IF s = "hop-on" THEN "stand-by" ELSE s]
=============================================================================
