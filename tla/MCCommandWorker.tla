-------------------------- MODULE MCCommandWorker --------------------------
(* TLC instances of CommandWorker. *)
EXTENDS CommandWorker

\* An update before commands that conflict and that do not, and two updates after one.
MCWorkloads == {<<"update", "conflict", "plain">>, <<"conflict", "update", "update">>}
=============================================================================
