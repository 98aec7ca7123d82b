----------------------------- MODULE MCTraceDB -----------------------------
(* The trace database on a small instance: nodes of at most three traces, *)
(* two projects, one of which logs a duration that is_valid refuses.      *)
EXTENDS TraceDB

MCKey == 1..9
MCVal == {[project |-> 1, duration |-> 10], [project |-> 2, duration |-> Hour]}
=============================================================================
