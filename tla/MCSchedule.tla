----------------------------- MODULE MCSchedule -----------------------------
(* Schedule on a small instance.  Its properties are temporal, so run      *)
(* tasks and locks are not declared symmetric.                             *)
EXTENDS Schedule
=============================================================================
