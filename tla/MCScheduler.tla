---------------------------- MODULE MCScheduler ----------------------------
(* Module Scheduler on a handful of tasks and resources. *)
EXTENDS Scheduler
=============================================================================
