----------------------------- MODULE MCScheduler -----------------------------
(* Instances of the scheduler small enough for TLC. *)
EXTENDS Scheduler
=============================================================================
