---------------------------- MODULE MCSchedulerTest ----------------------------
(* The instance of SchedulerTest for TLC: the configuration of the harness. *)
EXTENDS SchedulerTest
=============================================================================
