----------------------------- MODULE MCScheduler -----------------------------
(* Instances of WaitQueue, and with it of Scheduler, for TLC.              *)
EXTENDS WaitQueue
=============================================================================
