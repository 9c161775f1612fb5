----------------------------- MODULE MCTimeline -----------------------------
(* An instance of Timeline for TLC.                                        *)
EXTENDS Timeline, TLC

(* Clients are interchangeable; no property of the runs is temporal        *)
(* except that each step is one of the scheduler.                          *)
ClientSymmetry == Permutations(Clients)
=============================================================================
