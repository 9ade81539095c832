---------------------------- MODULE MCScheduler ----------------------------
(* Instances of the scheduler for TLC: the sets of operations the tasks    *)
(* perform in each run.                                                    *)
EXTENDS Scheduler

OpsAll == AllOps

(* What a reader that comes before its writer needs.                       *)
OpsPipe == {"fork", "yield", "pipe"}
=============================================================================
