------------------------------- MODULE MCProc -------------------------------
(* An instance of Proc for TLC, with a history variable for the properties *)
(* that hold while every program has one thread.                           *)
EXTENDS Proc

(* Every operation but exec, which makes a process as fork does.           *)
OpsThreads == AllOps \ {"exec"}

OpsFork == {"fork", "exit"}

VARIABLE cloned   \* history: some process has had a second thread

MCInit == Init /\ cloned = FALSE

MCNext ==
    /\ Next
    /\ cloned' = (cloned \/ \E g \in Slots : processes'[g] # None /\ processes'[g].threads > 1)

MCSpec == MCInit /\ [][MCNext]_<<vars, cloned>>

MCFairSpec == MCSpec /\ Fairness

(* While a task loops in waitpid on a slot number it read before its first *)
(* yield, that slot still holds the child it waits for (with one thread to *)
(* a program: two threads may wait for one child, and the second then      *)
(* holds a stale slot).                                                    *)
WaitedChildStays ==
    intact /\ ~cloned => \A s \in Slots :
        tasks[s] \in {"Ready", "Running"} /\ at[s].pc = "waitpid" =>
            HasPid(at[s].slot, at[s].pid)

(* A record leaves the table only as a zombie, in a step of its parent's   *)
(* waitpid or, for a parentless process, of the boot task (one thread to a *)
(* program, as above).                                                     *)
ReapedByParent ==
    [][intact /\ ~cloned => \A s \in Slots :
         processes[s] # None /\ processes'[s] = None =>
             /\ processes[s].state = "Zombie"
             /\ processes[s].ppid = current_pid]_<<vars, cloned>>

(* waitpid, which yields between looks, keeps to its own child, and reaps  *)
(* that one only.                                                          *)
WaitpidReapsItsChild == []WaitedChildStays /\ ReapedByParent
=============================================================================
