----------------------------- MODULE TaskTable -----------------------------
(***************************************************************************)
(* The scheduler's task table, TASKS of kernel/src/proc/task.rs: the       *)
(* operations on it that the scheduler and the process layer share, as     *)
(* operators on a table t (a function from slots to the state of the task  *)
(* in the slot).                                                           *)
(*                                                                         *)
(* A Task is abstracted to its state.  The stack, the saved stack pointer  *)
(* and the page table decide what a task does when it runs, never whether  *)
(* it runs: rsp_valid is true in every Task the kernel builds and nothing  *)
(* ever clears it.                                                         *)
(***************************************************************************)
EXTENDS Naturals

CONSTANT MaxTasks      \* MAX_TASKS, 8 in the kernel

(* Slot 0 is the boot task and slot 1 the background task.                 *)
ASSUME MaxTasksAssumption == MaxTasks \in Nat /\ MaxTasks >= 2

Slots == 0 .. MaxTasks - 1

TaskStates == {"Ready", "Running", "Dead"}

(* None is the empty slot of the array of Option<Task>.                    *)
TaskTables == [Slots -> TaskStates \cup {"None"}]

FreeSlots(t) == {s \in Slots : t[s] = "None"}

(* Every spawning function takes the first empty slot.                     *)
IsFirstFree(t, s) ==
    /\ s \in FreeSlots(t)
    /\ \A r \in FreeSlots(t) : s <= r

(* Variant: a search that stops at the end of the table.                   *)
IsNextReady_NoWrap(t, cur, n) ==
    \E i \in 1 .. MaxTasks :
        /\ n = cur + i /\ n \in Slots
        /\ t[n] = "Ready"
        /\ \A j \in 1 .. i - 1 : t[cur + j] # "Ready"

(* The slot that the search of next_task_switch finds: the first Ready one *)
(* after cur, around the table, cur itself last.                           *)
IsNextReady(t, cur, n) ==
    \E i \in 1 .. MaxTasks :
        /\ n = (cur + i) % MaxTasks
        /\ t[n] = "Ready"
        /\ \A j \in 1 .. i - 1 : t[(cur + j) % MaxTasks] # "Ready"

HasReady(t) == \E s \in Slots : t[s] = "Ready"

(* Variant: a Dead outgoing task is Ready again.                           *)
SwitchedOut_Revived(state) == "Ready"

(* What becomes of the outgoing slot: a Running task is Ready again, a     *)
(* Dead one gives up its slot.                                             *)
SwitchedOut(state) ==
    CASE state = "Running" -> "Ready"
      [] state = "Dead"    -> "None"
      [] OTHER             -> state

(* The table after a switch from cur to n.                                 *)
Switched(t, cur, n) ==
    [t EXCEPT ![cur] = SwitchedOut(t[cur]), ![n] = "Running"]

(* kill_task marks the task and leaves the slot occupied.                  *)
Killed(t, S) ==
    [s \in Slots |-> IF s \in S /\ t[s] # "None" THEN "Dead" ELSE t[s]]
=============================================================================
