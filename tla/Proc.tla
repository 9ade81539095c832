------------------------------- MODULE Proc --------------------------------
(***************************************************************************)
(* The life of processes and threads: the tables TASKS, PROCESSES and      *)
(* THREADS, which share their slot numbers, and every operation that       *)
(* creates, ends, kills, waits for or reaps an entry of them               *)
(* (kernel/src/proc/{task,process,fd,exec}.rs, syscall/process.rs,         *)
(* panic.rs, and the spawn-wait-reap loop of shell/ui.rs).                 *)
(*                                                                         *)
(* A system call is one step: it runs with IN_SYSCALL set, which module    *)
(* Scheduler shows to keep every other task away, except where it yields.  *)
(* waitpid yields in its loop, so it is an entry, a yield (Switch) and a   *)
(* return.  The boot task runs outside any system call: its spawn, its     *)
(* registration and its wait are separate steps, and so are the two halves *)
(* of the exception handler.                                               *)
(*                                                                         *)
(* at[s] is the point at which the task in slot s goes on when it runs,    *)
(* with the local variables that live across a switch:                     *)
(*   user      ring 3                                                      *)
(*   waitpid   the loop of waitpid on slot, for the process pid            *)
(*   fault     default_exception between exit and kill_task                *)
(*   halted    the hlt loop after exit, exit_group or a fault              *)
(*   idle      the background task                                         *)
(*   exec, register, wait, stopped    the loop of run_shell                *)
(***************************************************************************)
EXTENDS TaskTable, FiniteSets

CONSTANTS
    Codes,     \* exit codes that programs use
    MaxPid,    \* bound: no process or thread is created beyond this pid
    Ops,       \* what programs do, a subset of AllOps
    None       \* the empty entry of PROCESSES and THREADS

AllOps == {"fork", "clone", "exec", "exit", "exit_group", "fault", "kill", "wait"}

FaultCode == 14        \* the vector of a page fault
KillCode  == 128 + 9   \* 128 + SIGKILL

ExitCodes == Codes \cup {0, FaultCode, KillCode}

Process == [pid : Nat, ppid : Nat, state : {"Running", "Zombie"},
            code : ExitCodes, threads : Nat]
Thread  == [tid : Nat, group : Slots, state : {"Running", "Zombie"}]

Points == [pc : {"user", "waitpid", "fault", "halted", "idle",
                 "exec", "register", "wait", "stopped"},
           slot : Slots, pid : Nat]

ASSUME ProcAssumption ==
    /\ Codes \subseteq Nat
    /\ MaxPid \in Nat
    /\ Ops \subseteq AllOps
    /\ None \notin Process
    /\ None \notin Thread

VARIABLES
    tasks,      \* TASKS
    current,    \* CURRENT
    processes,  \* PROCESSES
    threads,    \* THREADS
    nextPid,    \* NEXT_PID
    at,         \* where each task is
    panicked,   \* an expect() failed: the panic handler has stopped the kernel
    intact      \* history: no task has yet been put beside an older record, and
                \* no record stored for a task or group that had ended, or by
                \* a task that has none

vars == <<tasks, current, processes, threads, nextPid, at, panicked, intact>>

TypeOK ==
    /\ tasks \in TaskTables
    /\ current \in Slots
    /\ processes \in [Slots -> Process \cup {None}]
    /\ threads \in [Slots -> Thread \cup {None}]
    /\ nextPid \in Nat \ {0}
    /\ at \in [Slots -> Points]
    /\ panicked \in BOOLEAN
    /\ intact \in BOOLEAN

Point(pc) == [pc |-> pc, slot |-> 0, pid |-> 0]

(* After boot_kernel: the boot task in slot 0 and demo_task in slot 1.     *)
Init ==
    /\ tasks = [s \in Slots |-> CASE s = 0 -> "Running"
                                  [] s = 1 -> "Ready"
                                  [] OTHER -> "None"]
    /\ current = 0
    /\ processes = [s \in Slots |-> None]
    /\ threads = [s \in Slots |-> None]
    /\ nextPid = 1
    /\ at = [s \in Slots |-> CASE s = 0 -> Point("exec")
                               [] s = 1 -> Point("idle")
                               [] OTHER -> Point("user")]
    /\ panicked = FALSE
    /\ intact = TRUE

-----------------------------------------------------------------------------
(* Lookups.                                                                *)

(* current_process() is Some.                                              *)
HasProcess ==
    /\ threads[current] # None
    /\ processes[threads[current].group] # None

current_pid == IF HasProcess THEN processes[threads[current].group].pid ELSE 0

is_running_in_slot(s) == processes[s] # None /\ processes[s].state = "Running"

HasPid(s, pid) == processes[s] # None /\ processes[s].pid = pid
HasTid(s, tid) == threads[s] # None /\ threads[s].tid = tid

InGroup(s, g) == threads[s] # None /\ threads[s].group = g

(* The threads of group g that have not ended.                             *)
LiveThreads(g) == {s \in Slots : InGroup(s, g) /\ threads[s].state = "Running"}

-----------------------------------------------------------------------------
(* Records.                                                                *)

NewProcess(pid, ppid) ==
    [pid |-> pid, ppid |-> ppid, state |-> "Running", code |-> 0, threads |-> 1]

NewThread(tid, g) == [tid |-> tid, group |-> g, state |-> "Running"]

(* Variant: thread_count is not cleared.                                   *)
Ended_CountKept(p, code) == [p EXCEPT !.state = "Zombie", !.code = code]

Ended(p, code) == [p EXCEPT !.state = "Zombie", !.code = code, !.threads = 0]

(* Every thread of group g becomes a zombie.                               *)
GroupEnded(g) ==
    [s \in Slots |-> IF InGroup(s, g) THEN [threads[s] EXCEPT !.state = "Zombie"]
                                      ELSE threads[s]]

(* exit_thread(code, false) on the tables, for the current thread.         *)
ThreadExited ==
    IF threads[current] = None THEN threads
    ELSE [threads EXCEPT ![current].state = "Zombie"]

(* Variant: thread_count goes below zero.                                  *)
LessOneThread_Unchecked(p, code) ==
    IF p.threads = 1 THEN Ended(p, code) ELSE [p EXCEPT !.threads = @ - 1]

LessOneThread(p, code) ==
    LET left == IF p.threads > 0 THEN p.threads - 1 ELSE 0
    IN  IF left = 0 THEN Ended(p, code) ELSE [p EXCEPT !.threads = left]

ProcessLessThread(code) ==
    IF HasProcess
      THEN [processes EXCEPT ![threads[current].group] = LessOneThread(@, code)]
      ELSE processes

(* Variant: NEXT_PID is read and not advanced.                             *)
spawn_named_SamePid(s, ppid) ==
    /\ nextPid <= MaxPid
    /\ processes' = [processes EXCEPT ![s] = NewProcess(nextPid, ppid)]
    /\ threads' = [threads EXCEPT ![s] = NewThread(nextPid, s)]
    /\ UNCHANGED nextPid

(* A leader record is stored in slot s whatever the slot holds.            *)
spawn_named(s, ppid) ==
    /\ nextPid <= MaxPid
    /\ processes' = [processes EXCEPT ![s] = NewProcess(nextPid, ppid)]
    /\ threads' = [threads EXCEPT ![s] = NewThread(nextPid, s)]
    /\ nextPid' = nextPid + 1

(* Slot s holds no record of a process.                                    *)
Unrecorded(s) == processes[s] = None /\ threads[s] = None

-----------------------------------------------------------------------------
(* The scheduler: next_task_switch, from a tick or from a yield.  The      *)
(* record of a dead thread goes with its task (task_slot_reaped) unless it *)
(* is its group's leader.                                                  *)

task_slot_reaped ==
    IF tasks[current] = "Dead" /\ threads[current] # None
                               /\ threads[current].group # current
      THEN [threads EXCEPT ![current] = None]
      ELSE threads

Switch ==
    /\ \E n \in Slots :
         /\ IsNextReady(tasks, current, n)
         /\ tasks' = Switched(tasks, current, n)
         /\ current' = n
    /\ threads' = task_slot_reaped
    /\ at' = IF tasks[current] = "Dead" THEN [at EXCEPT ![current] = Point("user")] ELSE at
    /\ UNCHANGED <<processes, nextPid, panicked, intact>>

At(pc) == at[current].pc = pc
User(op) == At("user") /\ op \in Ops
Goto(p) == at' = [at EXCEPT ![current] = p]

(* The task part of a creation: the first free slot becomes a Ready task.  *)
SpawnTask(s) ==
    /\ IsFirstFree(tasks, s)
    /\ tasks' = [tasks EXCEPT ![s] = "Ready"]
    /\ at' = [at EXCEPT ![s] = Point("user")]

-----------------------------------------------------------------------------
(* Creation by system calls.                                               *)

(* An expect() on the caller's record fails: a step of the panic handler.  *)
ExpectFails ==
    /\ ~HasProcess
    /\ nextPid' = nextPid + 1
    /\ panicked' = TRUE
    /\ UNCHANGED <<processes, threads, intact>>

fork_current(s) ==
    \/ /\ HasProcess
       /\ spawn_named(s, current_pid)
       /\ intact' = (intact /\ Unrecorded(s))
       /\ UNCHANGED panicked
    \/ ExpectFails

spawn_thread_in_group(s) ==
    \/ /\ HasProcess
       /\ nextPid <= MaxPid
       /\ LET g == threads[current].group IN
            /\ processes' = [processes EXCEPT ![g].threads = @ + 1]
            /\ threads' = [threads EXCEPT ![s] = NewThread(nextPid, g)]
            /\ intact' = (intact /\ Unrecorded(s) /\ is_running_in_slot(g))
       /\ nextPid' = nextPid + 1
       /\ UNCHANGED panicked
    \/ ExpectFails

(* fork, and clone without CLONE_THREAD.                                   *)
Fork ==
    /\ User("fork")
    /\ \E s \in Slots : SpawnTask(s) /\ fork_current(s)
    /\ UNCHANGED current

(* clone with the thread flags.                                            *)
CloneThread ==
    /\ User("clone")
    /\ \E s \in Slots : SpawnTask(s) /\ spawn_thread_in_group(s)
    /\ UNCHANGED current

(* exec creates a new process; inside a system call nothing comes between  *)
(* its task and its record.                                                *)
Exec ==
    /\ User("exec")
    /\ \E s \in Slots :
         /\ SpawnTask(s)
         /\ spawn_named(s, current_pid)
         /\ intact' = (intact /\ Unrecorded(s) /\ HasProcess)
    /\ UNCHANGED <<current, panicked>>

-----------------------------------------------------------------------------
(* The end of threads and processes.                                       *)

Exit(code) ==
    /\ User("exit")
    /\ processes' = ProcessLessThread(code)
    /\ threads' = ThreadExited
    /\ tasks' = Killed(tasks, {current})
    /\ Goto(Point("halted"))
    /\ UNCHANGED <<current, nextPid, panicked, intact>>

ExitGroup(code) ==
    /\ User("exit_group")
    /\ \/ /\ HasProcess
          /\ LET g == threads[current].group IN
               /\ processes' = [processes EXCEPT ![g] = Ended(@, code)]
               /\ threads' = GroupEnded(g)
               /\ tasks' = Killed(tasks, {s \in Slots : InGroup(s, g)} \cup {current})
       \/ /\ ~HasProcess
          /\ threads' = ThreadExited
          /\ tasks' = Killed(tasks, {current})
          /\ UNCHANGED processes
    /\ Goto(Point("halted"))
    /\ UNCHANGED <<current, nextPid, panicked, intact>>

(* default_exception on a fault in ring 3 exits the thread, then kills its *)
(* task; interrupts are on in between.                                     *)
FaultExit ==
    /\ User("fault")
    /\ processes' = ProcessLessThread(FaultCode)
    /\ threads' = ThreadExited
    /\ Goto(Point("fault"))
    /\ UNCHANGED <<tasks, current, nextPid, panicked, intact>>

FaultKill ==
    /\ At("fault")
    /\ tasks' = Killed(tasks, {current})
    /\ Goto(Point("halted"))
    /\ UNCHANGED <<current, processes, threads, nextPid, panicked, intact>>

(* Variant: the status of a killed process is left at zero.                *)
terminate_process_group_NoStatus(g) ==
    /\ processes' = IF processes[g] = None THEN processes
                    ELSE [processes EXCEPT ![g] = Ended(@, 0)]
    /\ threads' = GroupEnded(g)
    /\ tasks' = Killed(tasks, {s \in Slots : InGroup(s, g)})
    /\ UNCHANGED <<current, nextPid, at, panicked, intact>>

(* SIGKILL on the group led from slot g, the caller's own group included.  *)
terminate_process_group(g) ==
    /\ processes' = IF processes[g] = None THEN processes
                    ELSE [processes EXCEPT ![g] = Ended(@, KillCode)]
    /\ threads' = GroupEnded(g)
    /\ tasks' = Killed(tasks, {s \in Slots : InGroup(s, g)})
    /\ UNCHANGED <<current, nextPid, at, panicked, intact>>

Kill(pid) ==
    /\ User("kill")
    /\ \E g \in Slots : HasPid(g, pid) /\ terminate_process_group(g)

Tkill(tid) ==
    /\ User("kill")
    /\ \E s \in Slots :
         HasTid(s, tid) /\ terminate_process_group(threads[s].group)

-----------------------------------------------------------------------------
(* Waiting and reaping.                                                    *)

(* reap_slot: only a zombie is reaped; the slot's thread record goes too.  *)
reap_slot(s) ==
    IF processes[s] # None /\ processes[s].state = "Zombie"
      THEN /\ processes' = [processes EXCEPT ![s] = None]
           /\ threads' = [threads EXCEPT ![s] = None]
      ELSE UNCHANGED <<processes, threads>>

(* Variant: anyone may wait for anyone.                                    *)
WaitpidEntry_AnyPid(pid) ==
    /\ User("wait")
    /\ \E s \in Slots \ {current} :
         HasPid(s, pid) /\ Goto([pc |-> "waitpid", slot |-> s, pid |-> pid])
    /\ UNCHANGED <<tasks, current, processes, threads, nextPid, panicked, intact>>

WaitpidEntry(pid) ==
    /\ User("wait")
    /\ \E s \in Slots \ {current} :
         /\ HasPid(s, pid)
         /\ processes[s].ppid = current_pid
         /\ Goto([pc |-> "waitpid", slot |-> s, pid |-> pid])
    /\ UNCHANGED <<tasks, current, processes, threads, nextPid, panicked, intact>>

WaitpidReturn ==
    /\ At("waitpid")
    /\ ~is_running_in_slot(at[current].slot)
    /\ reap_slot(at[current].slot)
    /\ Goto(Point("user"))
    /\ UNCHANGED <<tasks, current, nextPid, panicked, intact>>

-----------------------------------------------------------------------------
(* The boot task's loop (run_shell): exec_as_task, in two steps, then wait *)
(* and reap.  A failed exec (no slot, no memory) stops it for good.        *)

ShellExec ==
    /\ At("exec")
    /\ \/ \E s \in Slots :
            /\ IsFirstFree(tasks, s)
            /\ tasks' = [tasks EXCEPT ![s] = "Ready"]
            /\ at' = [at EXCEPT ![s] = Point("user"),
                                ![current] = [pc |-> "register", slot |-> s, pid |-> 0]]
            /\ intact' = (intact /\ Unrecorded(s))
       \/ Goto(Point("stopped")) /\ UNCHANGED <<tasks, intact>>
    /\ UNCHANGED <<current, processes, threads, nextPid, panicked>>

ShellRegister ==
    /\ At("register")
    /\ LET s == at[current].slot IN
         /\ spawn_named(s, current_pid)
         /\ Goto([pc |-> "wait", slot |-> s, pid |-> nextPid])
         /\ intact' = (/\ intact /\ Unrecorded(s)
                       /\ tasks[s] = "Ready" /\ at[s].pc \in {"user", "waitpid"})
    /\ UNCHANGED <<tasks, current, panicked>>

ShellReap ==
    /\ At("wait")
    /\ ~is_running_in_slot(at[current].slot)
    /\ reap_slot(at[current].slot)
    /\ Goto(Point("exec"))
    /\ UNCHANGED <<tasks, current, nextPid, panicked, intact>>

-----------------------------------------------------------------------------
Pids == 1 .. MaxPid

Next ==
    /\ ~panicked
    /\ \/ Switch
       \/ Fork \/ CloneThread \/ Exec
       \/ \E code \in Codes : Exit(code) \/ ExitGroup(code)
       \/ FaultExit \/ FaultKill
       \/ \E id \in Pids : Kill(id) \/ Tkill(id) \/ WaitpidEntry(id)
       \/ WaitpidReturn
       \/ ShellExec \/ ShellRegister \/ ShellReap

Spec == Init /\ [][Next]_vars

(* The timer switches while another task is Ready.  A waiter that comes    *)
(* back from its yield has a few instructions to its test; the tick that   *)
(* takes the CPU away before it is one in SWITCH_INTERVAL, and cannot hit  *)
(* them on every round.                                                    *)
Fairness == WF_vars(~panicked /\ Switch) /\ SF_vars(~panicked /\ WaitpidReturn)

FairSpec == Spec /\ Fairness

-----------------------------------------------------------------------------
(* Properties.                                                             *)

(* At every moment exactly the task in slot CURRENT can be marked Running, *)
(* and its slot is never empty: current_process() and kill_task(current)   *)
(* always mean the task that has the CPU.                                  *)
OnlyCurrentRuns ==
    /\ tasks[current] \in {"Running", "Dead"}
    /\ \A s \in Slots : tasks[s] = "Running" => s = current

(* find_slot_by_pid and find_thread_slot_by_tid take the first match: no   *)
(* two records ever carry the same id, and NEXT_PID has not given out the  *)
(* next one, whatever was overwritten, killed or reaped before.            *)
IdsUnique ==
    /\ \A s \in Slots : processes[s] # None => processes[s].pid < nextPid
    /\ \A s \in Slots : threads[s] # None => threads[s].tid < nextPid
    /\ \A s, r \in Slots : processes[s] # None /\ HasPid(r, processes[s].pid) => s = r
    /\ \A s, r \in Slots : threads[s] # None /\ HasTid(r, threads[s].tid) => s = r

(* thread_count counts the threads of the group that have not ended.       *)
ThreadCountsExact ==
    \A g \in Slots :
        processes[g] # None => processes[g].threads = Cardinality(LiveThreads(g))

(* A process is a zombie exactly when its last thread has ended.           *)
ZombieIffNoThread ==
    \A g \in Slots :
        processes[g] # None => (processes[g].state = "Zombie" <=> processes[g].threads = 0)

(* A live thread has a task that can run and a process that runs.          *)
LiveThreadsRun ==
    \A s \in Slots :
        threads[s] # None /\ threads[s].state = "Running" =>
            /\ tasks[s] \in {"Ready", "Running"}
            /\ is_running_in_slot(threads[s].group)

(* A task that can return to ring 3 has a live thread, unless it is the    *)
(* one that the boot task has spawned and not yet registered.              *)
UserTasksRecorded ==
    \A s \in Slots :
        tasks[s] \in {"Ready", "Running"} /\ at[s].pc \in {"user", "waitpid"} =>
            \/ threads[s] # None /\ threads[s].state = "Running"
            \/ at[0].pc = "register" /\ at[0].slot = s

(* TASKS, PROCESSES and THREADS tell the same story, through every order   *)
(* of forks, clones, exits, kills, faults and reaps, as long as they are   *)
(* intact: no task was put beside an older record, and no record stored    *)
(* for a group or a task that had ended, or by a task that has none.       *)
RecordsAgree ==
    intact /\ ~panicked =>
        /\ ThreadCountsExact
        /\ ZombieIffNoThread
        /\ LiveThreadsRun
        /\ UserTasksRecorded

(* Nothing brings a process or a thread back to life: whatever record      *)
(* carries the id of a zombie after a step is a zombie (a late kill, a     *)
(* second exit of a killed task and a fork after it included).             *)
NoResurrection ==
    [][\A s, r \in Slots :
         /\ processes[s] # None /\ processes[s].state = "Zombie"
              /\ processes'[r] # None /\ processes'[r].pid = processes[s].pid
              => processes'[r].state = "Zombie"
         /\ threads[s] # None /\ threads[s].state = "Zombie"
              /\ threads'[r] # None /\ threads'[r].tid = threads[s].tid
              => threads'[r].state = "Zombie"]_vars

(* The status that waitpid reports is the one with which the process       *)
(* ended: only a SIGKILL sent to the zombie, or the last instructions of a *)
(* task that has been killed and not yet switched away, change it later.   *)
ExitStatusStable ==
    [][intact => \A s \in Slots :
         /\ processes[s] # None /\ processes[s].state = "Zombie"
         /\ processes'[s] # None /\ processes'[s].pid = processes[s].pid
         /\ processes'[s].code # processes[s].code
         => processes'[s].code = KillCode \/ tasks[current] = "Dead"]_vars

(* A waitpid whose child has ended returns, unless the waiter itself is    *)
(* killed or faults first: the round robin brings the waiter back and the  *)
(* zombie stays for it.                                                    *)
WaitpidCompletes ==
    \A s \in Slots :
        (/\ tasks[s] \in {"Ready", "Running"} /\ at[s].pc = "waitpid"
         /\ ~is_running_in_slot(at[s].slot))
        ~> (at[s].pc # "waitpid" \/ tasks[s] \in {"Dead", "None"} \/ panicked \/ ~intact)

(* A zombie keeps its record until it is reaped, as the comment on         *)
(* ProcessState::Zombie has it: no later process takes its place.          *)
ZombieWaitsForReap ==
    [][\A s \in Slots :
         processes[s] # None /\ processes[s].state = "Zombie" /\ processes'[s] # None
         => processes'[s].pid = processes[s].pid]_vars

(* The expect() of fork_current and spawn_thread_in_group never fails: a   *)
(* task that makes a system call has its records.                          *)
NoPanic == ~panicked
=============================================================================
