----------------------------- MODULE Scheduler -----------------------------
(***************************************************************************)
(* The preemptive round-robin scheduler at the grain of interrupts: the    *)
(* PIT tick, IN_SYSCALL, the interrupt flag, yield_now, wait_for_event,    *)
(* the end of a task in exit and in the exception handler, and the TASKS   *)
(* and PMM spin locks, which do not mask interrupts.                       *)
(*                                                                         *)
(* One CPU executes one task, current.  ctx[s] is the point at which the   *)
(* task in slot s is, or at which it will go on when it is switched to:    *)
(*   user      ring 3, interrupts on                                       *)
(*   kernel    a kernel task (boot task, background task), interrupts on   *)
(*   spawning  the boot task inside spawn_user_task, TASKS locked          *)
(*   syscall   a system call handler                                       *)
(*   return    the end of syscall_entry, IN_SYSCALL cleared, no sysret yet *)
(*   read      the loop of fd_pipe::read, about to look at the ring        *)
(*   event     wait_for_event, called from that loop                       *)
(*   yield     inside yield_now, IN_SYSCALL not yet restored               *)
(*   fault     default_exception, before it kills the task                 *)
(*   killing   default_exception inside kill_task, TASKS locked            *)
(*   halted    the hlt loop that ends exit and exit_group                  *)
(*   crashed   the hlt loop that ends default_exception                    *)
(*   spin      the tick handler spinning on the TASKS lock                 *)
(*   alloc     the boot task inside the frame allocator, PMM locked        *)
(*   starved   a system call handler spinning on the PMM lock              *)
(***************************************************************************)
EXTENDS TaskTable

CONSTANTS
    SwitchInterval,   \* ticks between two attempts to switch, 10 in the kernel
    Ops,              \* what the tasks do, a subset of AllOps
    ShellStarted      \* the boot task has spawned its program, in slot 2

AllOps == {"fork", "kill", "yield", "exit", "pipe", "fault", "spawn", "alloc"}

ASSUME SchedulerAssumption ==
    /\ SwitchInterval \in Nat \ {0}
    /\ Ops \subseteq AllOps
    /\ ShellStarted \in BOOLEAN
    /\ ShellStarted => MaxTasks > 2

VARIABLES
    tasks,       \* TASKS
    current,     \* CURRENT
    inSyscall,   \* IN_SYSCALL
    intr,        \* RFLAGS.IF of the CPU
    ctx,         \* where each task is
    prev,        \* the local prev of each task's yield_now
    ticks,       \* TICKS modulo SwitchInterval
    locked,      \* the TASKS lock is held across a point where a tick can come
    pmmLocked,   \* the PMM lock is held across a point where a tick can come
    pipe         \* a pipe read can complete: bytes, or no writer left

vars == <<tasks, current, inSyscall, intr, ctx, prev, ticks, locked, pmmLocked, pipe>>

Contexts == {"user", "kernel", "spawning", "syscall", "return", "read", "event",
             "yield", "fault", "killing", "halted", "crashed", "spin", "alloc",
             "starved"}

KernelSlots == {0, 1}

TypeOK ==
    /\ tasks \in TaskTables
    /\ current \in Slots
    /\ inSyscall \in BOOLEAN
    /\ intr \in BOOLEAN
    /\ ctx \in [Slots -> Contexts]
    /\ prev \in [Slots -> BOOLEAN]
    /\ ticks \in 0 .. SwitchInterval - 1
    /\ locked \in BOOLEAN
    /\ pmmLocked \in BOOLEAN
    /\ pipe \in BOOLEAN

(* After boot: init_main_task has registered the boot task and add_task    *)
(* the background task; the boot task may have spawned its first program.  *)
Init ==
    /\ tasks = [s \in Slots |-> CASE s = 0 -> "Running"
                                  [] s = 1 -> "Ready"
                                  [] s = 2 /\ ShellStarted -> "Ready"
                                  [] OTHER -> "None"]
    /\ current = 0
    /\ inSyscall = FALSE
    /\ intr = TRUE
    /\ ctx = [s \in Slots |-> IF s \in KernelSlots THEN "kernel" ELSE "user"]
    /\ prev = [s \in Slots |-> FALSE]
    /\ ticks = 0
    /\ locked = FALSE
    /\ pmmLocked = FALSE
    /\ pipe = FALSE

-----------------------------------------------------------------------------
(* next_task_switch and switch_to.  Without a Ready task nothing changes.  *)
next_task_switch ==
    \/ /\ ~HasReady(tasks)
       /\ UNCHANGED <<tasks, current>>
    \/ \E n \in Slots :
         /\ IsNextReady(tasks, current, n)
         /\ tasks' = Switched(tasks, current, n)
         /\ current' = n

At(points) == ctx[current] \in points
Goto(point) == ctx' = [ctx EXCEPT ![current] = point]

(* Variant: try_switch without its test of IN_SYSCALL.                     *)
Tick_Preempts ==
    /\ intr
    /\ ticks' = (ticks + 1) % SwitchInterval
    /\ \/ ticks' # 0 /\ UNCHANGED <<tasks, current>>
       \/ ticks' = 0 /\ ~locked /\ next_task_switch
    /\ UNCHANGED <<inSyscall, intr, ctx, prev, locked, pmmLocked, pipe>>

(* pit_handler, scheduler::tick and try_switch.  The handler runs with     *)
(* interrupts off; returning from it, or switching, turns them on again.   *)
(* A tick that finds the TASKS lock held spins on it for good: the holder  *)
(* is the very task it interrupted.                                        *)
Tick ==
    /\ intr
    /\ ticks' = (ticks + 1) % SwitchInterval
    /\ \/ /\ ticks' # 0 \/ inSyscall
          /\ UNCHANGED <<tasks, current, ctx, intr>>
       \/ /\ ticks' = 0 /\ ~inSyscall /\ locked
          /\ Goto("spin")
          /\ intr' = FALSE
          /\ UNCHANGED <<tasks, current>>
       \/ /\ ticks' = 0 /\ ~inSyscall /\ ~locked
          /\ next_task_switch
          /\ UNCHANGED <<ctx, intr>>
    /\ UNCHANGED <<inSyscall, prev, locked, pmmLocked, pipe>>

(* syscall_entry: SFMASK clears IF, then IN_SYSCALL is set.                *)
SyscallEntry ==
    /\ At({"user"})
    /\ Goto("syscall")
    /\ inSyscall' = TRUE
    /\ intr' = FALSE
    /\ UNCHANGED <<tasks, current, prev, ticks, locked, pmmLocked, pipe>>

(* The way out of syscall_entry: IN_SYSCALL is cleared, then the registers *)
(* are popped and sysretq restores the user's flags.  A handler that has   *)
(* yielded comes here with interrupts on.                                  *)
SyscallReturn ==
    /\ At({"syscall"})
    /\ Goto("return")
    /\ inSyscall' = FALSE
    /\ UNCHANGED <<tasks, current, intr, prev, ticks, locked, pmmLocked, pipe>>

Sysret ==
    /\ At({"return"})
    /\ Goto("user")
    /\ intr' = TRUE
    /\ UNCHANGED <<tasks, current, inSyscall, prev, ticks, locked, pmmLocked, pipe>>

(* yield_now up to and including try_switch.  A switch leaves interrupts   *)
(* on (the sti of switch_to); without one they are still off.              *)
YieldNow ==
    /\ "yield" \in Ops
    /\ At({"syscall"})
    /\ prev' = [prev EXCEPT ![current] = inSyscall]
    /\ inSyscall' = FALSE
    /\ Goto("yield")
    /\ next_task_switch
    /\ intr' = (current' # current)
    /\ UNCHANGED <<ticks, locked, pmmLocked, pipe>>

(* Variant: yield_now does not put IN_SYSCALL back.                        *)
YieldReturn_FlagLost ==
    /\ At({"yield"})
    /\ intr' = TRUE
    /\ Goto("syscall")
    /\ UNCHANGED <<tasks, current, inSyscall, prev, ticks, locked, pmmLocked, pipe>>

(* The rest of yield_now, when the task runs again.                        *)
YieldReturn ==
    /\ At({"yield"})
    /\ inSyscall' = prev[current]
    /\ intr' = TRUE
    /\ Goto("syscall")
    /\ UNCHANGED <<tasks, current, prev, ticks, locked, pmmLocked, pipe>>

(* fd_pipe::read: with bytes in the ring, or every write end closed, the   *)
(* handler goes on; otherwise it waits for an event, interrupts on and     *)
(* IN_SYSCALL still set, and looks again.                                  *)
PipeReadEntry ==
    /\ "pipe" \in Ops
    /\ At({"user"})
    /\ Goto("read")
    /\ inSyscall' = TRUE
    /\ intr' = FALSE
    /\ UNCHANGED <<tasks, current, prev, ticks, locked, pmmLocked, pipe>>

PipeRead ==
    /\ At({"read"})
    /\ \/ /\ pipe
          /\ pipe' = FALSE
          /\ Goto("syscall")
          /\ UNCHANGED intr
       \/ /\ ~pipe
          /\ intr' = TRUE
          /\ Goto("event")
          /\ UNCHANGED pipe
    /\ UNCHANGED <<tasks, current, inSyscall, prev, ticks, locked, pmmLocked>>

WaitReturn ==
    /\ At({"event"})
    /\ intr' = FALSE
    /\ Goto("read")
    /\ UNCHANGED <<tasks, current, inSyscall, prev, ticks, locked, pmmLocked, pipe>>

(* Another task's write, or its close of the last write end.               *)
PipeWrite ==
    /\ "pipe" \in Ops
    /\ At({"syscall"})
    /\ pipe' = TRUE
    /\ UNCHANGED <<tasks, current, inSyscall, intr, ctx, prev, ticks, locked, pmmLocked>>

-----------------------------------------------------------------------------
(* fork, clone and exec as the scheduler sees them: spawn_forked_task or   *)
(* spawn_user_task inside a handler.                                       *)
Fork ==
    /\ "fork" \in Ops
    /\ At({"syscall"})
    /\ \E s \in Slots :
         /\ IsFirstFree(tasks, s)
         /\ tasks' = [tasks EXCEPT ![s] = "Ready"]
         /\ ctx' = [ctx EXCEPT ![s] = "user"]
    /\ UNCHANGED <<current, inSyscall, intr, prev, ticks, locked, pmmLocked, pipe>>

(* exit_thread(whole_group) and terminate_process_group: kill_task on the  *)
(* threads of a group, the caller's own task possibly among them.          *)
KillGroup ==
    /\ "kill" \in Ops
    /\ At({"syscall"})
    /\ \E S \in SUBSET (Slots \ KernelSlots) : tasks' = Killed(tasks, S)
    /\ UNCHANGED <<current, inSyscall, intr, ctx, prev, ticks, locked, pmmLocked, pipe>>

(* Variant: exit halts without clearing IN_SYSCALL.                        *)
Exit_FlagKept ==
    /\ "exit" \in Ops
    /\ At({"syscall"})
    /\ tasks' = Killed(tasks, {current})
    /\ intr' = TRUE
    /\ Goto("halted")
    /\ UNCHANGED <<current, inSyscall, prev, ticks, locked, pmmLocked, pipe>>

(* The tail of syscall_exit and syscall_exit_group.                        *)
Exit ==
    /\ "exit" \in Ops
    /\ At({"syscall"})
    /\ tasks' = Killed(tasks, {current})
    /\ inSyscall' = FALSE
    /\ intr' = TRUE
    /\ Goto("halted")
    /\ UNCHANGED <<current, prev, ticks, locked, pmmLocked, pipe>>

(* default_exception, entered from ring 3 or from a handler that touched   *)
(* an unmapped user page.  It turns interrupts on, kills the task under    *)
(* the TASKS lock and halts; it leaves IN_SYSCALL as it finds it.          *)
FaultEntry ==
    /\ "fault" \in Ops
    /\ At({"user", "syscall"})
    /\ intr' = TRUE
    /\ Goto("fault")
    /\ UNCHANGED <<tasks, current, inSyscall, prev, ticks, locked, pmmLocked, pipe>>

FaultLock ==
    /\ At({"fault"})
    /\ locked' = TRUE
    /\ Goto("killing")
    /\ UNCHANGED <<tasks, current, inSyscall, intr, prev, ticks, pmmLocked, pipe>>

FaultKill ==
    /\ At({"killing"})
    /\ tasks' = Killed(tasks, {current})
    /\ locked' = FALSE
    /\ Goto("crashed")
    /\ UNCHANGED <<current, inSyscall, intr, prev, ticks, pmmLocked, pipe>>

(* spawn_user_task on behalf of the boot task (run_embedded_userspace_test *)
(* and run_shell): the lock is held with interrupts on.                    *)
SpawnLock ==
    /\ "spawn" \in Ops
    /\ current = 0
    /\ At({"kernel"})
    /\ locked' = TRUE
    /\ Goto("spawning")
    /\ UNCHANGED <<tasks, current, inSyscall, intr, prev, ticks, pmmLocked, pipe>>

SpawnUnlock ==
    /\ At({"spawning"})
    /\ \/ /\ FreeSlots(tasks) = {}
          /\ Goto("kernel")
          /\ UNCHANGED tasks
       \/ \E s \in Slots :
            /\ IsFirstFree(tasks, s)
            /\ tasks' = [tasks EXCEPT ![s] = "Ready"]
            /\ ctx' = [ctx EXCEPT ![s] = "user", ![current] = "kernel"]
    /\ locked' = FALSE
    /\ UNCHANGED <<current, inSyscall, intr, prev, ticks, pmmLocked, pipe>>

(* The frame allocator, called by the boot task outside any system call    *)
(* (exec_as_task, paging): it holds the PMM lock, zeroes the page and      *)
(* releases the lock with interrupts on.                                   *)
AllocLock ==
    /\ "alloc" \in Ops
    /\ current = 0
    /\ At({"kernel"})
    /\ pmmLocked' = TRUE
    /\ Goto("alloc")
    /\ UNCHANGED <<tasks, current, inSyscall, intr, prev, ticks, locked, pipe>>

AllocUnlock ==
    /\ At({"alloc"})
    /\ pmmLocked' = FALSE
    /\ Goto("kernel")
    /\ UNCHANGED <<tasks, current, inSyscall, intr, prev, ticks, locked, pipe>>

(* A handler that needs a frame while the preempted boot task holds the    *)
(* lock spins with IN_SYSCALL set, so the holder never runs again.  (With  *)
(* the lock free it takes and releases it within the handler's step.)      *)
SyscallAlloc ==
    /\ "alloc" \in Ops
    /\ At({"syscall"})
    /\ pmmLocked
    /\ Goto("starved")
    /\ UNCHANGED <<tasks, current, inSyscall, intr, prev, ticks, locked, pmmLocked, pipe>>

-----------------------------------------------------------------------------
(* The steps of a system call that its code runs to the end by itself.     *)
HandlerStep == SyscallReturn \/ Sysret \/ YieldReturn \/ PipeRead \/ WaitReturn

FaultStep == FaultLock \/ FaultKill

Next ==
    \/ Tick
    \/ SyscallEntry \/ SyscallReturn \/ Sysret
    \/ YieldNow \/ YieldReturn
    \/ PipeReadEntry \/ PipeRead \/ WaitReturn \/ PipeWrite
    \/ Fork \/ KillGroup \/ Exit
    \/ FaultEntry \/ FaultLock \/ FaultKill
    \/ SpawnLock \/ SpawnUnlock
    \/ AllocLock \/ AllocUnlock \/ SyscallAlloc

Spec == Init /\ [][Next]_vars

(* The PIC keeps a tick pending while interrupts are off, so a tick comes  *)
(* if interrupts are on again and again.  Kernel code that has started     *)
(* runs on while its task has the CPU.  Nothing is assumed of user code.   *)
Fairness ==
    /\ SF_vars(Tick)
    /\ WF_vars(HandlerStep)
    /\ WF_vars(FaultStep)
    /\ WF_vars(SpawnUnlock)
    /\ WF_vars(AllocUnlock)

FairSpec == Spec /\ Fairness

-----------------------------------------------------------------------------
(* The running task is the current one: CURRENT never names an empty or a  *)
(* Ready slot, and no other slot is Running (next_task_switch, kill_task). *)
OnlyCurrentRuns ==
    /\ tasks[current] \in {"Running", "Dead"}
    /\ \A s \in Slots : tasks[s] = "Running" => s = current

(* IN_SYSCALL, one global that yield_now saves and restores per task and   *)
(* that exit clears for good, says of the current task whether it is in a  *)
(* handler that must not be preempted; tasks that wait for the CPU are at  *)
(* a point where they may be resumed, those in yield_now with the flag to  *)
(* restore.                                                                *)
SyscallFlagIsTruthful ==
    /\ At({"syscall", "read", "event", "starved"}) => inSyscall
    /\ At({"user", "kernel", "spawning", "alloc", "return", "yield", "spin"}) => ~inSyscall
    /\ \A s \in Slots \ {current} :
         tasks[s] # "None" => /\ ctx[s] \in {"user", "kernel", "alloc", "return", "yield", "fault"}
                              /\ ctx[s] = "yield" => prev[s]

(* "Do not preempt inside syscall critical section" (try_switch): the CPU  *)
(* is never taken from a task inside a handler, except where the handler   *)
(* gives it up in yield_now.                                               *)
NoPreemptionInHandler ==
    [][current' # current =>
         \/ ctx[current] \in {"user", "kernel", "alloc", "return", "yield", "fault",
                               "halted", "crashed"}
         \/ ctx[current] = "syscall" /\ ctx'[current] = "yield"]_vars

(* A task that kill_task marked is never made Ready again: once Dead, a    *)
(* task is either Dead or gone, whatever order kills and switches come in. *)
DeadIsFinal ==
    [][\A s \in Slots : tasks[s] = "Dead" => tasks'[s] \in {"Dead", "None"}]_vars

(* The states in which a wait, a fault or a spin lock has disabled the     *)
(* scheduler: a pipe read that waits with IN_SYSCALL set, the last loop of *)
(* default_exception with IN_SYSCALL set, and the two locks that do not    *)
(* mask interrupts.                                                        *)
DeadEnd ==
    \/ At({"read", "event"}) /\ ~pipe
    \/ At({"crashed"}) /\ inSyscall
    \/ At({"spin", "starved"})

(* The round robin starves no one unless the machine is in one of the four *)
(* dead ends for ever: a Ready task is dispatched or killed, whatever the  *)
(* other tasks do (tick, try_switch, next_task_switch, yield_now, exit).   *)
ReadyRunsOrDeadEnd ==
    \A s \in Slots : tasks[s] = "Ready" ~> (tasks[s] # "Ready" \/ []DeadEnd)

(* The slot of a task that ended itself, in exit or by a fault, is given   *)
(* back at the next switch, with the same exceptions.                      *)
EndedTaskLeaves ==
    \A s \in Slots :
        (s = current /\ tasks[s] = "Dead") ~> (tasks[s] = "None" \/ []DeadEnd)

(* "preemptive round-robin scheduler" (README): a Ready task is dispatched *)
(* or killed, with no exceptions.                                          *)
ReadyTaskRuns ==
    \A s \in Slots : tasks[s] = "Ready" ~> tasks[s] # "Ready"

(* default_exception leaves the process "so kernel shell can reap it": the *)
(* boot task, which runs the kernel shell, gets the CPU after a fault.     *)
FaultedTaskIsReapable ==
    ctx[current] = "fault" ~> tasks[0] = "Running"
=============================================================================
