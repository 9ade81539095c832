-------------------------- MODULE SchedulerProofs --------------------------
(***************************************************************************)
(* Proofs that the safety properties of Scheduler hold for every number of *)
(* task slots, every switch interval and every choice of operations.       *)
(*                                                                         *)
(* The properties are not inductive by themselves.  A switch may leave a   *)
(* task behind only at a point where it can be resumed, and for that the   *)
(* invariant needs three more facts: a task that holds the TASKS lock is   *)
(* known by its point (Tick then spins and does not switch), a task in the *)
(* final hlt loop is Dead (so a switch frees its slot), and yield_now has  *)
(* saved TRUE.                                                             *)
(***************************************************************************)
EXTENDS Scheduler, TLAPS

(* The points at which the TASKS lock is held are known.                   *)
LockPoints == At({"spawning", "killing", "spin"}) => locked

(* Who halts for good has been killed.                                     *)
HaltedIsDead == At({"halted", "crashed"}) => tasks[current] = "Dead"

(* yield_now is called inside system calls only.                           *)
YieldSavedFlag == At({"yield"}) => prev[current]

Inv ==
    /\ TypeOK
    /\ OnlyCurrentRuns
    /\ SyscallFlagIsTruthful
    /\ LockPoints
    /\ HaltedIsDead
    /\ YieldSavedFlag

-----------------------------------------------------------------------------
(* What next_task_switch does to TASKS and CURRENT: nothing, or it hands   *)
(* the CPU to a Ready task, leaves the old one Ready or its slot empty,    *)
(* and touches no third slot.                                              *)
LEMMA SwitchLemma ==
    ASSUME TypeOK, OnlyCurrentRuns, next_task_switch
    PROVE  /\ tasks' \in TaskTables
           /\ current' \in Slots
           /\ OnlyCurrentRuns'
           /\ \/ current' = current /\ tasks' = tasks
              \/ /\ current' # current
                 /\ tasks[current'] = "Ready"
                 /\ tasks'[current] \in {"Ready", "None"}
                 /\ tasks[current] = "Dead" => tasks'[current] = "None"
                 /\ \A s \in Slots \ {current, current'} : tasks'[s] = tasks[s]
<1>1. CASE UNCHANGED <<tasks, current>>
  BY <1>1 DEF TypeOK, OnlyCurrentRuns
<1>2. ASSUME NEW n \in Slots, IsNextReady(tasks, current, n),
             tasks' = Switched(tasks, current, n), current' = n
      PROVE  /\ tasks' \in TaskTables
             /\ current' \in Slots
             /\ OnlyCurrentRuns'
             /\ current' # current
             /\ tasks[current'] = "Ready"
             /\ tasks'[current] \in {"Ready", "None"}
             /\ tasks[current] = "Dead" => tasks'[current] = "None"
             /\ \A s \in Slots \ {current, current'} : tasks'[s] = tasks[s]
  <2>1. tasks[n] = "Ready" /\ tasks[current] \in {"Running", "Dead"} /\ n # current
    BY <1>2 DEF IsNextReady, OnlyCurrentRuns
  <2>2. SwitchedOut(tasks[current]) = IF tasks[current] = "Running" THEN "Ready" ELSE "None"
    BY <2>1 DEF SwitchedOut
  <2>3. /\ tasks' \in TaskTables
        /\ tasks'[n] = "Running"
        /\ tasks'[current] = SwitchedOut(tasks[current])
        /\ \A s \in Slots \ {current, n} : tasks'[s] = tasks[s]
    BY <1>2, <2>1, <2>2 DEF TypeOK, TaskTables, TaskStates, Switched
  <2> QED
    BY <1>2, <2>1, <2>2, <2>3 DEF OnlyCurrentRuns, TypeOK
<1> QED
  BY <1>1, <1>2 DEF next_task_switch

(* kill_task keeps the table well formed, makes tasks only Dead, and       *)
(* leaves empty slots empty.                                               *)
LEMMA KilledLemma ==
    ASSUME NEW t \in TaskTables, NEW S \in SUBSET Slots
    PROVE  /\ Killed(t, S) \in TaskTables
           /\ \A s \in Slots : \/ Killed(t, S)[s] = t[s]
                               \/ Killed(t, S)[s] = "Dead" /\ t[s] # "None"
           /\ \A s \in S : t[s] # "None" => Killed(t, S)[s] = "Dead"
BY DEF TaskTables, TaskStates, Killed

-----------------------------------------------------------------------------
(* The boot state satisfies the invariant.                                 *)
LEMMA InitInv == Init => Inv
<1> SUFFICES ASSUME Init PROVE Inv
  OBVIOUS
<1>1. 0 \in Slots /\ 1 \in Slots
  BY MaxTasksAssumption DEF Slots
<1>2. TypeOK
  <2>1. tasks \in TaskTables
    BY DEF Init, TaskTables, TaskStates
  <2>2. ctx \in [Slots -> Contexts]
    BY DEF Init, Contexts
  <2>3. prev \in [Slots -> BOOLEAN]
    BY DEF Init
  <2>4. ticks \in 0 .. SwitchInterval - 1
    BY SchedulerAssumption DEF Init
  <2> QED
    BY <1>1, <2>1, <2>2, <2>3, <2>4 DEF Init, TypeOK
<1>3. OnlyCurrentRuns
  BY <1>1 DEF Init, OnlyCurrentRuns
<1>4. SyscallFlagIsTruthful /\ LockPoints /\ HaltedIsDead /\ YieldSavedFlag
  BY <1>1 DEF Init, SyscallFlagIsTruthful, LockPoints, HaltedIsDead, YieldSavedFlag,
              At, KernelSlots
<1> QED
  BY <1>2, <1>3, <1>4 DEF Inv

(* A tick: it may move the CPU from a task that is in no handler and holds *)
(* no lock.                                                                *)
LEMMA TickInv == Inv /\ Tick => Inv'
<1> SUFFICES ASSUME Inv, Tick PROVE Inv'
  OBVIOUS
<1> USE DEF Inv
<1>0. ticks' \in 0 .. SwitchInterval - 1
  BY SchedulerAssumption DEF Tick, TypeOK
<1>1. CASE UNCHANGED <<tasks, current, ctx, intr>>
  BY <1>0, <1>1 DEF Tick, TypeOK, OnlyCurrentRuns, SyscallFlagIsTruthful, LockPoints,
                    HaltedIsDead, YieldSavedFlag, At
<1>2. CASE ~inSyscall /\ locked /\ Goto("spin") /\ intr' = FALSE /\ UNCHANGED <<tasks, current>>
  BY <1>0, <1>2 DEF Tick, TypeOK, OnlyCurrentRuns, SyscallFlagIsTruthful, LockPoints,
                    HaltedIsDead, YieldSavedFlag, At, Goto, Contexts
<1>3. CASE ~inSyscall /\ ~locked /\ next_task_switch /\ UNCHANGED <<ctx, intr>>
  <2>1. TypeOK' /\ OnlyCurrentRuns'
    BY <1>0, <1>3, SwitchLemma DEF Tick, TypeOK
  <2>2. CASE current' = current /\ tasks' = tasks
    BY <1>3, <2>1, <2>2 DEF Tick, SyscallFlagIsTruthful, LockPoints,
                            HaltedIsDead, YieldSavedFlag, At
  <2>3. CASE /\ current' # current
             /\ tasks[current'] = "Ready"
             /\ tasks'[current] \in {"Ready", "None"}
             /\ tasks[current] = "Dead" => tasks'[current] = "None"
             /\ \A s \in Slots \ {current, current'} : tasks'[s] = tasks[s]
    <3>1. ctx[current] \in {"user", "kernel", "alloc", "return", "yield", "fault",
                           "halted", "crashed"}
      BY <1>3 DEF SyscallFlagIsTruthful, LockPoints, At, TypeOK, Contexts
    <3>2. ctx[current'] \in {"user", "kernel", "alloc", "return", "yield", "fault"}
      BY <2>1, <2>3 DEF SyscallFlagIsTruthful, TypeOK
    <3>3. ctx[current'] = "yield" => prev[current']
      BY <2>1, <2>3 DEF SyscallFlagIsTruthful, TypeOK
    <3>4. SyscallFlagIsTruthful'
      BY <1>3, <2>1, <2>3, <3>1, <3>2 DEF Tick, SyscallFlagIsTruthful, HaltedIsDead,
                                         YieldSavedFlag, At, TypeOK
    <3> QED
      BY <1>3, <2>1, <3>2, <3>3, <3>4 DEF Tick, LockPoints, HaltedIsDead, YieldSavedFlag, At
  <2> QED
    BY <1>3, <2>2, <2>3, SwitchLemma
<1> QED
  BY <1>1, <1>2, <1>3 DEF Tick

(* yield_now saves the flag and may switch away from its handler.          *)
LEMMA YieldInv == Inv /\ YieldNow => Inv'
<1> SUFFICES ASSUME Inv, YieldNow PROVE Inv'
  OBVIOUS
<1> USE DEF Inv
<1>0. inSyscall /\ ctx[current] = "syscall"
  BY DEF YieldNow, SyscallFlagIsTruthful, At
<1>1. /\ ctx' = [ctx EXCEPT ![current] = "yield"] /\ ~inSyscall'
      /\ prev' = [prev EXCEPT ![current] = TRUE] /\ locked' = locked
  BY <1>0 DEF YieldNow, Goto
<1>2. TypeOK' /\ OnlyCurrentRuns'
  BY <1>0, <1>1, SwitchLemma DEF YieldNow, TypeOK, Contexts
<1>3. CASE current' = current /\ tasks' = tasks
  BY <1>1, <1>2, <1>3 DEF TypeOK, SyscallFlagIsTruthful, LockPoints, HaltedIsDead,
                          YieldSavedFlag, At
<1>4. CASE /\ current' # current
           /\ tasks[current'] = "Ready"
           /\ \A s \in Slots \ {current, current'} : tasks'[s] = tasks[s]
  <2>1. /\ ctx'[current'] \in {"user", "kernel", "alloc", "return", "yield", "fault"}
        /\ ctx'[current'] = "yield" => prev'[current']
    BY <1>1, <1>2, <1>4 DEF SyscallFlagIsTruthful, TypeOK
  <2>2. ctx'[current] = "yield" /\ prev'[current]
    BY <1>1 DEF TypeOK
  <2>3. SyscallFlagIsTruthful'
    BY <1>1, <1>2, <1>4, <2>1, <2>2 DEF SyscallFlagIsTruthful, At, TypeOK
  <2> QED
    BY <1>2, <2>1, <2>3 DEF LockPoints, HaltedIsDead, YieldSavedFlag, At
<1> QED
  BY <1>3, <1>4, SwitchLemma DEF YieldNow

(* The steps that leave TASKS and CURRENT alone, and move the current task *)
(* to a point p with the flag, the lock and the saved flag that belong to  *)
(* that point.                                                             *)
LEMMA LocalInv ==
    ASSUME Inv, NEW p \in Contexts,
           UNCHANGED <<tasks, current, ticks>>, ctx' = [ctx EXCEPT ![current] = p],
           inSyscall' \in BOOLEAN, intr' \in BOOLEAN, locked' \in BOOLEAN,
           pmmLocked' \in BOOLEAN, pipe' \in BOOLEAN, prev' = prev,
           p \in {"syscall", "read", "event", "starved"} => inSyscall',
           p \in {"user", "kernel", "alloc", "return"} => ~inSyscall',
           p \in {"user", "kernel", "return", "syscall", "read", "event", "spawning",
                  "fault", "killing", "alloc", "starved"},
           p \in {"spawning", "killing"} => locked',
           p = "spawning" => ~inSyscall'
    PROVE  Inv'
<1>1. TypeOK'
  BY DEF Inv, TypeOK
<1>2. OnlyCurrentRuns'
  BY DEF Inv, OnlyCurrentRuns
<1>3. ctx'[current'] = p /\ \A s \in Slots \ {current} : ctx'[s] = ctx[s]
  BY DEF Inv, TypeOK
<1>4. SyscallFlagIsTruthful'
  BY <1>3 DEF Inv, SyscallFlagIsTruthful, At
<1>5. LockPoints' /\ HaltedIsDead' /\ YieldSavedFlag'
  BY <1>3 DEF LockPoints, HaltedIsDead, YieldSavedFlag, At
<1> QED
  BY <1>1, <1>2, <1>4, <1>5 DEF Inv

(* System calls: entry, return, the end of yield_now, and the pipe read.   *)
LEMMA SyscallInv ==
    Inv /\ (SyscallEntry \/ SyscallReturn \/ Sysret \/ YieldReturn \/ PipeReadEntry
            \/ PipeRead \/ WaitReturn \/ PipeWrite) => Inv'
<1> SUFFICES ASSUME Inv PROVE
      (SyscallEntry \/ SyscallReturn \/ Sysret \/ YieldReturn \/ PipeReadEntry
         \/ PipeRead \/ WaitReturn \/ PipeWrite) => Inv'
  OBVIOUS
<1>0. /\ inSyscall \in BOOLEAN /\ intr \in BOOLEAN /\ locked \in BOOLEAN
      /\ pmmLocked \in BOOLEAN /\ pipe \in BOOLEAN
      /\ {"user", "return", "syscall", "read", "event"} \subseteq Contexts
  BY DEF Inv, TypeOK, Contexts
<1>1. CASE SyscallEntry
  BY <1>0, <1>1, LocalInv DEF SyscallEntry, Goto
<1>2. CASE SyscallReturn
  BY <1>0, <1>2, LocalInv DEF SyscallReturn, Goto
<1>3. CASE Sysret
  <2>1. ~inSyscall
    BY <1>3 DEF Sysret, Inv, SyscallFlagIsTruthful, At
  <2> QED
    BY <1>0, <1>3, <2>1, LocalInv DEF Sysret, Goto
<1>4. CASE YieldReturn
  <2>1. inSyscall' = TRUE
    BY <1>4 DEF YieldReturn, Inv, YieldSavedFlag, At, TypeOK
  <2> QED
    BY <1>0, <1>4, <2>1, LocalInv DEF YieldReturn, Goto
<1>5. CASE PipeReadEntry
  BY <1>0, <1>5, LocalInv DEF PipeReadEntry, Goto
<1>6. CASE PipeRead
  <2>1. inSyscall
    BY <1>6 DEF PipeRead, Inv, SyscallFlagIsTruthful, At
  <2> QED
    BY <1>0, <1>6, <2>1, LocalInv DEF PipeRead, Goto
<1>7. CASE WaitReturn
  <2>1. inSyscall
    BY <1>7 DEF WaitReturn, Inv, SyscallFlagIsTruthful, At
  <2> QED
    BY <1>0, <1>7, <2>1, LocalInv DEF WaitReturn, Goto
<1>8. CASE PipeWrite
  BY <1>8 DEF PipeWrite, Inv, TypeOK, OnlyCurrentRuns, SyscallFlagIsTruthful, LockPoints,
              HaltedIsDead, YieldSavedFlag, At
<1> QED
  BY <1>1, <1>2, <1>3, <1>4, <1>5, <1>6, <1>7, <1>8

(* A new task enters at ring 3, in a slot that was empty.                  *)
LEMMA SpawnInv ==
    ASSUME Inv, NEW s \in Slots, IsFirstFree(tasks, s)
    PROVE  /\ s # current
           /\ [tasks EXCEPT ![s] = "Ready"] \in TaskTables
BY DEF Inv, TypeOK, OnlyCurrentRuns, IsFirstFree, FreeSlots, TaskTables, TaskStates

(* fork, clone and exec, and the boot task's spawn under the lock.         *)
LEMMA CreateInv == Inv /\ (Fork \/ SpawnLock \/ SpawnUnlock) => Inv'
<1> SUFFICES ASSUME Inv PROVE (Fork \/ SpawnLock \/ SpawnUnlock) => Inv'
  OBVIOUS
<1>0. {"user", "kernel", "spawning"} \subseteq Contexts
  BY DEF Contexts
<1>1. CASE Fork
  <2>1. PICK s \in Slots : /\ IsFirstFree(tasks, s)
                           /\ tasks' = [tasks EXCEPT ![s] = "Ready"]
                           /\ ctx' = [ctx EXCEPT ![s] = "user"]
    BY <1>1 DEF Fork
  <2>2. s # current /\ tasks' \in TaskTables
    BY <2>1, SpawnInv
  <2>3. TypeOK'
    BY <1>0, <1>1, <2>1, <2>2 DEF Fork, Inv, TypeOK
  <2> QED
    BY <1>1, <2>1, <2>2, <2>3 DEF Fork, Inv, TypeOK, TaskTables, OnlyCurrentRuns,
         SyscallFlagIsTruthful, LockPoints, HaltedIsDead, YieldSavedFlag, At
<1>2. CASE SpawnLock
  <2>1. ~inSyscall
    BY <1>2 DEF SpawnLock, Inv, SyscallFlagIsTruthful, At
  <2> QED
    BY <1>0, <1>2, <2>1, LocalInv DEF SpawnLock, Goto, Inv, TypeOK
<1>3. CASE SpawnUnlock
  <2>1. ~inSyscall
    BY <1>3 DEF SpawnUnlock, Inv, SyscallFlagIsTruthful, At
  <2>2. CASE Goto("kernel") /\ UNCHANGED tasks
    BY <1>0, <1>3, <2>1, <2>2, LocalInv DEF SpawnUnlock, Goto, Inv, TypeOK
  <2>3. ASSUME NEW s \in Slots, IsFirstFree(tasks, s),
               tasks' = [tasks EXCEPT ![s] = "Ready"],
               ctx' = [ctx EXCEPT ![s] = "user", ![current] = "kernel"]
        PROVE  Inv'
    <3>1. s # current /\ tasks' \in TaskTables
      BY <2>3, SpawnInv
    <3>2. TypeOK'
      BY <1>0, <1>3, <2>3, <3>1 DEF SpawnUnlock, Inv, TypeOK
    <3> QED
      BY <1>3, <2>1, <2>3, <3>1, <3>2 DEF SpawnUnlock, Inv, TypeOK, TaskTables,
           OnlyCurrentRuns, SyscallFlagIsTruthful, LockPoints, HaltedIsDead,
           YieldSavedFlag, At
  <2> QED
    BY <1>3, <2>2, <2>3 DEF SpawnUnlock
<1> QED
  BY <1>1, <1>2, <1>3

(* The end of tasks.                                                       *)
LEMMA EndInv == Inv /\ (KillGroup \/ Exit \/ FaultEntry \/ FaultLock \/ FaultKill) => Inv'
<1> SUFFICES ASSUME Inv PROVE
      (KillGroup \/ Exit \/ FaultEntry \/ FaultLock \/ FaultKill) => Inv'
  OBVIOUS
<1>0. {"fault", "killing", "halted", "crashed"} \subseteq Contexts
  BY DEF Contexts
<1>1. CASE KillGroup
  <2>1. PICK S \in SUBSET (Slots \ KernelSlots) : tasks' = Killed(tasks, S)
    BY <1>1 DEF KillGroup
  <2>2. /\ tasks' \in TaskTables
        /\ \A s \in Slots : \/ tasks'[s] = tasks[s]
                            \/ tasks'[s] = "Dead" /\ tasks[s] # "None"
    BY <2>1, KilledLemma DEF Inv, TypeOK
  <2> QED
    BY <1>1, <2>2 DEF KillGroup, Inv, TypeOK, OnlyCurrentRuns, SyscallFlagIsTruthful,
         LockPoints, HaltedIsDead, YieldSavedFlag, At
<1>2. ASSUME tasks' = Killed(tasks, {current}), Goto("halted") \/ Goto("crashed"),
             UNCHANGED <<current, prev>>, TypeOK'
      PROVE  Inv'
  <2>1. /\ \A s \in Slots : \/ tasks'[s] = tasks[s]
                            \/ tasks'[s] = "Dead" /\ tasks[s] # "None"
        /\ tasks'[current] = "Dead"
    BY <1>2, KilledLemma DEF Inv, TypeOK, OnlyCurrentRuns
  <2> QED
    BY <1>2, <2>1 DEF Inv, TypeOK, Goto, OnlyCurrentRuns, SyscallFlagIsTruthful,
         LockPoints, HaltedIsDead, YieldSavedFlag, At
<1>3. Killed(tasks, {current}) \in TaskTables
  BY KilledLemma DEF Inv, TypeOK
<1>4. CASE Exit
  <2>1. TypeOK'
    BY <1>0, <1>3, <1>4 DEF Exit, Goto, Inv, TypeOK
  <2> QED
    BY <1>2, <1>4, <2>1 DEF Exit
<1>5. CASE FaultKill
  <2>1. TypeOK'
    BY <1>0, <1>3, <1>5 DEF FaultKill, Goto, Inv, TypeOK
  <2> QED
    BY <1>2, <1>5, <2>1 DEF FaultKill
<1>6. CASE FaultEntry
  BY <1>0, <1>6, LocalInv DEF FaultEntry, Goto, Inv, TypeOK
<1>7. CASE FaultLock
  BY <1>0, <1>7, LocalInv DEF FaultLock, Goto, Inv, TypeOK
<1> QED
  BY <1>1, <1>4, <1>5, <1>6, <1>7

(* The frame allocator's lock, held by the boot task across a switch.      *)
LEMMA AllocInv == Inv /\ (AllocLock \/ AllocUnlock \/ SyscallAlloc) => Inv'
<1> SUFFICES ASSUME Inv PROVE (AllocLock \/ AllocUnlock \/ SyscallAlloc) => Inv'
  OBVIOUS
<1>0. {"kernel", "alloc", "starved"} \subseteq Contexts
  BY DEF Contexts
<1>1. CASE AllocLock
  <2>1. ~inSyscall
    BY <1>1 DEF AllocLock, Inv, SyscallFlagIsTruthful, At
  <2> QED
    BY <1>0, <1>1, <2>1, LocalInv DEF AllocLock, Goto, Inv, TypeOK
<1>2. CASE AllocUnlock
  <2>1. ~inSyscall
    BY <1>2 DEF AllocUnlock, Inv, SyscallFlagIsTruthful, At
  <2> QED
    BY <1>0, <1>2, <2>1, LocalInv DEF AllocUnlock, Goto, Inv, TypeOK
<1>3. CASE SyscallAlloc
  <2>1. inSyscall
    BY <1>3 DEF SyscallAlloc, Inv, SyscallFlagIsTruthful, At
  <2> QED
    BY <1>0, <1>3, <2>1, LocalInv DEF SyscallAlloc, Goto, Inv, TypeOK
<1> QED
  BY <1>1, <1>2, <1>3

-----------------------------------------------------------------------------
(* Every step of the scheduler preserves the invariant.                    *)
LEMMA NextInv == Inv /\ [Next]_vars => Inv'
<1>1. Inv /\ UNCHANGED vars => Inv'
  BY DEF vars, Inv, TypeOK, OnlyCurrentRuns, SyscallFlagIsTruthful, LockPoints,
         HaltedIsDead, YieldSavedFlag, At
<1> QED
  BY <1>1, TickInv, YieldInv, SyscallInv, CreateInv, EndInv, AllocInv DEF Next

(* The inductive invariant holds of every reachable state.                 *)
THEOREM Invariance == Spec => []Inv
BY InitInv, NextInv, PTL DEF Spec

(* Every variable keeps its type, for any number of slots.                 *)
THEOREM TypeCorrect == Spec => []TypeOK
<1>1. Inv => TypeOK
  BY DEF Inv
<1> QED
  BY <1>1, Invariance, PTL

(* CURRENT always names the one task that runs (next_task_switch).         *)
THEOREM CurrentRuns == Spec => []OnlyCurrentRuns
<1>1. Inv => OnlyCurrentRuns
  BY DEF Inv
<1> QED
  BY <1>1, Invariance, PTL

(* IN_SYSCALL, saved and restored by yield_now and cleared by exit, tells  *)
(* the truth about the current task in every reachable state.              *)
THEOREM FlagTruthful == Spec => []SyscallFlagIsTruthful
<1>1. Inv => SyscallFlagIsTruthful
  BY DEF Inv
<1> QED
  BY <1>1, Invariance, PTL

(* The CPU is never taken from a task inside a handler: what lets module   *)
(* Proc treat a system call as one step.                                   *)
THEOREM HandlersNotPreempted == Spec => NoPreemptionInHandler
<1> DEFINE Safe == current' # current =>
             \/ ctx[current] \in {"user", "kernel", "alloc", "return", "yield", "fault",
                                  "halted", "crashed"}
             \/ ctx[current] = "syscall" /\ ctx'[current] = "yield"
<1>1. ASSUME Inv, Next PROVE Safe
  <2>1. CASE Tick
    BY <1>1, <2>1 DEF Inv, TypeOK, SyscallFlagIsTruthful, LockPoints, Tick, At, Contexts
  <2>2. CASE YieldNow
    BY <1>1, <2>2 DEF Inv, TypeOK, YieldNow, At, Goto
  <2>3. CASE current' = current
    BY <2>3
  <2> QED
    BY <1>1, <2>1, <2>2, <2>3 DEF Next, SyscallEntry, SyscallReturn, Sysret, YieldReturn,
         PipeReadEntry, PipeRead, WaitReturn, PipeWrite, Fork, KillGroup, Exit, FaultEntry,
         FaultLock, FaultKill, SpawnLock, SpawnUnlock, AllocLock, AllocUnlock, SyscallAlloc
<1>2. ASSUME Inv, [Next]_vars PROVE [Safe]_vars
  BY <1>1, <1>2
<1> QED
  BY <1>2, Invariance, PTL DEF Spec, NoPreemptionInHandler

(* A killed task is never made Ready again.                                *)
THEOREM DeadStaysDead == Spec => DeadIsFinal
<1> DEFINE Final == \A s \in Slots : tasks[s] = "Dead" => tasks'[s] \in {"Dead", "None"}
<1>1. ASSUME Inv, Next PROVE Final
  <2>1. CASE next_task_switch
    BY <1>1, <2>1, SwitchLemma DEF Inv, TypeOK
  <2>2. CASE UNCHANGED tasks
    BY <2>2
  <2>3. ASSUME NEW s \in Slots, IsFirstFree(tasks, s), tasks' = [tasks EXCEPT ![s] = "Ready"]
        PROVE  Final
    BY <1>1, <2>3 DEF Inv, TypeOK, TaskTables, IsFirstFree, FreeSlots
  <2>4. ASSUME NEW S \in SUBSET Slots, tasks' = Killed(tasks, S)
        PROVE  Final
    BY <1>1, <2>4, KilledLemma DEF Inv, TypeOK
  <2>5. CASE KillGroup
    BY <2>4, <2>5 DEF KillGroup
  <2>6. CASE Exit \/ FaultKill
    BY <1>1, <2>4, <2>6 DEF Exit, FaultKill, Inv, TypeOK
  <2>7. CASE Fork \/ SpawnUnlock
    BY <2>2, <2>3, <2>7 DEF Fork, SpawnUnlock
  <2>8. CASE Tick \/ YieldNow
    BY <2>1, <2>2, <2>8 DEF Tick, YieldNow
  <2> QED
    BY <1>1, <2>2, <2>5, <2>6, <2>7, <2>8 DEF Next, SyscallEntry, SyscallReturn, Sysret,
         YieldReturn, PipeReadEntry, PipeRead, WaitReturn, PipeWrite, FaultEntry, FaultLock,
         SpawnLock, AllocLock, AllocUnlock, SyscallAlloc
<1>2. ASSUME Inv, [Next]_vars PROVE [Final]_vars
  BY <1>1, <1>2
<1> QED
  BY <1>2, Invariance, PTL DEF Spec, DeadIsFinal
=============================================================================
