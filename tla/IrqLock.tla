------------------------------- MODULE IrqLock ------------------------------
(***************************************************************************)
(* The spin lock that masks interrupts, sync.rs, which guards the file     *)
(* system and the list of PCI devices.  The grain is the instruction: on   *)
(* this single CPU another task runs only after a tick, and a tick comes   *)
(* only while the interrupt flag is set.  The flag belongs to the running  *)
(* task; a task that a tick took off the CPU had it set, and so it is set  *)
(* again when that task comes back.                                        *)
(***************************************************************************)
EXTENDS Integers

CONSTANT Tasks

VARIABLES
    current,   \* the task that has the CPU
    irq,       \* the interrupt flag of the CPU
    syscall,   \* the tasks inside a system call
    held,      \* SpinLock.held
    pc,        \* out; read, mask, cas: lock; in: the guard lives; restore: drop
    was,       \* irq_was_enabled of lock and of the guard
    before     \* history: the flag of the caller of lock

vars == <<current, irq, syscall, held, pc, was, before>>

Init ==
    /\ current \in Tasks /\ irq = TRUE /\ held = FALSE /\ syscall = {}
    /\ pc = [t \in Tasks |-> "out"]
    /\ was = [t \in Tasks |-> TRUE] /\ before = [t \in Tasks |-> TRUE]

At(t, from) == current = t /\ pc[t] = from
GoTo(t, to) == pc' = [pc EXCEPT ![t] = to]

(* A system call starts, or ends: SFMASK clears the flag, sysret sets it.  *)
syscall_entry(t) ==
    /\ At(t, "out") /\ irq /\ t \notin syscall
    /\ irq' = FALSE /\ syscall' = syscall \cup {t}
    /\ UNCHANGED <<current, held, pc, was, before>>

sysret(t) ==
    /\ At(t, "out") /\ t \in syscall
    /\ irq' = TRUE /\ syscall' = syscall \ {t}
    /\ UNCHANGED <<current, held, pc, was, before>>

(* A handler that yields comes back with interrupts on.                    *)
yield_now(t) ==
    /\ At(t, "out") /\ t \in syscall
    /\ irq' = TRUE /\ current' \in Tasks
    /\ UNCHANGED <<syscall, held, pc, was, before>>

(* A tick gives the CPU to another task, but not inside a system call.     *)
Switch(t) ==
    /\ irq /\ current \notin syscall /\ current # t /\ current' = t
    /\ UNCHANGED <<irq, syscall, held, pc, was, before>>

lock(t) ==
    /\ At(t, "out") /\ GoTo(t, "read")
    /\ before' = [before EXCEPT ![t] = irq]
    /\ UNCHANGED <<current, irq, syscall, held, was>>

interrupts_enabled_Late(t) ==
    /\ At(t, "read") /\ GoTo(t, "mask")
    /\ was' = [was EXCEPT ![t] = FALSE]
    /\ UNCHANGED <<current, irq, syscall, held, before>>

interrupts_enabled(t) ==
    /\ At(t, "read") /\ GoTo(t, "mask")
    /\ was' = [was EXCEPT ![t] = irq]
    /\ UNCHANGED <<current, irq, syscall, held, before>>

cli_Missing(t) ==
    /\ At(t, "mask") /\ GoTo(t, "cas")
    /\ UNCHANGED <<current, irq, syscall, held, was, before>>

cli(t) ==
    /\ At(t, "mask") /\ GoTo(t, "cas")
    /\ irq' = FALSE
    /\ UNCHANGED <<current, syscall, held, was, before>>

(* The lock is taken; or the flag is restored, the lock is watched until   *)
(* it looks free, and the loop starts again.                               *)
compare_exchange(t) ==
    /\ At(t, "cas") /\ held' = TRUE
    /\ IF held THEN GoTo(t, "read") /\ irq' = was[t] ELSE GoTo(t, "in") /\ UNCHANGED irq
    /\ UNCHANGED <<current, syscall, was, before>>

store_held_Missing(t) ==
    /\ At(t, "in") /\ GoTo(t, "restore")
    /\ UNCHANGED <<current, irq, syscall, held, was, before>>

(* The guard is dropped: first the lock, then the flag.                    *)
store_held(t) ==
    /\ At(t, "in") /\ GoTo(t, "restore")
    /\ held' = FALSE
    /\ UNCHANGED <<current, irq, syscall, was, before>>

restore_interrupts(t) ==
    /\ At(t, "restore") /\ GoTo(t, "out")
    /\ irq' = was[t]
    /\ UNCHANGED <<current, syscall, held, was, before>>

(* The steps of lock and drop once lock has been called, and the end of a  *)
(* system call: the task that has the CPU gets on with them.               *)
Step(t) ==
    \/ interrupts_enabled(t) \/ cli(t) \/ compare_exchange(t)
    \/ store_held(t) \/ restore_interrupts(t)

Next ==
    \E t \in Tasks :
        syscall_entry(t) \/ sysret(t) \/ yield_now(t) \/ Switch(t) \/ lock(t) \/ Step(t)

(* Every Ready task is dispatched again and again, if interrupts are on    *)
(* again and again (ReadyRunsOrDeadEnd of Scheduler), critical sections   *)
(* and system calls end, and a task that has the CPU executes.             *)
Fairness ==
    \A t \in Tasks : SF_vars(Switch(t)) /\ SF_vars(Step(t)) /\ SF_vars(sysret(t))

Spec == Init /\ [][Next]_vars /\ Fairness

-----------------------------------------------------------------------------
(* While a guard lives, its task has the CPU with interrupts off: no other *)
(* task, and no interrupt handler, sees the data in the middle of a change *)
(* (SpinLock::lock to the drop of SpinLockGuard).                          *)
GuardExcludesAll == \A t \in Tasks : pc[t] = "in" => current = t /\ held /\ ~irq

(* The lock is never found taken, wherever the ticks come: the inner loop  *)
(* of SpinLock::lock, which would wait for a task that does not run, is    *)
(* never entered on one CPU.                                               *)
NeverContended == \A t \in Tasks : At(t, "cas") => ~held

(* lock and drop together leave the interrupt flag as it was, also for a   *)
(* caller that had it off, as system calls have, and when a tick comes     *)
(* between the look at the flag and cli.                                   *)
FlagRestored ==
    [][\A t \in Tasks : pc[t] = "restore" /\ pc'[t] = "out" => irq' = before[t]]_vars

(* Every caller of lock gets its guard.                                    *)
LockObtained == \A t \in Tasks : pc[t] = "read" ~> pc[t] = "in"
=============================================================================
