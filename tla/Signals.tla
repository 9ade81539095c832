------------------------------ MODULE Signals -------------------------------
(***************************************************************************)
(* Signals of one process and its threads, syscall/process.rs and          *)
(* syscall/sys.rs (sigaltstack).  proc/signal.rs is not part of the build. *)
(*                                                                         *)
(* A signal is delivered only where finish_syscall calls                   *)
(* deliver_pending_signal, at the end of every system call but             *)
(* rt_sigreturn, so each action is one call followed by one delivery.      *)
(* Signals are numbers in the order of delivery, and sets of signals are   *)
(* sets.  A thread has one flag and one saved mask for its handler, and    *)
(* the process one action per signal.  What ends a process is in module    *)
(* Proc; here alive becomes FALSE, and no thread of it calls any more.     *)
(***************************************************************************)
EXTENDS Integers, FiniteSets

CONSTANTS
    Threads,
    Sigs, SIGKILL, SIGCHLD,
    Actions,      \* what rt_sigaction may install (SIG_DFL: Default)
    MaxSends      \* bound: signals sent

SigAction == [handler : BOOLEAN, onstack : BOOLEAN, mask : SUBSET Sigs]

ASSUME SignalsAssumption ==
    /\ Sigs \subseteq Nat \ {0} /\ {SIGKILL, SIGCHLD} \subseteq Sigs
    /\ SIGKILL # SIGCHLD /\ MaxSends \in Nat
    /\ Actions \subseteq SigAction

Default == [handler |-> FALSE, onstack |-> FALSE, mask |-> {}]

VARIABLES
    pr,       \* the process: sig_pending, sig_handlers
    th,       \* its threads: sig_pending, sig_mask, saved_sig_mask, flags
    alive,    \* the process is not a zombie
    own,      \* history: the mask a thread set outside of a handler
    sent,     \* history: how often a signal was sent
    took,     \* history: how often a signal was taken from a pending set
    failed    \* history: threads that a delivery failed for

vars == <<pr, th, alive, own, sent, took, failed>>

ThreadRecord ==
    [pending : SUBSET Sigs, mask : SUBSET Sigs, saved : SUBSET Sigs,
     in_signal_handler : BOOLEAN, on_altstack : BOOLEAN, altstack : BOOLEAN]

TypeOK ==
    /\ pr \in [pending : SUBSET Sigs, handlers : [Sigs -> SigAction]]
    /\ th \in [Threads -> ThreadRecord]
    /\ alive \in BOOLEAN
    /\ own \in [Threads -> SUBSET Sigs]
    /\ sent \in [Sigs -> 0 .. MaxSends] /\ took \in [Sigs -> 0 .. MaxSends]
    /\ failed \subseteq Threads

Init ==
    /\ pr = [pending |-> {}, handlers |-> [s \in Sigs |-> Default]]
    /\ th = [t \in Threads |->
               [pending |-> {}, mask |-> {}, saved |-> {}, in_signal_handler |-> FALSE,
                on_altstack |-> FALSE, altstack |-> FALSE]]
    /\ alive = TRUE
    /\ own = [t \in Threads |-> {}]
    /\ sent = [s \in Sigs |-> 0] /\ took = [s \in Sigs |-> 0] /\ failed = {}

-----------------------------------------------------------------------------
(* deliver_pending_signal for a thread whose record is h, in process p.    *)

Deliverable_Nested(p, h) == (h.pending \cup p.pending) \ h.mask

Deliverable(p, h) ==
    IF h.in_signal_handler THEN {} ELSE (h.pending \cup p.pending) \ h.mask

IsLowest(sig, S) == sig \in S /\ \A r \in S : sig <= r

(* A signal pending at the thread goes before the same one at the process. *)
Take_Keep(p, h, sig) ==
    IF sig \in h.pending
    THEN [p |-> p, h |-> [h EXCEPT !.pending = @ \ {sig}]]
    ELSE [p |-> p, h |-> h]

Take(p, h, sig) ==
    IF sig \in h.pending
    THEN [p |-> p, h |-> [h EXCEPT !.pending = @ \ {sig}]]
    ELSE [p |-> [p EXCEPT !.pending = @ \ {sig}], h |-> h]

OnAlt(h, action) == action.onstack /\ h.altstack

(* The handler starts: the mask grows, the old one is saved.               *)
Enter(h, sig, action) ==
    [h EXCEPT !.on_altstack = OnAlt(h, action),
              !.saved = h.mask,
              !.mask = (h.mask \cup {sig} \cup action.mask) \ {SIGKILL},
              !.in_signal_handler = TRUE]

(* The frame cannot be written.  "range": the end of the alternate stack   *)
(* overflows, before the flag is touched; "fault": after.  The signal is   *)
(* gone in both cases, and finish_syscall drops the error.                 *)
Fail(h, action, stack) ==
    IF stack = "range" /\ OnAlt(h, action)
    THEN h
    ELSE [h EXCEPT !.on_altstack = OnAlt(h, action)]

(* The end of a call of t that has made p of the process and ths of its    *)
(* threads.                                                                *)
finish_syscall(t, p, ths, stack) ==
    \/ /\ Deliverable(p, ths[t]) = {}
       /\ pr' = p /\ th' = ths /\ UNCHANGED <<alive, took, failed>>
    \/ \E sig \in Deliverable(p, ths[t]) :
        LET r == Take(p, ths[t], sig)
            action == p.handlers[sig]
        IN /\ IsLowest(sig, Deliverable(p, ths[t]))
           /\ pr' = r.p
           /\ th' = [ths EXCEPT ![t] =
                       CASE ~ action.handler -> r.h
                         [] action.handler /\ stack = "ok" -> Enter(r.h, sig, action)
                         [] OTHER -> Fail(r.h, action, stack)]
           /\ alive' = (action.handler \/ sig = SIGCHLD)
           /\ took' = [took EXCEPT ![sig] = @ + 1]
           /\ failed' = IF action.handler /\ stack # "ok" THEN failed \cup {t} ELSE failed

-----------------------------------------------------------------------------
(* System calls of thread t.  Calls that fail early, and all that are not  *)
(* about signals, are `other`.                                             *)

other(t, stack) ==
    /\ alive
    /\ finish_syscall(t, pr, th, stack)
    /\ UNCHANGED <<own, sent>>

CanSend(sig) ==
    /\ sig # SIGKILL
    /\ sent[sig] < MaxSends
    /\ sent' = [sent EXCEPT ![sig] = @ + 1]

(* kill of the own process; SIGKILL is terminate below.                    *)
kill(t, sig, stack) ==
    /\ alive /\ CanSend(sig)
    /\ finish_syscall(t, [pr EXCEPT !.pending = @ \cup {sig}], th, stack)
    /\ UNCHANGED own

(* tkill and tgkill to thread u of the process: another thread, or t.      *)
tkill(t, u, sig, stack) ==
    /\ alive /\ CanSend(sig)
    /\ finish_syscall(t, pr, [th EXCEPT ![u].pending = @ \cup {sig}], stack)
    /\ UNCHANGED own

(* kill by a thread of another process, and notify_parent_exit of a child. *)
queue_signal(sig) ==
    /\ alive /\ CanSend(sig)
    /\ pr' = [pr EXCEPT !.pending = @ \cup {sig}]
    /\ UNCHANGED <<th, alive, own, took, failed>>

(* SIGKILL is never queued: kill and tkill end the group at once.          *)
terminate ==
    /\ alive
    /\ alive' = FALSE
    /\ UNCHANGED <<pr, th, own, sent, took, failed>>

(* Any signal may get an action, SIGKILL included (it is never looked at). *)
rt_sigaction(t, sig, action, stack) ==
    /\ alive
    /\ finish_syscall(t, [pr EXCEPT !.handlers[sig] = action], th, stack)
    /\ UNCHANGED <<own, sent>>

NewMask(mask, how, set) ==
    LET new == set \ {SIGKILL}
    IN (CASE how = "SIG_BLOCK" -> mask \cup new
          [] how = "SIG_UNBLOCK" -> mask \ new
          [] how = "SIG_SETMASK" -> new) \ {SIGKILL}

rt_sigprocmask(t, how, set, stack) ==
    /\ alive
    /\ LET mask == NewMask(th[t].mask, how, set)
       IN /\ finish_syscall(t, pr, [th EXCEPT ![t].mask = mask], stack)
          /\ own' = IF th[t].in_signal_handler THEN own ELSE [own EXCEPT ![t] = mask]
    /\ UNCHANGED sent

sigaltstack(t, on, stack) ==
    /\ alive
    /\ finish_syscall(t, pr, [th EXCEPT ![t].altstack = on], stack)
    /\ UNCHANGED <<own, sent>>

(* rt_sigreturn, called by the restorer of a handler; nothing is delivered *)
(* until the next call.                                                    *)
rt_sigreturn_StillIn(t) ==
    /\ alive /\ th[t].in_signal_handler
    /\ th' = [th EXCEPT ![t].mask = th[t].saved, ![t].on_altstack = FALSE]
    /\ UNCHANGED <<pr, alive, own, sent, took, failed>>

rt_sigreturn_KeepFlag(t) ==
    /\ alive /\ th[t].in_signal_handler
    /\ th' = [th EXCEPT ![t].mask = th[t].saved,
                        ![t].in_signal_handler = FALSE]
    /\ UNCHANGED <<pr, alive, own, sent, took, failed>>

rt_sigreturn(t) ==
    /\ alive /\ th[t].in_signal_handler
    /\ th' = [th EXCEPT ![t].mask = th[t].saved,
                        ![t].in_signal_handler = FALSE,
                        ![t].on_altstack = FALSE]
    /\ UNCHANGED <<pr, alive, own, sent, took, failed>>

Stacks == {"ok", "range", "fault"}

Next ==
    \/ \E t \in Threads, stack \in Stacks :
        \/ other(t, stack)
        \/ \E sig \in Sigs :
            \/ kill(t, sig, stack)
            \/ \E u \in Threads : tkill(t, u, sig, stack)
            \/ \E action \in Actions : rt_sigaction(t, sig, action, stack)
        \/ \E how \in {"SIG_BLOCK", "SIG_UNBLOCK", "SIG_SETMASK"}, set \in SUBSET Sigs :
            rt_sigprocmask(t, how, set, stack)
        \/ \E on \in BOOLEAN : sigaltstack(t, on, stack)
    \/ \E t \in Threads : rt_sigreturn(t)
    \/ \E sig \in Sigs : queue_signal(sig)
    \/ terminate

(* A thread goes on making system calls, and its handlers return.          *)
Fairness ==
    \A t \in Threads :
        /\ WF_vars(\E stack \in Stacks : other(t, stack))
        /\ WF_vars(rt_sigreturn(t))

Spec == Init /\ [][Next]_vars /\ Fairness

-----------------------------------------------------------------------------
(* Properties.                                                             *)

(* Outside of a handler the mask of a thread is the one it set itself, and *)
(* inside the saved one is: one saved mask per thread is enough, because   *)
(* no handler interrupts another, whatever is sent, masked or fails.       *)
MaskRestored ==
    \A t \in Threads :
        own[t] = IF th[t].in_signal_handler THEN th[t].saved ELSE th[t].mask

(* SIGKILL is blocked by no mask, by no action's mask and by no saved one, *)
(* and it is never left pending.                                           *)
KillNeverBlocked ==
    /\ SIGKILL \notin pr.pending
    /\ \A t \in Threads : SIGKILL \notin th[t].mask \cup th[t].saved \cup th[t].pending

(* A signal is taken at most as often as it was sent: a signal of the      *)
(* process that two threads see is taken by one of them.                   *)
TakenOnce == \A s \in Sigs : took[s] <= sent[s]

(* sigaltstack reports that a thread is on its alternate stack only while  *)
(* a handler runs, or after a delivery to it failed on that stack.         *)
AltStackReport ==
    \A t \in Threads : th[t].on_altstack => th[t].in_signal_handler \/ t \in failed

(* A signal sent to a thread does not stay pending and unblocked for ever, *)
(* though only the ends of its own system calls look for it.               *)
PendingTaken ==
    \A t \in Threads, s \in Sigs :
        []<>(~ alive \/ s \notin th[t].pending \/ s \in th[t].mask)
=============================================================================
