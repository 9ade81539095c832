--------------------------- MODULE SignalsProofs ----------------------------
(***************************************************************************)
(* The masks of a process's threads, for any number of threads, signals    *)
(* and installed actions.                                                  *)
(*                                                                         *)
(* The invariant is inductive once the records have their types: what a    *)
(* call made of the process and of its threads satisfies it (Good), and    *)
(* finish_syscall, the one end of all calls, keeps it (FinishKeeps).       *)
(***************************************************************************)
EXTENDS Signals, TLAPS

Process == [pending : SUBSET Sigs, handlers : [Sigs -> SigAction]]

(* What the proofs say of the process p, its threads ths, the masks o the  *)
(* threads set themselves and the threads f with failed deliveries.        *)
Good(p, ths, o, f) ==
    /\ p \in Process /\ ths \in [Threads -> ThreadRecord] /\ o \in [Threads -> SUBSET Sigs]
    /\ \A t \in Threads : o[t] = IF ths[t].in_signal_handler THEN ths[t].saved ELSE ths[t].mask
    /\ SIGKILL \notin p.pending
    /\ \A t \in Threads : SIGKILL \notin ths[t].mask \cup ths[t].saved \cup ths[t].pending
    /\ \A t \in Threads : ths[t].on_altstack => ths[t].in_signal_handler \/ t \in f

Inv == Good(pr, th, own, failed)

(* The delivery at the end of a system call keeps the masks in order: it   *)
(* enters a handler only from outside of one, and then the saved mask is   *)
(* the one the thread had set.                                             *)
LEMMA FinishKeeps ==
    ASSUME NEW t \in Threads, NEW p, NEW ths, NEW o, NEW stack,
           Good(p, ths, o, failed), finish_syscall(t, p, ths, stack)
    PROVE Good(pr', th', o, failed')
<1> USE SignalsAssumption
<1>1. CASE pr' = p /\ th' = ths /\ failed' = failed
  BY <1>1 DEF Good
<1>2. ASSUME NEW sig \in Deliverable(p, ths[t]),
             pr' = Take(p, ths[t], sig).p,
             th' = [ths EXCEPT ![t] =
                      CASE ~ p.handlers[sig].handler -> Take(p, ths[t], sig).h
                        [] p.handlers[sig].handler /\ stack = "ok" ->
                             Enter(Take(p, ths[t], sig).h, sig, p.handlers[sig])
                        [] OTHER -> Fail(Take(p, ths[t], sig).h, p.handlers[sig], stack)],
             failed' = IF p.handlers[sig].handler /\ stack # "ok" THEN failed \cup {t} ELSE failed
      PROVE Good(pr', th', o, failed')
  <2> DEFINE h == Take(p, ths[t], sig).h
             a == p.handlers[sig]
  <2>1. ths[t] \in ThreadRecord /\ p \in Process
    BY DEF Good
  <2>2. sig \in Sigs /\ ~ ths[t].in_signal_handler
    BY <2>1 DEF Deliverable, ThreadRecord, Process
  <2>3. a \in SigAction
    BY <2>1, <2>2 DEF Process
  <2>4. /\ h \in ThreadRecord /\ h.pending \subseteq ths[t].pending
        /\ h.mask = ths[t].mask /\ h.saved = ths[t].saved
        /\ h.in_signal_handler = ths[t].in_signal_handler
        /\ h.on_altstack = ths[t].on_altstack /\ h.altstack = ths[t].altstack
    BY <2>1 DEF Take, ThreadRecord
  <2>5. pr' \in Process /\ pr'.pending \subseteq p.pending
    BY <1>2, <2>1 DEF Take, Process
  <2>6. OnAlt(h, a) \in BOOLEAN
    BY <2>3, <2>4 DEF OnAlt, SigAction, ThreadRecord
  <2>7. CASE ~ a.handler
    <3>1. th' = [ths EXCEPT ![t] = h] /\ failed' = failed
      BY <1>2, <2>7
    <3>2. QED
      BY <2>1, <2>4, <2>5, <3>1 DEF Good
  <2>8. CASE a.handler /\ stack = "ok"
    <3>1. th' = [ths EXCEPT ![t] = Enter(h, sig, a)] /\ failed' = failed
      BY <1>2, <2>8
    <3>2. /\ Enter(h, sig, a) \in ThreadRecord
          /\ Enter(h, sig, a).saved = ths[t].mask /\ Enter(h, sig, a).in_signal_handler = TRUE
          /\ SIGKILL \notin Enter(h, sig, a).mask /\ Enter(h, sig, a).pending = h.pending
      BY <2>2, <2>3, <2>4, <2>6 DEF Enter, ThreadRecord, SigAction
    <3>3. o[t] = ths[t].mask /\ SIGKILL \notin ths[t].mask /\ SIGKILL \notin ths[t].pending
      BY <2>2 DEF Good
    <3>4. QED
      BY <2>1, <2>4, <2>5, <3>1, <3>2, <3>3 DEF Good
  <2>9. CASE a.handler /\ stack # "ok"
    <3>1. th' = [ths EXCEPT ![t] = Fail(h, a, stack)] /\ failed' = failed \cup {t}
      BY <1>2, <2>9
    <3>2. /\ Fail(h, a, stack) \in ThreadRecord
          /\ Fail(h, a, stack).saved = h.saved /\ Fail(h, a, stack).mask = h.mask
          /\ Fail(h, a, stack).in_signal_handler = h.in_signal_handler
          /\ Fail(h, a, stack).pending = h.pending
      BY <2>4, <2>6 DEF Fail, ThreadRecord
    <3>3. QED
      BY <2>1, <2>4, <2>5, <3>1, <3>2 DEF Good
  <2>10. QED
    BY <2>3, <2>7, <2>8, <2>9 DEF SigAction
<1>3. QED
  BY <1>1, <1>2 DEF finish_syscall

(* The invariant holds before any call.                                    *)
LEMMA InvInit == Init => Inv
  BY SignalsAssumption DEF Init, Inv, Good, Process, SigAction, Default, ThreadRecord

(* Every call, every signal from outside and every return from a handler   *)
(* keeps the invariant.                                                    *)
LEMMA InvStep == Inv /\ [Next]_vars => Inv'
<1> SUFFICES ASSUME Inv, [Next]_vars PROVE Inv'
  OBVIOUS
<1> USE SignalsAssumption
<1>0. Good(pr, th, own, failed)
  BY DEF Inv
<1>1. ASSUME NEW t \in Threads, NEW stack, other(t, stack) PROVE Inv'
  BY <1>0, <1>1, FinishKeeps DEF other, Inv
<1>2. ASSUME NEW t \in Threads, NEW stack, NEW sig \in Sigs, kill(t, sig, stack) PROVE Inv'
  <2>1. Good([pr EXCEPT !.pending = @ \cup {sig}], th, own, failed)
    BY <1>0, <1>2 DEF Good, Process, kill, CanSend
  <2>2. QED
    BY <1>2, <2>1, FinishKeeps DEF kill, Inv
<1>3. ASSUME NEW t \in Threads, NEW stack, NEW u \in Threads, NEW sig \in Sigs,
             tkill(t, u, sig, stack) PROVE Inv'
  <2>1. Good(pr, [th EXCEPT ![u].pending = @ \cup {sig}], own, failed)
    BY <1>0, <1>3 DEF Good, ThreadRecord, tkill, CanSend
  <2>2. QED
    BY <1>3, <2>1, FinishKeeps DEF tkill, Inv
<1>4. ASSUME NEW t \in Threads, NEW stack, NEW sig \in Sigs, NEW action \in Actions,
             rt_sigaction(t, sig, action, stack) PROVE Inv'
  <2>1. Good([pr EXCEPT !.handlers[sig] = action], th, own, failed)
    BY <1>0 DEF Good, Process
  <2>2. QED
    BY <1>4, <2>1, FinishKeeps DEF rt_sigaction, Inv
<1>5. ASSUME NEW t \in Threads, NEW stack, NEW how \in {"SIG_BLOCK", "SIG_UNBLOCK", "SIG_SETMASK"},
             NEW set \in SUBSET Sigs, rt_sigprocmask(t, how, set, stack) PROVE Inv'
  <2> DEFINE mask == NewMask(th[t].mask, how, set)
  <2>1. mask \subseteq Sigs /\ SIGKILL \notin mask
    BY <1>0 DEF Good, NewMask, ThreadRecord
  <2>2. Good(pr, [th EXCEPT ![t].mask = mask], own', failed)
    BY <1>0, <1>5, <2>1 DEF Good, ThreadRecord, rt_sigprocmask
  <2>3. QED
    BY <1>5, <2>2, FinishKeeps DEF rt_sigprocmask, Inv
<1>6. ASSUME NEW t \in Threads, NEW stack, NEW on \in BOOLEAN, sigaltstack(t, on, stack) PROVE Inv'
  <2>1. Good(pr, [th EXCEPT ![t].altstack = on], own, failed)
    BY <1>0 DEF Good, ThreadRecord
  <2>2. QED
    BY <1>6, <2>1, FinishKeeps DEF sigaltstack, Inv
<1>7. ASSUME NEW t \in Threads, rt_sigreturn(t) PROVE Inv'
  BY <1>0, <1>7 DEF Good, Inv, rt_sigreturn, ThreadRecord
<1>8. ASSUME NEW sig \in Sigs, queue_signal(sig) PROVE Inv'
  BY <1>0, <1>8 DEF Good, Inv, queue_signal, CanSend, Process
<1>9. CASE terminate
  BY <1>0, <1>9 DEF Good, Inv, terminate
<1>10. CASE UNCHANGED vars
  BY <1>0, <1>10 DEF Good, Inv, vars
<1>11. QED
  BY <1>1, <1>2, <1>3, <1>4, <1>5, <1>6, <1>7, <1>8, <1>9, <1>10 DEF Next

(* A handler always returns to the mask its thread had set, rt_sigreturn.  *)
THEOREM MaskAlwaysRestored == Spec => []MaskRestored
<1>1. Inv => MaskRestored
  BY DEF Inv, Good, MaskRestored
<1>2. QED
  BY InvInit, InvStep, <1>1, PTL DEF Spec

(* No sequence of calls blocks SIGKILL or leaves it pending.               *)
THEOREM KillIsNeverBlocked == Spec => []KillNeverBlocked
<1>1. Inv => KillNeverBlocked
  BY DEF Inv, Good, KillNeverBlocked
<1>2. QED
  BY InvInit, InvStep, <1>1, PTL DEF Spec

(* sigaltstack's report of a thread on its alternate stack is right,       *)
(* unless a delivery to the thread failed.                                 *)
THEOREM AltStackReportRight == Spec => []AltStackReport
<1>1. Inv => AltStackReport
  BY DEF Inv, Good, AltStackReport
<1>2. QED
  BY InvInit, InvStep, <1>1, PTL DEF Spec
=============================================================================
