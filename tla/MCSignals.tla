----------------------------- MODULE MCSignals ------------------------------
(* An instance of Signals for TLC: signal 1 is SIGKILL, 2 is SIGUSR1 and 3 *)
(* is SIGCHLD, in the order of their numbers.  To keep it small a          *)
(* behaviour either has one thread that installs every kind of action, or  *)
(* two threads that use one kind of handler.                               *)
EXTENDS Signals

Handler(onstack, mask) == [handler |-> TRUE, onstack |-> onstack, mask |-> mask]
AllActions == {Default, Handler(TRUE, {}), Handler(FALSE, Sigs)}
FewActions == {Handler(TRUE, {})}

VARIABLE alone       \* the process of this behaviour has one thread

One == INSTANCE Signals WITH Threads <- {1}
Two == INSTANCE Signals WITH Actions <- FewActions

MCInit == Init /\ alone \in BOOLEAN

MCNext == IF alone THEN One!Next /\ UNCHANGED alone ELSE Two!Next /\ UNCHANGED alone

(* Fairness of Signals, for the threads of the behaviour.                  *)
MCFairness ==
    \A t \in Threads :
        /\ WF_vars((alone => t = 1) /\ \E stack \in Stacks : other(t, stack))
        /\ WF_vars(rt_sigreturn(t))

MCSpec == MCInit /\ [][MCNext]_<<vars, alone>> /\ MCFairness
=============================================================================
