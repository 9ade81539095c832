------------------------------- MODULE MCFutex ------------------------------
(* An instance of Futex for TLC.  To keep it small a behaviour either has  *)
(* three threads that wait on each other's words, with timeouts, a kill    *)
(* and an unmapped word, or two threads that also take and give robust     *)
(* mutexes.                                                                *)
EXTENDS Futex

CONSTANTS
    m1, m2,  \* robust mutexes
    Third    \* the thread that does nothing while mutexes are used

VARIABLE mutexes   \* the programs of this behaviour use robust mutexes

MCInit == Init /\ mutexes \in BOOLEAN

MCNext ==
    /\ Next
    /\ IF mutexes
         THEN /\ pc'[Third] = "run" /\ pending'[Third] = NoLock
              /\ UNCHANGED mapped
              /\ \A t \in Threads : pc'[t] # "killed" /\ left'[t] = Forever
         ELSE /\ UNCHANGED robust
              /\ Locks \subseteq mapped'
              /\ \A t \in Threads : at'[t] \notin Locks
    /\ UNCHANGED mutexes

MCSpec == MCInit /\ [][MCNext]_<<vars, mutexes>> /\ Fairness

(* Every wait that is to end does end: with its timeout, with the exit of  *)
(* the thread that is joined, and with a wake-up unless another waiter has *)
(* taken the entry (futex_wait, clear_child_tid_and_wake).                 *)
WaitsEnd == TimeoutReturns /\ JoinReturns /\ WokenReturns
=============================================================================
