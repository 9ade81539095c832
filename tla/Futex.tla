------------------------------- MODULE Futex --------------------------------
(***************************************************************************)
(* Futexes, syscall/process.rs: the table FUTEX_WAITERS, the loop of       *)
(* futex_wait around yield_now, futex_wake, and what a thread leaves when  *)
(* it exits (its robust list, its clear_child_tid word) or is killed.      *)
(*                                                                         *)
(* A system call runs without preemption, except at yield_now: look(t) is  *)
(* one turn of the loop of futex_wait.  The threads share one address      *)
(* space; the address of the clear_child_tid word of t is t itself, and    *)
(* Locks are the addresses of the robust mutexes.  A waiter does not know  *)
(* its entry but by the index of it, and another waiter may have taken     *)
(* that entry since: waiter_of and emptied are history variables that tell *)
(* whose entry it is.                                                      *)
(***************************************************************************)
EXTENDS Integers, Sequences, FiniteSets

CONSTANTS
    Threads,             \* thread ids
    Locks,               \* addresses of robust mutexes
    NSlots,              \* MAX_FUTEX_WAITERS
    ROBUST_LIST_LIMIT,
    MaxTicks,            \* bound: the longest timeout, in ticks
    MaxKills,            \* bound: threads killed
    MaxUnmaps            \* bound: addresses unmapped

ASSUME FutexAssumption ==
    /\ Threads \subseteq Nat \ {0} /\ NSlots \in Nat \ {0}
    /\ ROBUST_LIST_LIMIT \in Nat /\ MaxTicks \in Nat

Addrs == Threads \cup Locks
Slots == 0 .. NSlots - 1
Forever == -1
NoSlot == -1
NoLock == "none"

(* FUTEX_TID_MASK and FUTEX_OWNER_DIED of a word.                          *)
Word == [tid : Threads \cup {0}, died : BOOLEAN]
Zero == [tid |-> 0, died |-> FALSE]

VARIABLES
    word,        \* the futex words in user memory
    mapped,      \* the addresses that can be read
    in_use,      \* FUTEX_WAITERS[s].in_use
    addr,        \* FUTEX_WAITERS[s].addr
    pc,          \* run, wait: in futex_wait, exited, killed
    slot,        \* locals of futex_wait: slot,
    at,          \*   uaddr,
    expected,    \*   expected,
    left,        \*   ticks until the timeout, or Forever
    list,        \* the robust list of a thread, in its order
    pending,     \* list_op_pending
    waiter_of,   \* history: the thread that took the entry last
    emptied      \* history: waiting threads whose own entry was emptied

memory == <<word, mapped>>
table == <<in_use, addr, waiter_of, emptied>>
local == <<slot, at, expected, left>>
robust == <<list, pending>>
vars == <<memory, table, pc, local, robust>>

TypeOK ==
    /\ word \in [Addrs -> Word] /\ mapped \subseteq Addrs
    /\ in_use \in [Slots -> BOOLEAN] /\ addr \in [Slots -> Addrs \cup {0}]
    /\ pc \in [Threads -> {"run", "wait", "exited", "killed"}]
    /\ slot \in [Threads -> Slots \cup {NoSlot}]
    /\ at \in [Threads -> Addrs \cup {0}] /\ expected \in [Threads -> Word]
    /\ left \in [Threads -> -1 .. MaxTicks]
    /\ \A t \in Threads : \A i \in DOMAIN list[t] : list[t][i] \in Locks
    /\ pending \in [Threads -> Locks \cup {NoLock}]
    /\ waiter_of \in [Slots -> Threads \cup {0}] /\ emptied \subseteq Threads

Init ==
    /\ word = [a \in Addrs |-> IF a \in Threads THEN [Zero EXCEPT !.tid = a] ELSE Zero]
    /\ mapped = Addrs
    /\ in_use = [s \in Slots |-> FALSE] /\ addr = [s \in Slots |-> 0]
    /\ pc = [t \in Threads |-> "run"]
    /\ slot = [t \in Threads |-> NoSlot] /\ at = [t \in Threads |-> 0]
    /\ expected = [t \in Threads |-> Zero] /\ left = [t \in Threads |-> Forever]
    /\ list = [t \in Threads |-> << >>] /\ pending = [t \in Threads |-> NoLock]
    /\ waiter_of = [s \in Slots |-> 0] /\ emptied = {}

-----------------------------------------------------------------------------
(* The table.                                                              *)

IsFree_Past(s) == \A r \in Slots : r < s => in_use[r]

IsFree(s) == ~ in_use[s] /\ \A r \in Slots : r < s => in_use[r]

(* The entries that futex_wake empties: at most count, all if count is 0.  *)
Matching(a) == {s \in Slots : in_use[s] /\ addr[s] = a}
Woken(a, count) ==
    {s \in Matching(a) : count = 0 \/ Cardinality({r \in Matching(a) : r < s}) < count}

(* Entries S are emptied, and the threads that lose their own by it.       *)
Empty(S) ==
    /\ in_use' = [s \in Slots |-> in_use[s] /\ s \notin S]
    /\ UNCHANGED waiter_of
Losing(S) == {t \in Threads : pc[t] = "wait" /\ slot[t] \in S /\ waiter_of[slot[t]] = t}

Leave(t, to) ==
    /\ pc' = [pc EXCEPT ![t] = to]
    /\ slot' = [slot EXCEPT ![t] = NoSlot] /\ at' = [at EXCEPT ![t] = 0]
    /\ expected' = [expected EXCEPT ![t] = Zero] /\ left' = [left EXCEPT ![t] = Forever]

-----------------------------------------------------------------------------
(* System calls.                                                           *)

(* futex_wait up to its first yield_now.  A word that is not the expected  *)
(* one (Again), a full table (NoMem), a negative timeout (Invalid) and a   *)
(* timeout of 0 (TimedOut, its entry emptied again) change nothing.        *)
futex_wait_Full(t, a, limit) ==
    /\ pc[t] = "run" /\ a \in mapped
    /\ \E s \in 0 .. NSlots :
        /\ s \in Slots => ~ in_use[s]
        /\ \A r \in Slots : r < s => in_use[r]
        /\ in_use' = [r \in Slots |-> r = s \/ in_use[r]]
        /\ slot' = [slot EXCEPT ![t] = s]
    /\ pc' = [pc EXCEPT ![t] = "wait"]
    /\ at' = [at EXCEPT ![t] = a]
    /\ expected' = [expected EXCEPT ![t] = word[a]]
    /\ left' = [left EXCEPT ![t] = limit]
    /\ UNCHANGED <<memory, addr, waiter_of, emptied, robust>>

futex_wait(t, a, limit) ==
    /\ pc[t] = "run" /\ a \in mapped
    /\ \E s \in Slots :
        /\ IsFree(s)
        /\ in_use' = [in_use EXCEPT ![s] = TRUE]
        /\ addr' = [addr EXCEPT ![s] = a]
        /\ waiter_of' = [waiter_of EXCEPT ![s] = t]
        /\ slot' = [slot EXCEPT ![t] = s]
    /\ pc' = [pc EXCEPT ![t] = "wait"]
    /\ at' = [at EXCEPT ![t] = a]
    /\ expected' = [expected EXCEPT ![t] = word[a]]
    /\ left' = [left EXCEPT ![t] = limit]
    /\ UNCHANGED <<memory, emptied, robust>>

(* One turn of the loop of futex_wait: the entry is looked at before the   *)
(* word, the word before the clock.  A word or a timeout that ends the     *)
(* wait empties the entry at this index, whoever has it now; a word that   *)
(* cannot be read any more leaves the entry in use.                        *)
look_KeepEntry(t) ==
    /\ pc[t] = "wait"
    /\ ~ in_use[slot[t]] \/ at[t] \notin mapped \/ word[at[t]] # expected[t] \/ left[t] = 0
    /\ emptied' = emptied \ {t}
    /\ Leave(t, "run")
    /\ UNCHANGED <<memory, in_use, addr, waiter_of, robust>>

look_Deaf(t) ==
    /\ pc[t] = "wait"
    /\ \/ /\ ~ in_use[slot[t]] \/ at[t] \notin mapped
          /\ emptied' = emptied \ {t}
          /\ UNCHANGED <<in_use, addr>>
       \/ /\ in_use[slot[t]] /\ at[t] \in mapped
          /\ word[at[t]] # expected[t]
          /\ in_use' = [in_use EXCEPT ![slot[t]] = FALSE]
          /\ addr' = [addr EXCEPT ![slot[t]] = 0]
          /\ emptied' = (emptied \cup Losing({slot[t]})) \ {t}
    /\ Leave(t, "run")
    /\ UNCHANGED <<memory, waiter_of, robust>>

look_WordOnly(t) ==
    /\ pc[t] = "wait"
    /\ word[at[t]] # expected[t] \/ left[t] = 0
    /\ in_use' = [in_use EXCEPT ![slot[t]] = FALSE]
    /\ addr' = [addr EXCEPT ![slot[t]] = 0]
    /\ emptied' = (emptied \cup Losing({slot[t]})) \ {t}
    /\ Leave(t, "run")
    /\ UNCHANGED <<memory, waiter_of, robust>>

look(t) ==
    /\ pc[t] = "wait"
    /\ \/ /\ ~ in_use[slot[t]] \/ at[t] \notin mapped
          /\ emptied' = emptied \ {t}
          /\ UNCHANGED <<in_use, addr>>
       \/ /\ in_use[slot[t]] /\ at[t] \in mapped
          /\ word[at[t]] # expected[t] \/ left[t] = 0
          /\ in_use' = [in_use EXCEPT ![slot[t]] = FALSE]
          /\ addr' = [addr EXCEPT ![slot[t]] = 0]
          /\ emptied' = (emptied \cup Losing({slot[t]})) \ {t}
    /\ Leave(t, "run")
    /\ UNCHANGED <<memory, waiter_of, robust>>

futex_wake(t, a, count) ==
    /\ pc[t] = "run"
    /\ Woken(a, count) # {}
    /\ Empty(Woken(a, count))
    /\ emptied' = emptied \cup Losing(Woken(a, count))
    /\ UNCHANGED <<memory, addr, pc, local, robust>>

(* release_robust_list and wake_robust_futex: the words of the list, up to *)
(* ROBUST_LIST_LIMIT of them, and of list_op_pending, that hold the tid.   *)
Listed_NoPending(t) == {list[t][i] : i \in {j \in DOMAIN list[t] : j <= ROBUST_LIST_LIMIT}}

Listed(t) == {list[t][i] : i \in {j \in DOMAIN list[t] : j <= ROBUST_LIST_LIMIT}} \cup {pending[t]}
Owned(t) == {l \in Locks \cap mapped : l \in Listed(t) /\ word[l].tid = t}

(* clear_child_tid_and_wake, then the end of the thread.                   *)
exit_WakeOnly(t) ==
    /\ pc[t] = "run"
    /\ LET S == UNION {Woken(l, 1) : l \in Owned(t)} \cup Woken(t, 1)
       IN Empty(S) /\ emptied' = emptied \cup Losing(S)
    /\ word' = [a \in Addrs |->
                  CASE a \in Owned(t) -> [tid |-> 0, died |-> TRUE]
                    [] OTHER -> word[a]]
    /\ Leave(t, "exited")
    /\ UNCHANGED <<mapped, addr, robust>>

exit(t) ==
    /\ pc[t] = "run"
    /\ LET S == UNION {Woken(l, 1) : l \in Owned(t)} \cup Woken(t, 1)
       IN Empty(S) /\ emptied' = emptied \cup Losing(S)
    /\ word' = [a \in Addrs |->
                  CASE a \in Owned(t) -> [tid |-> 0, died |-> TRUE]
                    [] a = t /\ t \in mapped -> Zero
                    [] OTHER -> word[a]]
    /\ Leave(t, "exited")
    /\ UNCHANGED <<mapped, addr, robust>>

(* A default signal action or the exit_group of another thread ends a task *)
(* where it is, in futex_wait too: neither its entry nor its words change. *)
kill(t) ==
    /\ pc[t] \in {"run", "wait"}
    /\ Cardinality({u \in Threads : pc[u] = "killed"}) < MaxKills
    /\ Leave(t, "killed")
    /\ emptied' = emptied \ {t}
    /\ UNCHANGED <<memory, in_use, addr, waiter_of, robust>>

(* One interrupt of the timer, as futex_wait sees it.                      *)
tick ==
    /\ left' = [t \in Threads |-> IF left[t] > 0 THEN left[t] - 1 ELSE left[t]]
    /\ UNCHANGED <<memory, table, pc, slot, at, expected, robust>>

-----------------------------------------------------------------------------
(* User code: a robust mutex, step by step, as user programs keep the list *)
(* (external), and munmap of the page of a word.                           *)

SetPending(t, l) ==
    /\ pc[t] = "run" /\ pending[t] = NoLock
    /\ pending' = [pending EXCEPT ![t] = l]
    /\ UNCHANGED <<memory, table, pc, local, list>>

Take(t, l) ==
    /\ pc[t] = "run" /\ pending[t] = l /\ l \in mapped
    /\ word[l].tid = 0 /\ \A i \in DOMAIN list[t] : list[t][i] # l
    /\ word' = [word EXCEPT ![l] = [tid |-> t, died |-> FALSE]]
    /\ UNCHANGED <<mapped, table, pc, local, robust>>

Enlist(t, l) ==
    /\ pc[t] = "run" /\ pending[t] = l /\ word[l].tid = t
    /\ \A i \in DOMAIN list[t] : list[t][i] # l
    /\ list' = [list EXCEPT ![t] = <<l>> \o list[t]]
    /\ pending' = [pending EXCEPT ![t] = NoLock]
    /\ UNCHANGED <<memory, table, pc, local>>

Delist(t, l) ==
    /\ pc[t] = "run" /\ pending[t] = l /\ word[l].tid = t
    /\ \E i \in DOMAIN list[t] : list[t][i] = l
    /\ list' = [list EXCEPT ![t] = SelectSeq(list[t], LAMBDA k : k # l)]
    /\ UNCHANGED <<memory, table, pc, local, pending>>

Give(t, l) ==
    /\ pc[t] = "run" /\ pending[t] = l /\ l \in mapped
    /\ \A i \in DOMAIN list[t] : list[t][i] # l
    /\ word' = IF word[l].tid = t THEN [word EXCEPT ![l] = Zero] ELSE word
    /\ pending' = [pending EXCEPT ![t] = NoLock]
    /\ UNCHANGED <<mapped, table, pc, local, list>>

unmap(a) ==
    /\ Cardinality(Addrs \ mapped) < MaxUnmaps
    /\ a \in mapped /\ \E t \in Threads : pc[t] = "run"
    /\ mapped' = mapped \ {a}
    /\ UNCHANGED <<word, table, pc, local, robust>>

Next ==
    \/ \E t \in Threads, a \in Addrs :
        \/ \E limit \in {Forever} \cup 1 .. MaxTicks : futex_wait(t, a, limit)
        \/ \E count \in 0 .. 2 : futex_wake(t, a, count)
    \/ \E t \in Threads : look(t) \/ exit(t) \/ kill(t)
    \/ \E t \in Threads, l \in Locks :
        SetPending(t, l) \/ Take(t, l) \/ Enlist(t, l) \/ Delist(t, l) \/ Give(t, l)
    \/ \E a \in Addrs : unmap(a)
    \/ tick

(* The scheduler comes back to every ready task, and the timer runs.       *)
Fairness == WF_vars(tick) /\ \A t \in Threads : WF_vars(look(t))

Spec == Init /\ [][Next]_vars /\ Fairness

-----------------------------------------------------------------------------
(* Properties.                                                             *)

Waiting(t) == pc[t] = "wait"

(* A thread in futex_wait whose entry nobody emptied still has it: the     *)
(* entry at its index is in use, is its own and holds its address, so the  *)
(* next futex_wake of that address counts it.  Reuse of entries, stale     *)
(* indices and the entries of killed threads do not take it away.          *)
HasEntry ==
    \A t \in Threads : Waiting(t) /\ t \notin emptied =>
        in_use[slot[t]] /\ waiter_of[slot[t]] = t /\ addr[slot[t]] = at[t]

(* An entry in use belongs to a waiting thread, unless that thread was     *)
(* killed or its word was unmapped: nothing else fills FUTEX_WAITERS.      *)
EntryHasWaiter ==
    \A s \in Slots : in_use[s] =>
        LET t == waiter_of[s]
        IN \/ Waiting(t) /\ slot[t] = s
           \/ \E u \in Threads : pc[u] = "killed"
           \/ mapped # Addrs

(* A thread that ends with exit holds no robust mutex, wherever it was in  *)
(* taking or giving it: list_op_pending covers the steps where the list    *)
(* and the word disagree.                                                  *)
RobustReleased ==
    \A t \in Threads, l \in Locks \cap mapped : pc[t] = "exited" => word[l].tid # t

(* Joining: a thread that waits on the clear_child_tid word of another     *)
(* stops waiting once that one has exited, even when the single wake-up    *)
(* of clear_child_tid_and_wake went to somebody else or was lost to a      *)
(* waiter that took its entry, because the loop reads the word again.      *)
JoinReturns ==
    \A t, u \in Threads :
        Waiting(t) /\ at[t] = u /\ expected[t].tid = u /\ pc[u] = "exited" ~> ~ Waiting(t)

(* A wait with a timeout ends, whoever uses its entry in the meantime.     *)
TimeoutReturns ==
    \A t \in Threads : Waiting(t) /\ left[t] # Forever ~> ~ Waiting(t)

(* A thread whose entry was emptied returns, or another waiter has taken   *)
(* that entry before it looked: reuse is the only way to miss a wake-up.   *)
WokenReturns ==
    \A t \in Threads :
        Waiting(t) /\ t \in emptied ~> ~ Waiting(t) \/ waiter_of[slot[t]] # t
=============================================================================
