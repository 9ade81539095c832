---------------------------- MODULE FutexProofs -----------------------------
(***************************************************************************)
(* HasEntry and EntryHasWaiter of Futex for any number of threads, locks   *)
(* and entries of FUTEX_WAITERS.  Both are inductive given what is known   *)
(* of a waiting thread: its index is an entry and its address a word.      *)
(***************************************************************************)
EXTENDS Futex, TLAPS

(* What the proofs need of the types.                                      *)
Shape ==
    /\ mapped \subseteq Addrs /\ emptied \subseteq Threads
    /\ in_use \in [Slots -> BOOLEAN] /\ addr \in [Slots -> Addrs \cup {0}]
    /\ waiter_of \in [Slots -> Threads \cup {0}]
    /\ pc \in [Threads -> {"run", "wait", "exited", "killed"}]
    /\ slot \in [Threads -> Slots \cup {NoSlot}]
    /\ at \in [Threads -> Addrs \cup {0}]
    /\ \A t \in Threads : Waiting(t) => slot[t] \in Slots /\ at[t] \in Addrs
    /\ \A s \in Slots : in_use[s] => waiter_of[s] \in Threads

Inv == Shape /\ HasEntry /\ EntryHasWaiter

(* The actions that leave the table and the waiting threads as they are.   *)
Elsewhere == UNCHANGED <<mapped, table, pc, slot, at>>

(* In the first state no entry is in use and no thread waits.              *)
LEMMA InitInv == Init => Inv
  <1> SUFFICES ASSUME Init PROVE Inv
      OBVIOUS
  <1>1. Shape
      BY DEF Init, Shape, Waiting, Addrs, NoSlot
  <1>2. HasEntry /\ EntryHasWaiter
      BY DEF Init, HasEntry, EntryHasWaiter, Waiting
  <1> QED
      BY <1>1, <1>2 DEF Inv

(* Whatever leaves the table, the waiting threads and the mapped addresses *)
(* alone keeps the invariant.                                              *)
LEMMA ElsewhereInv == Inv /\ Elsewhere => Inv'
  BY DEF Inv, Elsewhere, table, Shape, HasEntry, EntryHasWaiter, Waiting

(* A thread that begins to wait takes an entry that is not in use, so no   *)
(* other thread loses one.                                                 *)
LEMMA WaitInv ==
    ASSUME NEW t \in Threads, NEW a \in Addrs, NEW limit, Inv, futex_wait(t, a, limit)
    PROVE  Inv'
  <1> USE DEF Inv
  <1>1. PICK s \in Slots :
            /\ ~ in_use[s]
            /\ in_use' = [in_use EXCEPT ![s] = TRUE]
            /\ addr' = [addr EXCEPT ![s] = a]
            /\ waiter_of' = [waiter_of EXCEPT ![s] = t]
            /\ slot' = [slot EXCEPT ![t] = s]
      BY DEF futex_wait, IsFree
  <1>2. /\ pc[t] = "run" /\ pc' = [pc EXCEPT ![t] = "wait"]
        /\ at' = [at EXCEPT ![t] = a]
        /\ UNCHANGED <<mapped, emptied>>
      BY DEF futex_wait, memory
  <1>3. Shape'
      BY <1>1, <1>2 DEF Shape, Waiting
  <1>4. HasEntry'
    <2> SUFFICES ASSUME NEW u \in Threads, Waiting(u)', u \notin emptied'
                 PROVE  /\ in_use'[slot'[u]] /\ waiter_of'[slot'[u]] = u
                        /\ addr'[slot'[u]] = at'[u]
        BY DEF HasEntry
    <2>1. CASE u = t
        BY <2>1, <1>1, <1>2 DEF Shape
    <2>2. CASE u # t
      <3>1. Waiting(u) /\ u \notin emptied /\ slot'[u] = slot[u] /\ at'[u] = at[u]
          BY <2>2, <1>1, <1>2 DEF Shape, Waiting
      <3>2. slot[u] \in Slots /\ slot[u] # s
          BY <3>1, <1>1 DEF HasEntry, Shape
      <3> QED
          BY <3>1, <3>2, <1>1 DEF HasEntry, Shape
    <2> QED
        BY <2>1, <2>2
  <1>5. EntryHasWaiter'
      BY <1>1, <1>2 DEF EntryHasWaiter, Shape, Waiting
  <1> QED
      BY <1>3, <1>4, <1>5

(* Entries are emptied: the threads that lose their own by it are counted  *)
(* in emptied, and no other entry changes.  A running thread may end.      *)
LEMMA EmptyInv ==
    ASSUME NEW t \in Threads, NEW S, Inv, Empty(S), emptied' = emptied \cup Losing(S),
           pc[t] = "run", mapped' = mapped, addr' = addr,
           \/ UNCHANGED <<pc, slot, at>>
           \/ Leave(t, "exited")
    PROVE  Inv'
  <1> USE DEF Inv
  <1>1. /\ in_use' = [s \in Slots |-> in_use[s] /\ s \notin S]
        /\ waiter_of' = waiter_of
      BY DEF Empty
  <1>2. /\ pc' \in [Threads -> {"run", "wait", "exited", "killed"}]
        /\ slot' \in [Threads -> Slots \cup {NoSlot}] /\ at' \in [Threads -> Addrs \cup {0}]
      BY DEF Shape, Leave
  <1>3. \A u \in Threads : /\ Waiting(u)' <=> Waiting(u)
                           /\ Waiting(u) => slot'[u] = slot[u] /\ at'[u] = at[u]
                           /\ pc[u] = "killed" => pc'[u] = "killed"
      BY DEF Shape, Leave, Waiting
  <1>4. Shape'
      BY <1>1, <1>2, <1>3 DEF Shape, Losing
  <1>5. HasEntry'
    <2> SUFFICES ASSUME NEW u \in Threads, Waiting(u)', u \notin emptied'
                 PROVE  /\ in_use'[slot'[u]] /\ waiter_of'[slot'[u]] = u
                        /\ addr'[slot'[u]] = at'[u]
        BY DEF HasEntry
    <2>1. Waiting(u) /\ slot'[u] = slot[u] /\ at'[u] = at[u] /\ slot[u] \in Slots
        BY <1>3 DEF Shape
    <2>2. u \notin emptied /\ u \notin Losing(S)
        OBVIOUS
    <2>3. in_use[slot[u]] /\ waiter_of[slot[u]] = u /\ addr[slot[u]] = at[u]
        BY <2>1, <2>2 DEF HasEntry
    <2>4. slot[u] \notin S
        BY <2>1, <2>2, <2>3 DEF Losing, Waiting
    <2> QED
        BY <2>1, <2>3, <2>4, <1>1
  <1>6. EntryHasWaiter'
    <2> SUFFICES ASSUME NEW s \in Slots, in_use'[s], mapped' = Addrs,
                        ~ \E u \in Threads : pc'[u] = "killed"
                 PROVE  pc'[waiter_of'[s]] = "wait" /\ slot'[waiter_of'[s]] = s
        BY DEF EntryHasWaiter, Waiting
    <2>1. in_use[s] /\ waiter_of'[s] = waiter_of[s] /\ waiter_of[s] \in Threads
        BY <1>1 DEF Shape
    <2>2. ~ \E u \in Threads : pc[u] = "killed"
        BY <1>3
    <2>3. Waiting(waiter_of[s]) /\ slot[waiter_of[s]] = s
        BY <2>1, <2>2 DEF EntryHasWaiter
    <2> QED
        BY <2>1, <2>3, <1>3 DEF Waiting
  <1> QED
      BY <1>4, <1>5, <1>6

(* A turn of the loop that ends the wait: the thread leaves and, when its  *)
(* word changed or its time is over, empties the entry at its index.       *)
LEMMA LookInv ==
    ASSUME NEW t \in Threads, Inv, look(t)
    PROVE  Inv'
  <1> USE DEF Inv
  <1>1. /\ pc[t] = "wait" /\ pc' = [pc EXCEPT ![t] = "run"]
        /\ slot' = [slot EXCEPT ![t] = NoSlot] /\ at' = [at EXCEPT ![t] = 0]
        /\ UNCHANGED <<mapped, waiter_of>>
      BY DEF look, Leave, memory
  <1>2. slot[t] \in Slots /\ at[t] \in Addrs
      BY <1>1 DEF Shape, Waiting
  <1>3. CASE /\ ~ in_use[slot[t]] \/ at[t] \notin mapped
             /\ emptied' = emptied \ {t}
             /\ UNCHANGED <<in_use, addr>>
    <2>1. Shape'
        BY <1>1, <1>2, <1>3 DEF Shape, Waiting
    <2>2. HasEntry'
        BY <1>1, <1>2, <1>3 DEF Shape, HasEntry, Waiting
    <2>3. EntryHasWaiter'
        BY <1>1, <1>2, <1>3 DEF Shape, EntryHasWaiter, Waiting
    <2> QED
        BY <2>1, <2>2, <2>3
  <1>4. CASE /\ in_use' = [in_use EXCEPT ![slot[t]] = FALSE]
             /\ addr' = [addr EXCEPT ![slot[t]] = 0]
             /\ emptied' = (emptied \cup Losing({slot[t]})) \ {t}
    <2>1. Shape'
        BY <1>1, <1>2, <1>4 DEF Shape, Waiting, Losing
    <2>2. HasEntry'
      <3> SUFFICES ASSUME NEW u \in Threads, Waiting(u)', u \notin emptied'
                   PROVE  /\ in_use'[slot'[u]] /\ waiter_of'[slot'[u]] = u
                          /\ addr'[slot'[u]] = at'[u]
          BY DEF HasEntry
      <3>1. u # t /\ Waiting(u) /\ slot'[u] = slot[u] /\ at'[u] = at[u] /\ slot[u] \in Slots
          BY <1>1 DEF Shape, Waiting
      <3>2. u \notin emptied /\ u \notin Losing({slot[t]})
          BY <3>1, <1>4
      <3>3. in_use[slot[u]] /\ waiter_of[slot[u]] = u /\ addr[slot[u]] = at[u]
          BY <3>1, <3>2 DEF HasEntry
      <3>4. slot[u] # slot[t]
          BY <3>1, <3>2, <3>3 DEF Losing, Waiting
      <3> QED
          BY <3>1, <3>3, <3>4, <1>1, <1>2, <1>4 DEF Shape
    <2>3. EntryHasWaiter'
        BY <1>1, <1>2, <1>4 DEF Shape, EntryHasWaiter, Waiting
    <2> QED
        BY <2>1, <2>2, <2>3
  <1> QED
      BY <1>3, <1>4 DEF look

(* A killed thread leaves its entry behind, and is the reason for it.      *)
LEMMA KillInv ==
    ASSUME NEW t \in Threads, Inv, kill(t)
    PROVE  Inv'
  <1> USE DEF Inv
  <1>1. /\ pc' = [pc EXCEPT ![t] = "killed"]
        /\ slot' = [slot EXCEPT ![t] = NoSlot] /\ at' = [at EXCEPT ![t] = 0]
        /\ emptied' = emptied \ {t}
        /\ UNCHANGED <<mapped, in_use, addr, waiter_of>>
      BY DEF kill, Leave, memory
  <1>2. Shape'
      BY <1>1 DEF Shape, Waiting
  <1>3. HasEntry'
      BY <1>1 DEF Shape, HasEntry, Waiting
  <1>4. pc'[t] = "killed"
      BY <1>1 DEF Shape
  <1>5. EntryHasWaiter'
      BY <1>4 DEF EntryHasWaiter
  <1> QED
      BY <1>2, <1>3, <1>5

(* Every step keeps the invariant: user code and the timer touch neither   *)
(* the table nor the waiting threads.                                      *)
LEMMA NextInv == Inv /\ [Next]_vars => Inv'
  <1> SUFFICES ASSUME Inv, [Next]_vars PROVE Inv'
      OBVIOUS
  <1>1. ASSUME NEW t \in Threads, NEW a \in Addrs, NEW limit, futex_wait(t, a, limit)
        PROVE  Inv'
      BY <1>1, WaitInv
  <1>2. ASSUME NEW t \in Threads, NEW a \in Addrs, NEW count, futex_wake(t, a, count)
        PROVE  Inv'
    <2>1. /\ Empty(Woken(a, count)) /\ emptied' = emptied \cup Losing(Woken(a, count))
          /\ pc[t] = "run" /\ mapped' = mapped /\ addr' = addr /\ UNCHANGED <<pc, slot, at>>
        BY <1>2 DEF futex_wake, memory, local
    <2> QED
        BY <2>1, EmptyInv
  <1>3. ASSUME NEW t \in Threads, look(t) PROVE Inv'
      BY <1>3, LookInv
  <1>4. ASSUME NEW t \in Threads, exit(t) PROVE Inv'
    <2> DEFINE S == UNION {Woken(l, 1) : l \in Owned(t)} \cup Woken(t, 1)
    <2>1. /\ Empty(S) /\ emptied' = emptied \cup Losing(S)
          /\ pc[t] = "run" /\ mapped' = mapped /\ addr' = addr /\ Leave(t, "exited")
        BY <1>4 DEF exit
    <2> HIDE DEF S
    <2> QED
        BY <2>1, EmptyInv
  <1>5. ASSUME NEW t \in Threads, kill(t) PROVE Inv'
      BY <1>5, KillInv
  <1>6. ASSUME NEW t \in Threads, NEW l \in Locks,
               \/ SetPending(t, l) \/ Take(t, l) \/ Enlist(t, l) \/ Delist(t, l) \/ Give(t, l)
        PROVE  Inv'
    <2>1. Elsewhere
        BY <1>6 DEF SetPending, Take, Enlist, Delist, Give, Elsewhere, memory, local
    <2> QED
        BY <2>1, ElsewhereInv
  <1>7. ASSUME NEW a \in Addrs, unmap(a) PROVE Inv'
    <2>1. mapped' = mapped \ {a} /\ a \in mapped /\ UNCHANGED <<table, pc, slot, at>>
        BY <1>7 DEF unmap, local
    <2>2. mapped' # Addrs
        BY <2>1 DEF Inv, Shape
    <2> QED
        BY <2>1, <2>2 DEF Inv, Shape, HasEntry, EntryHasWaiter, Waiting, table
  <1>8. CASE tick \/ UNCHANGED vars
    <2>1. Elsewhere
        BY <1>8 DEF tick, vars, Elsewhere, memory, local
    <2> QED
        BY <2>1, ElsewhereInv
  <1> QED
      BY <1>1, <1>2, <1>3, <1>4, <1>5, <1>6, <1>7, <1>8 DEF Next

(* The invariant holds in every behaviour; fairness plays no part in it.   *)
LEMMA InvAlways == Spec => []Inv
  BY InitInv, NextInv, PTL DEF Spec

(* A thread in futex_wait whose entry nobody emptied has an entry of its   *)
(* own with its address, for any number of threads and entries.            *)
THEOREM WaiterKeepsEntry == Spec => []HasEntry
  <1>1. Inv => HasEntry
      BY DEF Inv
  <1> QED
      BY <1>1, InvAlways, PTL

(* FUTEX_WAITERS fills up only by threads that wait, by killed ones and    *)
(* after a word was unmapped.                                              *)
THEOREM EntriesHaveWaiters == Spec => []EntryHasWaiter
  <1>1. Inv => EntryHasWaiter
      BY DEF Inv
  <1> QED
      BY <1>1, InvAlways, PTL
=============================================================================
