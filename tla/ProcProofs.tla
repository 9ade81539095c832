----------------------------- MODULE ProcProofs -----------------------------
(***************************************************************************)
(* TypeOK, OnlyCurrentRuns, IdsUnique and NoResurrection of Proc for any   *)
(* number of slots, pids and exit codes, and whatever programs do.         *)
(*                                                                         *)
(* Every step changes the records of PROCESSES and THREADS in one way,     *)
(* Evolves: a record goes, keeps its id (and a zombie stays one), or is    *)
(* new with the id NEXT_PID, in one slot.  That no id is used twice and    *)
(* that nothing comes back to life both follow from it.                    *)
(***************************************************************************)
EXTENDS Proc, TLAPS

RecordsType ==
    /\ processes \in [Slots -> Process \cup {None}]
    /\ threads \in [Slots -> Thread \cup {None}]
    /\ nextPid \in Nat \ {0}

PlacesType ==
    /\ at \in [Slots -> Points] /\ panicked \in BOOLEAN /\ intact \in BOOLEAN

TasksOK == tasks \in TaskTables /\ current \in Slots /\ OnlyCurrentRuns

Inv == TasksOK /\ RecordsType /\ PlacesType /\ IdsUnique

(* A record r became the record q.                                         *)
SameProcess(r, q) ==
    r # None /\ q.pid = r.pid /\ (r.state = "Zombie" => q.state = "Zombie")
SameThread(r, q) ==
    r # None /\ q.tid = r.tid /\ (r.state = "Zombie" => q.state = "Zombie")

Evolves ==
    /\ RecordsType'
    /\ nextPid' \in {nextPid, nextPid + 1}
    /\ \E x \in Slots : \A s \in Slots :
        /\ \/ processes'[s] = None \/ SameProcess(processes[s], processes'[s])
           \/ s = x /\ processes'[s].pid = nextPid /\ nextPid' = nextPid + 1
        /\ \/ threads'[s] = None \/ SameThread(threads[s], threads'[s])
           \/ s = x /\ threads'[s].tid = nextPid /\ nextPid' = nextPid + 1

-----------------------------------------------------------------------------
(* What follows from Evolves.                                              *)

(* No id is used twice.                                                    *)
LEMMA EvolvesUnique == RecordsType /\ IdsUnique /\ Evolves => IdsUnique'
  <1> SUFFICES ASSUME RecordsType, IdsUnique, Evolves PROVE IdsUnique'
      OBVIOUS
  <1>1. PICK x \in Slots : \A s \in Slots :
        /\ \/ processes'[s] = None \/ SameProcess(processes[s], processes'[s])
           \/ s = x /\ processes'[s].pid = nextPid /\ nextPid' = nextPid + 1
        /\ \/ threads'[s] = None \/ SameThread(threads[s], threads'[s])
           \/ s = x /\ threads'[s].tid = nextPid /\ nextPid' = nextPid + 1
      BY DEF Evolves
  <1>2. nextPid \in Nat /\ nextPid' \in {nextPid, nextPid + 1}
      BY DEF RecordsType, Evolves
  <1>3. \A s \in Slots : /\ processes[s] # None => processes[s].pid \in Nat
                         /\ threads[s] # None => threads[s].tid \in Nat
      BY DEF RecordsType, Process, Thread
  <1>4. \A s \in Slots : processes'[s] # None => processes'[s].pid < nextPid'
      BY <1>1, <1>2, <1>3 DEF IdsUnique, SameProcess
  <1>5. \A s \in Slots : threads'[s] # None => threads'[s].tid < nextPid'
      BY <1>1, <1>2, <1>3 DEF IdsUnique, SameThread
  <1>6. ASSUME NEW s \in Slots, NEW r \in Slots, processes'[s] # None, processes'[r] # None,
               processes'[r].pid = processes'[s].pid
        PROVE  s = r
      BY <1>1, <1>2, <1>3, <1>6 DEF IdsUnique, HasPid, SameProcess
  <1>7. ASSUME NEW s \in Slots, NEW r \in Slots, threads'[s] # None, threads'[r] # None,
               threads'[r].tid = threads'[s].tid
        PROVE  s = r
      BY <1>1, <1>2, <1>3, <1>7 DEF IdsUnique, HasTid, SameThread
  <1> QED
      BY <1>4, <1>5, <1>6, <1>7 DEF IdsUnique, HasPid, HasTid

(* What a step may not do to a zombie, in the words of NoResurrection.     *)
Buried ==
    \A s, r \in Slots :
        /\ processes[s] # None /\ processes[s].state = "Zombie"
             /\ processes'[r] # None /\ processes'[r].pid = processes[s].pid
             => processes'[r].state = "Zombie"
        /\ threads[s] # None /\ threads[s].state = "Zombie"
             /\ threads'[r] # None /\ threads'[r].tid = threads[s].tid
             => threads'[r].state = "Zombie"

(* A record with the id of a zombie is the zombie: a new one has NEXT_PID. *)
LEMMA EvolvesBuried == RecordsType /\ IdsUnique /\ Evolves => Buried
  <1> SUFFICES ASSUME RecordsType, IdsUnique, Evolves, NEW s \in Slots, NEW r \in Slots
               PROVE  /\ processes[s] # None /\ processes[s].state = "Zombie"
                           /\ processes'[r] # None /\ processes'[r].pid = processes[s].pid
                           => processes'[r].state = "Zombie"
                      /\ threads[s] # None /\ threads[s].state = "Zombie"
                           /\ threads'[r] # None /\ threads'[r].tid = threads[s].tid
                           => threads'[r].state = "Zombie"
      BY DEF Buried
  <1>1. /\ \/ processes'[r] = None \/ SameProcess(processes[r], processes'[r])
           \/ processes'[r].pid = nextPid
        /\ \/ threads'[r] = None \/ SameThread(threads[r], threads'[r])
           \/ threads'[r].tid = nextPid
      BY DEF Evolves
  <1>2. /\ nextPid \in Nat /\ (processes[s] # None => processes[s].pid \in Nat)
        /\ threads[s] # None => threads[s].tid \in Nat
      BY DEF RecordsType, Process, Thread
  <1> QED
      BY <1>1, <1>2 DEF IdsUnique, HasPid, HasTid, SameProcess, SameThread

-----------------------------------------------------------------------------
(* The records.                                                            *)

(* Records that do not change.                                             *)
LEMMA SameRecords == RecordsType /\ UNCHANGED <<processes, threads, nextPid>> => Evolves
  <1> SUFFICES ASSUME RecordsType, UNCHANGED <<processes, threads, nextPid>> PROVE Evolves
      OBVIOUS
  <1>1. 0 \in Slots
      BY MaxTasksAssumption DEF Slots
  <1> QED
      BY <1>1 DEF Evolves, RecordsType, SameProcess, SameThread

(* A step that gives out no id and under which every record goes or stays. *)
LEMMA NoneNew ==
    ASSUME RecordsType, RecordsType', nextPid' \in {nextPid, nextPid + 1},
           \A s \in Slots : processes'[s] = None \/ SameProcess(processes[s], processes'[s]),
           \A s \in Slots : threads'[s] = None \/ SameThread(threads[s], threads'[s])
    PROVE  Evolves
  <1>1. 0 \in Slots
      BY MaxTasksAssumption DEF Slots
  <1> QED
      BY <1>1 DEF Evolves

(* An ended process is the same process.                                   *)
LEMMA EndedSame ==
    ASSUME NEW p \in Process, NEW code \in ExitCodes
    PROVE  /\ Ended(p, code) \in Process /\ SameProcess(p, Ended(p, code))
           /\ LessOneThread(p, code) \in Process /\ SameProcess(p, LessOneThread(p, code))
  <1>1. p # None
      BY ProcAssumption
  <1>2. Ended(p, code) \in Process /\ SameProcess(p, Ended(p, code))
      BY <1>1 DEF Ended, SameProcess, Process
  <1>3. p.threads \in Nat
      BY DEF Process
  <1>4. CASE p.threads \in {0, 1}
      BY <1>2, <1>4 DEF LessOneThread
  <1>5. CASE p.threads > 1
    <2>1. LessOneThread(p, code) = [p EXCEPT !.threads = p.threads - 1]
        BY <1>3, <1>5 DEF LessOneThread
    <2>2. p.threads - 1 \in Nat
        BY <1>3, <1>5
    <2> QED
        BY <1>1, <1>2, <2>1, <2>2 DEF SameProcess, Process
  <1> QED
      BY <1>2, <1>3, <1>4, <1>5

(* The threads that end stay the same threads.                             *)
LEMMA ThreadsEnd ==
    ASSUME RecordsType
    PROVE  /\ ThreadExited \in [Slots -> Thread \cup {None}]
           /\ \A s \in Slots : ThreadExited[s] = None \/ SameThread(threads[s], ThreadExited[s])
           /\ \A g \in Slots :
               /\ GroupEnded(g) \in [Slots -> Thread \cup {None}]
               /\ \A s \in Slots : \/ GroupEnded(g)[s] = None
                                   \/ SameThread(threads[s], GroupEnded(g)[s])
  <1>1. \A s \in Slots : threads[s] # None => /\ threads[s] \in Thread
                                              /\ [threads[s] EXCEPT !.state = "Zombie"] \in Thread
      BY DEF RecordsType, Thread
  <1>2. \A g \in Slots :
            /\ GroupEnded(g) \in [Slots -> Thread \cup {None}]
            /\ \A s \in Slots : \/ GroupEnded(g)[s] = None
                                \/ SameThread(threads[s], GroupEnded(g)[s])
      BY <1>1 DEF RecordsType, GroupEnded, InGroup, SameThread, Thread
  <1>3. /\ ThreadExited \in [Slots -> Thread \cup {None}]
        /\ \A s \in Slots : ThreadExited[s] = None \/ SameThread(threads[s], ThreadExited[s])
      BY <1>1 DEF RecordsType, ThreadExited, SameThread, Thread
  <1> QED
      BY <1>2, <1>3

(* One process record is replaced by a later state of the same process, or *)
(* none is, and threads end.                                               *)
LEMMA OneEnds ==
    ASSUME NEW g \in Slots, NEW q \in Process, RecordsType, SameProcess(processes[g], q),
           processes' = [processes EXCEPT ![g] = q] \/ processes' = processes,
           threads' = ThreadExited \/ threads' = GroupEnded(g) \/ threads' = threads,
           nextPid' = nextPid
    PROVE  Evolves
  <1>1. /\ processes' \in [Slots -> Process \cup {None}]
        /\ \A s \in Slots : processes'[s] = None \/ SameProcess(processes[s], processes'[s])
    <2>1. \A s \in Slots : processes[s] = None \/ SameProcess(processes[s], processes[s])
        BY DEF SameProcess
    <2> QED
        BY <2>1 DEF RecordsType
  <1>2. /\ threads' \in [Slots -> Thread \cup {None}]
        /\ \A s \in Slots : threads'[s] = None \/ SameThread(threads[s], threads'[s])
    <2>1. \A s \in Slots : threads[s] = None \/ SameThread(threads[s], threads[s])
        BY DEF SameThread
    <2> QED
        BY <2>1, ThreadsEnd DEF RecordsType
  <1>3. RecordsType'
      BY <1>1, <1>2 DEF RecordsType
  <1> QED
      BY <1>1, <1>2, <1>3, NoneNew

(* Threads end and no process changes.                                     *)
LEMMA OnlyThreadsEnd ==
    ASSUME RecordsType, UNCHANGED <<processes, nextPid>>, NEW g \in Slots,
           threads' = ThreadExited \/ threads' = GroupEnded(g)
    PROVE  Evolves
  <1>1. \A s \in Slots : processes'[s] = None \/ SameProcess(processes[s], processes'[s])
      BY DEF SameProcess
  <1>2. /\ threads' \in [Slots -> Thread \cup {None}]
        /\ \A s \in Slots : threads'[s] = None \/ SameThread(threads[s], threads'[s])
      BY ThreadsEnd
  <1>3. RecordsType'
      BY <1>2 DEF RecordsType
  <1> QED
      BY <1>1, <1>2, <1>3, NoneNew

(* The group of a thread with a record is a slot, and its process a record.*)
LEMMA GroupOf ==
    ASSUME RecordsType, HasProcess, current \in Slots
    PROVE  /\ threads[current].group \in Slots
           /\ processes[threads[current].group] \in Process
  <1>1. threads[current] \in Thread
      BY DEF HasProcess, RecordsType
  <1>2. threads[current].group \in Slots
      BY <1>1 DEF Thread
  <1> QED
      BY <1>2 DEF HasProcess, RecordsType

(* exit_thread: the thread ends, and perhaps its process.                  *)
LEMMA ExitThread ==
    ASSUME NEW code \in ExitCodes, RecordsType, current \in Slots,
           processes' = ProcessLessThread(code), threads' = ThreadExited, nextPid' = nextPid
    PROVE  Evolves
  <1>1. CASE HasProcess
    <2> DEFINE g == threads[current].group
               q == LessOneThread(processes[g], code)
    <2>1. g \in Slots /\ q \in Process /\ SameProcess(processes[g], q)
        BY <1>1, GroupOf, EndedSame
    <2>2. processes' = [processes EXCEPT ![g] = q]
        BY <1>1 DEF ProcessLessThread
    <2> HIDE DEF g, q
    <2> QED
        BY <2>1, <2>2, OneEnds
  <1>2. CASE ~ HasProcess
      BY <1>2, OnlyThreadsEnd DEF ProcessLessThread
  <1> QED
      BY <1>1, <1>2

(* spawn_named: one record of each table is new.                           *)
LEMMA SpawnNamed ==
    ASSUME NEW s \in Slots, NEW ppid \in Nat, RecordsType, spawn_named(s, ppid)
    PROVE  Evolves
  <1>1. nextPid \in Nat
      BY DEF RecordsType
  <1>2. NewProcess(nextPid, ppid) \in Process /\ NewThread(nextPid, s) \in Thread
      BY <1>1 DEF NewProcess, NewThread, Process, Thread, ExitCodes
  <1>3. RecordsType'
      BY <1>1, <1>2 DEF spawn_named, RecordsType
  <1>4. \A r \in Slots :
        /\ \/ processes'[r] = None \/ SameProcess(processes[r], processes'[r])
           \/ r = s /\ processes'[r].pid = nextPid
        /\ \/ threads'[r] = None \/ SameThread(threads[r], threads'[r])
           \/ r = s /\ threads'[r].tid = nextPid
      BY DEF spawn_named, RecordsType, SameProcess, SameThread, NewProcess, NewThread
  <1>5. nextPid' = nextPid + 1
      BY DEF spawn_named
  <1> QED
      BY <1>3, <1>4, <1>5 DEF Evolves

(* current_pid is a number.                                                *)
LEMMA CurrentPid == RecordsType /\ current \in Slots => current_pid \in Nat
  BY GroupOf DEF current_pid, Process

(* An expect() that fails gives out an id nobody gets.                     *)
LEMMA ExpectEvolves == RecordsType /\ ExpectFails => Evolves
  <1> SUFFICES ASSUME RecordsType, ExpectFails PROVE Evolves
      OBVIOUS
  <1>1. UNCHANGED <<processes, threads>> /\ nextPid' = nextPid + 1
      BY DEF ExpectFails
  <1>2. RecordsType'
      BY <1>1 DEF RecordsType
  <1> QED
      BY <1>1, <1>2, NoneNew DEF SameProcess, SameThread

(* spawn_thread_in_group: one thread is new, and its process counts it.    *)
LEMMA SpawnThread ==
    ASSUME NEW s \in Slots, RecordsType, current \in Slots, spawn_thread_in_group(s)
    PROVE  Evolves
  <1>1. CASE ExpectFails
      BY <1>1, ExpectEvolves
  <1>2. CASE HasProcess /\ ~ ExpectFails
    <2> DEFINE g == threads[current].group
               q == [processes[g] EXCEPT !.threads = @ + 1]
    <2>1. g \in Slots /\ processes[g] \in Process
        BY <1>2, GroupOf
    <2>2. q \in Process /\ SameProcess(processes[g], q)
        BY <2>1, ProcAssumption DEF Process, SameProcess
    <2>3. /\ processes' = [processes EXCEPT ![g] = q]
          /\ threads' = [threads EXCEPT ![s] = NewThread(nextPid, g)]
          /\ nextPid' = nextPid + 1
        BY <1>2 DEF spawn_thread_in_group
    <2> HIDE DEF g, q
    <2>4. nextPid \in Nat /\ NewThread(nextPid, g) \in Thread /\ NewThread(nextPid, g).tid = nextPid
        BY <2>1 DEF RecordsType, NewThread, Thread
    <2>5. RecordsType'
        BY <2>1, <2>2, <2>3, <2>4 DEF RecordsType
    <2>6. \A r \in Slots : processes'[r] = None \/ SameProcess(processes[r], processes'[r])
        BY <2>1, <2>2, <2>3 DEF RecordsType, SameProcess
    <2>7. \A r \in Slots : \/ threads'[r] = None \/ SameThread(threads[r], threads'[r])
                           \/ r = s /\ threads'[r].tid = nextPid
        BY <2>3, <2>4 DEF RecordsType, SameThread
    <2> QED
        BY <2>3, <2>5, <2>6, <2>7 DEF Evolves
  <1> QED
      BY <1>1, <1>2 DEF spawn_thread_in_group

(* terminate_process_group, on a group that may have no process any more.  *)
LEMMA Terminate ==
    ASSUME NEW g \in Slots, RecordsType, terminate_process_group(g)
    PROVE  Evolves
  <1>1. threads' = GroupEnded(g) /\ nextPid' = nextPid
      BY DEF terminate_process_group
  <1>2. CASE processes[g] = None
      BY <1>1, <1>2, OnlyThreadsEnd DEF terminate_process_group
  <1>3. CASE processes[g] # None
    <2> DEFINE q == Ended(processes[g], KillCode)
    <2>1. q \in Process /\ SameProcess(processes[g], q)
        BY <1>3, EndedSame DEF RecordsType, ExitCodes
    <2>2. processes' = [processes EXCEPT ![g] = q]
        BY <1>3 DEF terminate_process_group
    <2> HIDE DEF q
    <2> QED
        BY <1>1, <2>1, <2>2, OneEnds
  <1> QED
      BY <1>2, <1>3

(* reap_slot: the records of one slot go, or nothing changes.              *)
LEMMA Reap ==
    ASSUME NEW s \in Slots, RecordsType, reap_slot(s), nextPid' = nextPid
    PROVE  Evolves
  <1>1. CASE UNCHANGED <<processes, threads>>
      BY <1>1, SameRecords
  <1>2. CASE /\ processes' = [processes EXCEPT ![s] = None]
             /\ threads' = [threads EXCEPT ![s] = None]
    <2>1. RecordsType'
        BY <1>2 DEF RecordsType
    <2> QED
        BY <1>2, <2>1, NoneNew DEF RecordsType, SameProcess, SameThread
  <1> QED
      BY <1>1, <1>2 DEF reap_slot

(* Every step evolves the records.                                         *)
LEMMA RecordsStep ==
    ASSUME Inv, [Next]_vars
    PROVE  Evolves
  <1>a. RecordsType /\ current \in Slots
      BY DEF Inv, TasksOK
  <1>b. \A s \in Slots : at[s].slot \in Slots
      BY DEF Inv, PlacesType, Points
  <1>1. CASE Switch
    <2>1. UNCHANGED <<processes, nextPid>> /\ threads' = task_slot_reaped
        BY <1>1 DEF Switch
    <2>2. threads' = threads \/ threads' = [threads EXCEPT ![current] = None]
        BY <2>1 DEF task_slot_reaped
    <2>3. RecordsType'
        BY <1>a, <2>1, <2>2 DEF RecordsType
    <2>4. \A s \in Slots : threads'[s] = None \/ SameThread(threads[s], threads'[s])
        BY <1>a, <2>2 DEF RecordsType, SameThread
    <2>5. \A s \in Slots : processes'[s] = None \/ SameProcess(processes[s], processes'[s])
        BY <2>1 DEF SameProcess
    <2> QED
        BY <1>a, <2>1, <2>3, <2>4, <2>5, NoneNew
  <1>2. CASE Fork
      BY <1>a, <1>2, CurrentPid, SpawnNamed, ExpectEvolves DEF Fork, fork_current
  <1>3. CASE CloneThread
      BY <1>a, <1>3, SpawnThread DEF CloneThread
  <1>4. CASE Exec
      BY <1>a, <1>4, CurrentPid, SpawnNamed DEF Exec
  <1>5. ASSUME NEW code \in Codes, Exit(code) PROVE Evolves
      BY <1>a, <1>5, ExitThread DEF Exit, ExitCodes
  <1>6. ASSUME NEW code \in Codes, ExitGroup(code) PROVE Evolves
    <2>1. CASE HasProcess
      <3> DEFINE g == threads[current].group
                 q == Ended(processes[g], code)
      <3>1. g \in Slots /\ q \in Process /\ SameProcess(processes[g], q)
          BY <1>a, <2>1, GroupOf, EndedSame DEF ExitCodes
      <3>2. /\ processes' = [processes EXCEPT ![g] = q] /\ threads' = GroupEnded(g)
            /\ nextPid' = nextPid
          BY <1>6, <2>1 DEF ExitGroup
      <3> HIDE DEF g, q
      <3> QED
          BY <1>a, <3>1, <3>2, OneEnds
    <2>2. CASE ~ HasProcess
        BY <1>a, <1>6, <2>2, OnlyThreadsEnd DEF ExitGroup
    <2> QED
        BY <2>1, <2>2
  <1>7. CASE FaultExit
      BY <1>a, <1>7, ExitThread DEF FaultExit, ExitCodes
  <1>8. CASE FaultKill \/ ShellExec \/ UNCHANGED vars
      BY <1>a, <1>8, SameRecords DEF FaultKill, ShellExec, vars
  <1>9. ASSUME NEW id \in Pids, Kill(id) \/ Tkill(id) \/ WaitpidEntry(id) PROVE Evolves
    <2>1. CASE Kill(id)
        BY <1>a, <2>1, Terminate DEF Kill
    <2>2. CASE Tkill(id)
      <3>1. PICK s \in Slots : HasTid(s, id) /\ terminate_process_group(threads[s].group)
          BY <2>2 DEF Tkill
      <3>2. threads[s].group \in Slots
          BY <1>a, <3>1 DEF HasTid, RecordsType, Thread
      <3> QED
          BY <1>a, <3>1, <3>2, Terminate
    <2>3. CASE WaitpidEntry(id)
        BY <1>a, <2>3, SameRecords DEF WaitpidEntry
    <2> QED
        BY <1>9, <2>1, <2>2, <2>3
  <1>10. CASE WaitpidReturn \/ ShellReap
      BY <1>a, <1>b, <1>10, Reap DEF WaitpidReturn, ShellReap
  <1>11. CASE ShellRegister
      BY <1>a, <1>b, <1>11, CurrentPid, SpawnNamed DEF ShellRegister
  <1> QED
      BY <1>1, <1>2, <1>3, <1>4, <1>5, <1>6, <1>7, <1>8, <1>9, <1>10, <1>11 DEF Next

-----------------------------------------------------------------------------
(* The tasks.                                                              *)

(* A killed task keeps its slot; the current one is Running or Dead.       *)
LEMMA KilledOK ==
    ASSUME NEW S, TasksOK, tasks' = Killed(tasks, S), current' = current
    PROVE  TasksOK'
  <1>1. tasks' \in TaskTables
      BY DEF TasksOK, Killed, TaskTables, TaskStates
  <1> QED
      BY <1>1 DEF TasksOK, OnlyCurrentRuns, Killed, TaskTables

(* A new task is put in an empty slot, so not in the current one.          *)
LEMMA SpawnOK ==
    ASSUME NEW s \in Slots, TasksOK, IsFirstFree(tasks, s),
           tasks' = [tasks EXCEPT ![s] = "Ready"], current' = current
    PROVE  TasksOK'
  <1>1. tasks[s] = "None"
      BY DEF IsFirstFree, FreeSlots
  <1>2. tasks' \in TaskTables
      BY DEF TasksOK, TaskTables, TaskStates
  <1> QED
      BY <1>1, <1>2 DEF TasksOK, OnlyCurrentRuns, TaskTables

(* The switch takes a Ready task, so another one, and leaves the outgoing  *)
(* one Ready or its slot empty.                                            *)
LEMMA SwitchOK ==
    ASSUME TasksOK, Switch
    PROVE  TasksOK'
  <1>1. PICK n \in Slots : /\ tasks[n] = "Ready" /\ tasks' = Switched(tasks, current, n)
                           /\ current' = n
      BY DEF Switch, IsNextReady
  <1>2. n # current /\ tasks[current] \in {"Running", "Dead"}
      BY <1>1 DEF TasksOK, OnlyCurrentRuns
  <1>3. SwitchedOut(tasks[current]) \in {"Ready", "None"}
      BY <1>2 DEF SwitchedOut
  <1>4. tasks' \in TaskTables /\ tasks'[n] = "Running"
      BY <1>1, <1>2, <1>3 DEF TasksOK, Switched, TaskTables, TaskStates
  <1>5. \A s \in Slots : tasks'[s] = "Running" => s = n
      BY <1>1, <1>2, <1>3 DEF TasksOK, OnlyCurrentRuns, Switched, TaskTables
  <1> QED
      BY <1>1, <1>4, <1>5 DEF TasksOK, OnlyCurrentRuns

(* Every step keeps the table of tasks in order.                           *)
LEMMA TasksStep ==
    ASSUME TasksOK, [Next]_vars
    PROVE  TasksOK'
  <1>1. CASE Switch
      BY <1>1, SwitchOK
  <1>2. CASE Fork \/ CloneThread \/ Exec
      BY <1>2, SpawnOK DEF Fork, CloneThread, Exec, SpawnTask
  <1>3. ASSUME NEW code \in Codes, Exit(code) \/ ExitGroup(code) PROVE TasksOK'
      BY <1>3, KilledOK DEF Exit, ExitGroup
  <1>4. CASE FaultKill
      BY <1>4, KilledOK DEF FaultKill
  <1>5. ASSUME NEW id \in Pids, Kill(id) \/ Tkill(id) PROVE TasksOK'
      BY <1>5, KilledOK DEF Kill, Tkill, terminate_process_group
  <1>6. ASSUME UNCHANGED <<tasks, current>> PROVE TasksOK'
      BY <1>6 DEF TasksOK, OnlyCurrentRuns
  <1>7. ASSUME NEW id \in Pids, WaitpidEntry(id) PROVE TasksOK'
      BY <1>6, <1>7 DEF WaitpidEntry
  <1>8. CASE FaultExit \/ WaitpidReturn \/ ShellRegister \/ ShellReap \/ UNCHANGED vars
      BY <1>6, <1>8 DEF FaultExit, WaitpidReturn, ShellRegister, ShellReap, vars
  <1>9. CASE ShellExec
      BY <1>6, <1>9, SpawnOK DEF ShellExec
  <1> QED
      BY <1>1, <1>2, <1>3, <1>4, <1>5, <1>7, <1>8, <1>9 DEF Next

-----------------------------------------------------------------------------
(* The places of the tasks, and the flags.                                 *)

(* The points the code goes to.                                            *)
LEMMA PointsType ==
    /\ Point("user") \in Points /\ Point("fault") \in Points /\ Point("halted") \in Points
    /\ Point("exec") \in Points /\ Point("stopped") \in Points /\ Point("idle") \in Points
    /\ \A s \in Slots, n \in Nat :
        /\ [pc |-> "waitpid", slot |-> s, pid |-> n] \in Points
        /\ [pc |-> "register", slot |-> s, pid |-> 0] \in Points
        /\ [pc |-> "wait", slot |-> s, pid |-> n] \in Points
  <1>1. 0 \in Slots
      BY MaxTasksAssumption DEF Slots
  <1> QED
      BY <1>1 DEF Point, Points

(* Every step leaves tasks at points of the code.                          *)
LEMMA PlacesStep ==
    ASSUME Inv, [Next]_vars
    PROVE  PlacesType'
  <1>a. PlacesType /\ current \in Slots /\ nextPid \in Nat
      BY DEF Inv, TasksOK, RecordsType
  <1>b. \A s \in Slots : at[s].slot \in Slots
      BY <1>a DEF PlacesType, Points
  <1>c. \A s \in Slots, q \in Points : [at EXCEPT ![s] = q] \in [Slots -> Points]
      BY <1>a DEF PlacesType
  <1>1. CASE Switch
      BY <1>1, <1>a, <1>c, PointsType DEF Switch, PlacesType
  <1>2. ASSUME NEW s \in Slots, SpawnTask(s) PROVE at' \in [Slots -> Points]
      BY <1>2, <1>c, PointsType DEF SpawnTask
  <1>3. CASE Fork
    <2>1. panicked' \in BOOLEAN /\ intact' \in BOOLEAN
        BY <1>3, <1>a DEF Fork, fork_current, ExpectFails, PlacesType
    <2> QED
        BY <1>2, <1>3, <2>1 DEF Fork, PlacesType
  <1>4. CASE CloneThread
    <2>1. panicked' \in BOOLEAN /\ intact' \in BOOLEAN
        BY <1>4, <1>a DEF CloneThread, spawn_thread_in_group, ExpectFails, PlacesType
    <2> QED
        BY <1>2, <1>4, <2>1 DEF CloneThread, PlacesType
  <1>5. CASE Exec
    <2>1. panicked' \in BOOLEAN /\ intact' \in BOOLEAN
        BY <1>5, <1>a DEF Exec, PlacesType
    <2> QED
        BY <1>2, <1>5, <2>1 DEF Exec, PlacesType
  <1>6. ASSUME NEW code \in Codes, Exit(code) \/ ExitGroup(code) PROVE PlacesType'
      BY <1>6, <1>a, <1>c, PointsType DEF Exit, ExitGroup, Goto, PlacesType
  <1>7. CASE FaultExit \/ FaultKill
      BY <1>7, <1>a, <1>c, PointsType DEF FaultExit, FaultKill, Goto, PlacesType
  <1>8. ASSUME NEW id \in Pids, Kill(id) \/ Tkill(id) PROVE PlacesType'
      BY <1>8, <1>a DEF Kill, Tkill, terminate_process_group, PlacesType
  <1>9. ASSUME NEW id \in Pids, WaitpidEntry(id) PROVE PlacesType'
    <2>1. id \in Nat
        BY ProcAssumption DEF Pids
    <2>2. PICK s \in Slots : Goto([pc |-> "waitpid", slot |-> s, pid |-> id])
        BY <1>9 DEF WaitpidEntry
    <2>3. [pc |-> "waitpid", slot |-> s, pid |-> id] \in Points
        BY <2>1, PointsType
    <2>4. at' \in [Slots -> Points]
        BY <2>2, <2>3, <1>a, <1>c DEF Goto
    <2> QED
        BY <1>9, <1>a, <2>4 DEF WaitpidEntry, PlacesType
  <1>10. CASE WaitpidReturn \/ ShellReap
      BY <1>10, <1>a, <1>c, PointsType DEF WaitpidReturn, ShellReap, Goto, PlacesType
  <1>11. CASE ShellExec
    <2>1. CASE Goto(Point("stopped")) /\ UNCHANGED <<tasks, intact>>
        BY <1>11, <2>1, <1>a, <1>c, PointsType DEF ShellExec, Goto, PlacesType
    <2>2. ASSUME NEW s \in Slots,
                 at' = [at EXCEPT ![s] = Point("user"),
                                  ![current] = [pc |-> "register", slot |-> s, pid |-> 0]],
                 intact' = (intact /\ Unrecorded(s))
          PROVE  PlacesType'
      <3>1. Point("user") \in Points /\ [pc |-> "register", slot |-> s, pid |-> 0] \in Points
          BY <1>a, PointsType
      <3>2. at' \in [Slots -> Points]
          BY <2>2, <3>1, <1>a DEF PlacesType
      <3>3. intact' \in BOOLEAN
          BY <2>2
      <3> QED
          BY <1>11, <1>a, <3>2, <3>3 DEF ShellExec, PlacesType
    <2> QED
        BY <1>11, <2>1, <2>2 DEF ShellExec
  <1>12. CASE ShellRegister
    <2> DEFINE s == at[current].slot
               q == [pc |-> "wait", slot |-> s, pid |-> nextPid]
    <2>1. q \in Points
        BY <1>a, <1>b, PointsType
    <2>2. at' = [at EXCEPT ![current] = q]
        BY <1>12 DEF ShellRegister, Goto
    <2>3. intact' \in BOOLEAN
        BY <1>12 DEF ShellRegister
    <2> HIDE DEF q
    <2>4. at' \in [Slots -> Points]
        BY <2>1, <2>2, <1>a, <1>c
    <2> QED
        BY <1>12, <1>a, <2>3, <2>4 DEF ShellRegister, PlacesType
  <1>13. CASE UNCHANGED vars
      BY <1>13, <1>a DEF vars, PlacesType
  <1> QED
      BY <1>1, <1>3, <1>4, <1>5, <1>6, <1>7, <1>8, <1>9, <1>10, <1>11, <1>12, <1>13 DEF Next

-----------------------------------------------------------------------------
(* The theorems.                                                           *)

(* After boot_kernel two tasks exist and no record does.                   *)
LEMMA InitInv == Init => Inv
  <1> SUFFICES ASSUME Init PROVE Inv
      OBVIOUS
  <1>1. 0 \in Slots /\ 1 \in Slots
      BY MaxTasksAssumption DEF Slots
  <1>2. TasksOK
      BY <1>1 DEF Init, TasksOK, TaskTables, TaskStates, OnlyCurrentRuns
  <1>3. RecordsType /\ IdsUnique
      BY DEF Init, RecordsType, IdsUnique, HasPid, HasTid
  <1>4. PlacesType
      BY PointsType DEF Init, PlacesType
  <1> QED
      BY <1>2, <1>3, <1>4 DEF Inv

(* Every step keeps the invariant.                                         *)
LEMMA NextInv == Inv /\ [Next]_vars => Inv'
  <1> SUFFICES ASSUME Inv, [Next]_vars PROVE Inv'
      OBVIOUS
  <1>1. Evolves
      BY RecordsStep
  <1>2. IdsUnique' /\ RecordsType'
      BY <1>1, EvolvesUnique DEF Inv, Evolves
  <1>3. TasksOK' /\ PlacesType'
      BY TasksStep, PlacesStep DEF Inv
  <1> QED
      BY <1>2, <1>3 DEF Inv

(* The invariant holds in every state.                                     *)
LEMMA InvAlways == Spec => []Inv
  BY InitInv, NextInv, PTL DEF Spec

(* Every variable of the tables of tasks, processes and threads keeps its  *)
(* type.                                                                   *)
THEOREM TypeCorrect == Spec => []TypeOK
  <1>1. Inv => TypeOK
      BY DEF Inv, TasksOK, RecordsType, PlacesType, TypeOK
  <1> QED
      BY <1>1, InvAlways, PTL

(* Exactly the task in slot CURRENT can be marked Running.                 *)
THEOREM CurrentAloneRuns == Spec => []OnlyCurrentRuns
  <1>1. Inv => OnlyCurrentRuns
      BY DEF Inv, TasksOK
  <1> QED
      BY <1>1, InvAlways, PTL

(* No two records carry the same id, whatever was overwritten or reaped.   *)
THEOREM IdsAlwaysUnique == Spec => []IdsUnique
  <1>1. Inv => IdsUnique
      BY DEF Inv
  <1> QED
      BY <1>1, InvAlways, PTL

(* No step brings a process or a thread back to life.                      *)
THEOREM DeadStayDead == Spec => NoResurrection
  <1>1. Inv /\ [Next]_vars => Buried
      BY RecordsStep, EvolvesBuried DEF Inv
  <1>2. Spec => [][Buried]_vars
      BY <1>1, InvAlways, PTL DEF Spec
  <1> QED
      BY <1>2 DEF NoResurrection, Buried
=============================================================================
