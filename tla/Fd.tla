--------------------------------- MODULE Fd ---------------------------------
(***************************************************************************)
(* Descriptor tables and the reference counts behind them: proc/fd.rs,     *)
(* proc/fd_open.rs, the counting half of proc/fd_pipe.rs, and the system   *)
(* calls of syscall/process.rs that reach them.                            *)
(*                                                                         *)
(* A descriptor holds a target; open files and the two ends of a pipe are  *)
(* counted.  Records of processes are indexed by slot, as in Proc, and a   *)
(* creation may take a slot whose record is a zombie or a group that has   *)
(* lost its leader.  A call that fails undoes what it did: it is a         *)
(* stuttering step.  System calls are not preempted (SchedulerProofs).     *)
(***************************************************************************)
EXTENDS Integers, FiniteSets

CONSTANTS
    Slots,          \* indices of PROCESSES
    BootSlot,       \* the slot of a program that runs before its record is stored
    MaxFds,         \* MAX_FDS
    StdFds,         \* 3: the descriptors that a process starts with
    MaxOpenFiles,   \* MAX_OPEN_FILES
    MaxPipes,       \* MAX_PIPES
    OpenFlags,      \* the status flags that open passes
    SetFlags,       \* the arguments of F_SETFL
    PipeFlags,      \* the status flags that pipe2 passes
    CloexecArgs,    \* the values of cloexec that dup3, fcntl and pipe2 pass
    Devices,        \* the character devices that open_special_path opens
    MaxLost         \* bound: references lost per target

StatusFlags == {"O_WRONLY", "O_RDWR", "O_APPEND", "O_NONBLOCK"}

ASSUME FdAssumption ==
    /\ IsFiniteSet(Slots)
    /\ MaxFds \in Nat /\ StdFds \in Nat /\ StdFds <= MaxFds
    /\ MaxOpenFiles \in Nat /\ MaxPipes \in Nat /\ MaxLost \in Nat
    /\ Devices \subseteq {"Tty", "Null", "Zero"}
    /\ OpenFlags \subseteq SUBSET StatusFlags /\ PipeFlags \subseteq SUBSET StatusFlags
    /\ CloexecArgs \subseteq BOOLEAN

Fds == 0 .. MaxFds - 1

(* FdTarget.  Entry is the table entry behind a counted target.            *)
Open(i) == <<"Open", i>>
PipeRead(i) == <<"PipeRead", i>>
PipeWrite(i) == <<"PipeWrite", i>>
Empty == <<"Empty", 0>>
Plain == {Empty} \cup ({"Stdio"} \X (0 .. StdFds - 1)) \cup (Devices \X {0})
Opens == {"Open"} \X (0 .. MaxOpenFiles - 1)
PipeEnds == {"PipeRead", "PipeWrite"} \X (0 .. MaxPipes - 1)
Counted == Opens \cup PipeEnds
FdTarget == Plain \cup Counted
Entry(t) == IF t \in PipeEnds THEN <<"Pipe", t[2]>> ELSE t
Pipes == {"Pipe"} \X (0 .. MaxPipes - 1)
Entries == Opens \cup Pipes

VARIABLES
    proc,      \* none, unrecorded: task but no record, running, leaderless, zombie
    fds,       \* fds[s][fd]: the target
    cloexec,   \* fd_flags[fd] = FD_CLOEXEC
    used,      \* the entries that are in_use
    refs,      \* refs of an open file, read_refs and write_refs of a pipe
    status,    \* status_flags, read_flags, write_flags
    lost,      \* history: references whose descriptor went without a release
    opened     \* history: the flags each open file was opened with

vars == <<proc, fds, cloexec, used, refs, status, lost, opened>>

Live(p) == proc[p] \in {"running", "leaderless"}

IsFirst(x, S) == x \in S /\ \A y \in S : x <= y

FreeFds(p, min) == {fd \in Fds : fd >= min /\ fds[p][fd] = Empty}

One(t) == [u \in Counted |-> IF u = t THEN 1 ELSE 0]
CountIn(p) == [t \in Counted |-> Cardinality({fd \in Fds : fds[p][fd] = t})]

(* retain_fd_target, n[t] times for each target.                           *)
Retain(r, u, n) ==
    [t \in Counted |-> IF Entry(t) \in u THEN r[t] + n[t] ELSE r[t]]

(* release_fd_target, n[t] times: the counts that are left, and the        *)
(* entries that are still in use.  An open file goes with its last         *)
(* reference, a pipe when both ends are at zero.                           *)
Release(r, u, n) ==
    [t \in Counted |->
        IF Entry(t) \notin u THEN r[t] ELSE IF r[t] > n[t] THEN r[t] - n[t] ELSE 0]

StillUsed_EitherEnd(r, u, n) ==
    {e \in u : \A t \in Counted : Entry(t) = e => n[t] = 0 \/ Release(r, u, n)[t] > 0}
StillUsed(r, u, n) ==
    {e \in u :
        \/ \A t \in Counted : Entry(t) = e => n[t] = 0
        \/ \E t \in Counted : Entry(t) = e /\ Release(r, u, n)[t] > 0}

Clear(u) == [t \in Counted |-> IF Entry(t) \in u THEN status[t] ELSE {}]

Released(n) ==
    /\ refs' = Release(refs, used, n)
    /\ used' = StillUsed(refs, used, n)
    /\ status' = Clear(StillUsed(refs, used, n))
    /\ UNCHANGED opened

TypeOK ==
    /\ proc \in [Slots -> {"none", "unrecorded", "running", "leaderless", "zombie"}]
    /\ fds \in [Slots -> [Fds -> FdTarget]]
    /\ cloexec \in [Slots -> [Fds -> BOOLEAN]]
    /\ used \subseteq Entries
    /\ refs \in [Counted -> Nat]
    /\ status \in [Counted -> SUBSET StatusFlags]
    /\ lost \in [Counted -> Nat]
    /\ opened \in [Opens -> SUBSET StatusFlags]

NoFds == [fd \in Fds |-> Empty]
NoFlags == [fd \in Fds |-> FALSE]
default_fds == [fd \in Fds |-> IF fd < StdFds THEN <<"Stdio", fd>> ELSE Empty]

Init ==
    /\ proc = [s \in Slots |-> IF s = BootSlot THEN "unrecorded" ELSE "none"]
    /\ fds = [s \in Slots |-> NoFds]
    /\ cloexec = [s \in Slots |-> NoFlags]
    /\ used = {}
    /\ refs = [t \in Counted |-> 0]
    /\ status = [t \in Counted |-> {}]
    /\ lost = [t \in Counted |-> 0]
    /\ opened = [t \in Opens |-> {}]

-----------------------------------------------------------------------------
(* Descriptors.                                                            *)

SetFd(p, fd, t, c) ==
    /\ fds' = [fds EXCEPT ![p][fd] = t]
    /\ cloexec' = [cloexec EXCEPT ![p][fd] = c]

(* alloc_open_file_with_flags: the first entry that is not in use.         *)
OpenEntry(i, flags) ==
    /\ IsFirst(i, {j \in 0 .. MaxOpenFiles - 1 : Open(j) \notin used})
    /\ used' = used \cup {Open(i)}
    /\ refs' = [refs EXCEPT ![Open(i)] = 1]
    /\ status' = [status EXCEPT ![Open(i)] = flags]
    /\ opened' = [opened EXCEPT ![Open(i)] = flags]

open_file(p, flags) ==
    /\ Live(p)
    /\ \E i \in 0 .. MaxOpenFiles - 1, fd \in Fds :
        /\ IsFirst(fd, FreeFds(p, StdFds))
        /\ OpenEntry(i, flags)
        /\ SetFd(p, fd, Open(i), FALSE)
    /\ UNCHANGED <<proc, lost>>

(* alloc_fd_with_flags by a task without a record: current_process_mut is  *)
(* None after the entry was taken.                                         *)
open_unrecorded(p, flags) ==
    /\ proc[p] = "unrecorded"
    /\ MaxLost > 0
    /\ \E i \in 0 .. MaxOpenFiles - 1 :
        /\ OpenEntry(i, flags)
        /\ lost' = [lost EXCEPT ![Open(i)] = 1]
    /\ UNCHANGED <<proc, fds, cloexec>>

open_char_device(p, dev) ==
    /\ Live(p)
    /\ \E fd \in Fds :
        /\ IsFirst(fd, FreeFds(p, StdFds))
        /\ SetFd(p, fd, <<dev, 0>>, FALSE)
    /\ UNCHANGED <<proc, used, refs, status, lost, opened>>

close_fd_Flags(p, fd) ==
    /\ Live(p)
    /\ fds[p][fd] # Empty
    /\ SetFd(p, fd, Empty, cloexec[p][fd])
    /\ Released(One(fds[p][fd]))
    /\ UNCHANGED <<proc, lost>>

close_fd(p, fd) ==
    /\ Live(p)
    /\ fds[p][fd] # Empty
    /\ SetFd(p, fd, Empty, FALSE)
    /\ Released(One(fds[p][fd]))
    /\ UNCHANGED <<proc, lost>>

(* dup_fd once the destination is known: what it held is released, then    *)
(* the target is retained; a target that is no longer in use leaves the    *)
(* destination empty.                                                      *)
DupTo(p, old, dest, c) ==
    LET target == fds[p][old]
        n == One(fds[p][dest])
        u == StillUsed(refs, used, n)
        kept == target \in Plain \/ Entry(target) \in u
    IN  /\ fds' = [fds EXCEPT ![p][dest] = IF kept THEN target ELSE Empty]
        /\ cloexec' = IF kept THEN [cloexec EXCEPT ![p][dest] = c] ELSE cloexec
        /\ refs' = Retain(Release(refs, used, n), u, One(target))
        /\ used' = u
        /\ status' = Clear(u)
        /\ UNCHANGED <<proc, lost, opened>>

dup_min(p, old, min, c) ==
    /\ Live(p)
    /\ fds[p][old] # Empty
    /\ \E dest \in Fds : IsFirst(dest, FreeFds(p, min)) /\ DupTo(p, old, dest, c)

dup_exact(p, old, new, c) ==
    /\ Live(p)
    /\ fds[p][old] # Empty
    /\ new # old
    /\ DupTo(p, old, new, c)

(* alloc_pipe, with the flags that pipe2 sets afterwards.                  *)
create_pipe_pair(p, c, flags) ==
    /\ Live(p)
    /\ \E i \in 0 .. MaxPipes - 1, r \in Fds, w \in Fds :
        /\ IsFirst(i, {j \in 0 .. MaxPipes - 1 : <<"Pipe", j>> \notin used})
        /\ IsFirst(r, FreeFds(p, StdFds))
        /\ IsFirst(w, FreeFds(p, StdFds) \ {r})
        /\ used' = used \cup {<<"Pipe", i>>}
        /\ refs' = [refs EXCEPT ![PipeRead(i)] = 1, ![PipeWrite(i)] = 1]
        /\ status' = [status EXCEPT ![PipeRead(i)] = flags, ![PipeWrite(i)] = flags]
        /\ fds' = [fds EXCEPT ![p][r] = PipeRead(i), ![p][w] = PipeWrite(i)]
        /\ cloexec' = [cloexec EXCEPT ![p][r] = c, ![p][w] = c]
    /\ UNCHANGED <<proc, lost, opened>>

(* F_SETFD.                                                                *)
set_cloexec(p, fd, c) ==
    /\ Live(p)
    /\ fds[p][fd] # Empty
    /\ cloexec' = [cloexec EXCEPT ![p][fd] = c]
    /\ UNCHANGED <<proc, fds, used, refs, status, lost, opened>>

(* F_SETFL stores the argument under FCNTL_STATUS_MASK; a device ignores   *)
(* it.                                                                     *)
set_status_flags(p, fd, arg) ==
    /\ Live(p)
    /\ fds[p][fd] \in Counted
    /\ Entry(fds[p][fd]) \in used
    /\ status' = [status EXCEPT ![fds[p][fd]] = arg \cap {"O_APPEND", "O_NONBLOCK"}]
    /\ UNCHANGED <<proc, fds, cloexec, used, refs, lost, opened>>

-----------------------------------------------------------------------------
(* Processes.                                                              *)

(* A record is stored in a slot whose task is gone; what the old record    *)
(* referred to is not released.                                            *)
Store(s, table, flags) ==
    /\ proc[s] \in {"none", "unrecorded", "zombie", "leaderless"}
    /\ proc' = [proc EXCEPT ![s] = "running"]
    /\ fds' = [fds EXCEPT ![s] = table]
    /\ cloexec' = [cloexec EXCEPT ![s] = flags]
    /\ lost' = [t \in Counted |-> lost[t] + CountIn(s)[t]]
    /\ \A t \in Counted : lost'[t] <= MaxLost

spawn_named(s) ==
    /\ Store(s, default_fds, NoFlags)
    /\ UNCHANGED <<used, refs, status, opened>>

fork_current(p, s) ==
    /\ Live(p)
    /\ proc[s] # "unrecorded"
    /\ Store(s, fds[p], cloexec[p])
    /\ refs' = Retain(refs, used, CountIn(p))
    /\ UNCHANGED <<used, status, opened>>

(* The leader's thread ends while others of its group run on.              *)
leader_exit(p) ==
    /\ proc[p] = "running"
    /\ proc' = [proc EXCEPT ![p] = "leaderless"]
    /\ UNCHANGED <<fds, cloexec, used, refs, status, lost, opened>>

(* The last thread, or the whole group: descriptors stay with the zombie.  *)
exit(p) ==
    /\ Live(p)
    /\ proc' = [proc EXCEPT ![p] = "zombie"]
    /\ UNCHANGED <<fds, cloexec, used, refs, status, lost, opened>>

reap_slot(s) ==
    /\ proc[s] = "zombie"
    /\ proc' = [proc EXCEPT ![s] = "none"]
    /\ fds' = [fds EXCEPT ![s] = NoFds]
    /\ cloexec' = [cloexec EXCEPT ![s] = NoFlags]
    /\ Released(CountIn(s))
    /\ UNCHANGED lost

Descriptors ==
    \E p \in Slots :
        \/ \E flags \in OpenFlags : open_file(p, flags) \/ open_unrecorded(p, flags)
        \/ \E d \in Devices : open_char_device(p, d)
        \/ \E fd \in Fds : close_fd(p, fd)
        \/ \E old \in Fds, min \in Fds, c \in CloexecArgs : dup_min(p, old, min, c)
        \/ \E old \in Fds, new \in Fds, c \in CloexecArgs : dup_exact(p, old, new, c)
        \/ \E c \in CloexecArgs, flags \in PipeFlags : create_pipe_pair(p, c, flags)
        \/ \E fd \in Fds, c \in CloexecArgs : set_cloexec(p, fd, c)
        \/ \E fd \in Fds, arg \in SetFlags : set_status_flags(p, fd, arg)

Processes ==
    \/ \E s \in Slots : spawn_named(s)
    \/ \E p \in Slots, s \in Slots : fork_current(p, s)
    \/ \E p \in Slots : leader_exit(p)
    \/ \E p \in Slots : exit(p)
    \/ \E s \in Slots : reap_slot(s)

Next == Descriptors \/ Processes

Spec == Init /\ [][Next]_vars

-----------------------------------------------------------------------------
(* Properties.                                                             *)

Holders(t) == {h \in Slots \X Fds : fds[h[1]][h[2]] = t}

(* Through open, dup, dup3, pipe, close, fork, exit and reap, the count of *)
(* an open file or of a pipe end is the number of descriptors that name    *)
(* it, plus the references whose record was overwritten; an entry is in    *)
(* use exactly while one of its counts is positive.                        *)
RefsAccounted ==
    /\ \A t \in Counted : refs[t] = Cardinality(Holders(t)) + lost[t]
    /\ \A e \in Entries :
        e \in used <=> \E t \in Counted : Entry(t) = e /\ refs[t] > 0

(* dup_fd, close_fd and reap_slot never leave FD_CLOEXEC on an empty       *)
(* descriptor, where the next open would have to find it.                  *)
EmptyHasNoFlags ==
    \A s \in Slots, fd \in Fds : fds[s][fd] = Empty => ~ cloexec[s][fd]

(* state.rs:38, "Number of file descriptors that reference this open-file  *)
(* description": refs is exactly that number.                              *)
RefsAreDescriptors ==
    \A t \in Opens : refs[t] = Cardinality(Holders(t))

(* What the check of read_file decides, (status_flags & O_ACCMODE) ==      *)
(* O_WRONLY: a file opened write-only is never readable.                   *)
WriteOnlyNeverReads ==
    \A t \in Opens : t \in used /\ "O_WRONLY" \in opened[t] => "O_WRONLY" \in status[t]
=============================================================================
