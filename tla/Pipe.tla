-------------------------------- MODULE Pipe --------------------------------
(***************************************************************************)
(* The ring of one pipe, proc/fd_pipe.rs: its loops byte by byte, and the  *)
(* counts of its two ends as dup, fork, close and reap move them.          *)
(*                                                                         *)
(* A system call is not preempted, so pc is the place of the one call that *)
(* is in progress.  A read that finds the pipe empty while a writer is     *)
(* left waits in wait_for_event with IN_SYSCALL set: nothing else runs and *)
(* it waits for ever (run scheduler_pipe_read), which is pc = "blocked".   *)
(***************************************************************************)
EXTENDS Integers, Sequences

CONSTANTS
    Bytes,       \* the values of a byte
    Capacity,    \* PIPE_CAPACITY
    MaxRefs,     \* bound: references to one end
    MaxRequest   \* bound: the length of a read or of a write

ASSUME PipeAssumption ==
    /\ Bytes # {} /\ Capacity \in Nat \ {0}
    /\ MaxRefs \in Nat \ {0} /\ MaxRequest \in Nat

VARIABLES
    in_use, buf, read_pos, write_pos, len, read_refs, write_refs,
    pc,      \* idle, write, read: inside a loop, blocked: waiting for ever
    left,    \* bytes that the loop still wants
    got,     \* whether the read has taken a byte
    answer   \* history: the last byte that a read returned, or "eof"

ring == <<buf, read_pos, write_pos, len>>
pipe == <<in_use, ring, read_refs, write_refs>>
loop == <<pc, left, got>>
vars == <<pipe, loop, answer>>

Zero == CHOOSE b \in Bytes : TRUE

TypeOK ==
    /\ in_use \in BOOLEAN
    /\ buf \in [0 .. Capacity - 1 -> Bytes]
    /\ read_pos \in 0 .. Capacity - 1 /\ write_pos \in 0 .. Capacity - 1
    /\ len \in 0 .. Capacity
    /\ read_refs \in 0 .. MaxRefs /\ write_refs \in 0 .. MaxRefs
    /\ pc \in {"idle", "write", "read", "blocked"}
    /\ left \in 0 .. MaxRequest /\ got \in BOOLEAN
    /\ answer \in Bytes \cup {"none", "eof"}

(* Pipe::empty and Pipe::new differ in the counts and in in_use.           *)
Fresh(n) ==
    /\ buf' = [i \in 0 .. Capacity - 1 |-> Zero]
    /\ read_pos' = 0 /\ write_pos' = 0 /\ len' = 0
    /\ read_refs' = n /\ write_refs' = n
    /\ in_use' = (n > 0)

Init ==
    /\ buf = [i \in 0 .. Capacity - 1 |-> Zero]
    /\ read_pos = 0 /\ write_pos = 0 /\ len = 0
    /\ read_refs = 0 /\ write_refs = 0 /\ in_use = FALSE
    /\ pc = "idle" /\ left = 0 /\ got = FALSE /\ answer = "none"

alloc ==
    /\ pc = "idle" /\ ~ in_use
    /\ Fresh(1)
    /\ UNCHANGED <<loop, answer>>

retain_read ==
    /\ pc = "idle" /\ in_use /\ read_refs \in 1 .. MaxRefs - 1
    /\ read_refs' = read_refs + 1
    /\ UNCHANGED <<in_use, ring, write_refs, loop, answer>>

retain_write ==
    /\ pc = "idle" /\ in_use /\ write_refs \in 1 .. MaxRefs - 1
    /\ write_refs' = write_refs + 1
    /\ UNCHANGED <<in_use, ring, read_refs, loop, answer>>

release_read ==
    /\ pc = "idle" /\ in_use /\ read_refs > 0
    /\ IF read_refs = 1 /\ write_refs = 0
       THEN Fresh(0)
       ELSE read_refs' = read_refs - 1 /\ UNCHANGED <<in_use, ring, write_refs>>
    /\ UNCHANGED <<loop, answer>>

release_write ==
    /\ pc = "idle" /\ in_use /\ write_refs > 0
    /\ IF write_refs = 1 /\ read_refs = 0
       THEN Fresh(0)
       ELSE write_refs' = write_refs - 1 /\ UNCHANGED <<in_use, ring, read_refs>>
    /\ UNCHANGED <<loop, answer>>

(* write by a holder of the writing end; without readers it returns 0.     *)
write ==
    /\ pc = "idle" /\ in_use /\ write_refs > 0 /\ read_refs > 0
    /\ left' \in 1 .. MaxRequest
    /\ pc' = "write"
    /\ UNCHANGED <<pipe, got, answer>>

WriteByte_Full ==
    /\ pc = "write" /\ left > 0 /\ len <= Capacity
    /\ \E b \in Bytes : buf' = [buf EXCEPT ![write_pos] = b]
    /\ write_pos' = (write_pos + 1) % Capacity
    /\ len' = len + 1
    /\ left' = left - 1
    /\ UNCHANGED <<in_use, read_pos, read_refs, write_refs, pc, got, answer>>

WriteByte ==
    /\ pc = "write" /\ left > 0 /\ len < Capacity
    /\ \E b \in Bytes : buf' = [buf EXCEPT ![write_pos] = b]
    /\ write_pos' = (write_pos + 1) % Capacity
    /\ len' = len + 1
    /\ left' = left - 1
    /\ UNCHANGED <<in_use, read_pos, read_refs, write_refs, pc, got, answer>>

(* A full pipe ends the loop early: the write is short, and does not wait. *)
WriteReturns_All ==
    /\ pc = "write" /\ left = 0
    /\ pc' = "idle" /\ left' = 0
    /\ UNCHANGED <<pipe, got, answer>>

WriteReturns ==
    /\ pc = "write" /\ (left = 0 \/ len = Capacity)
    /\ pc' = "idle" /\ left' = 0
    /\ UNCHANGED <<pipe, got, answer>>

(* read by a holder of the reading end: bytes, end of file, or the wait.   *)
read_EofFirst ==
    /\ pc = "idle" /\ in_use /\ read_refs > 0
    /\ \/ /\ len > 0 /\ write_refs > 0
          /\ pc' = "read" /\ left' \in 1 .. MaxRequest /\ got' = FALSE
          /\ UNCHANGED answer
       \/ /\ write_refs = 0
          /\ answer' = "eof" /\ UNCHANGED loop
       \/ /\ len = 0 /\ write_refs > 0
          /\ pc' = "blocked" /\ UNCHANGED <<left, got, answer>>
    /\ UNCHANGED pipe

read_Unchecked ==
    /\ pc = "idle" /\ in_use /\ read_refs > 0
    /\ \/ /\ len > 0 \/ write_refs > 0
          /\ pc' = "read" /\ left' \in 1 .. MaxRequest /\ got' = FALSE
          /\ UNCHANGED answer
       \/ /\ len = 0 /\ write_refs = 0
          /\ answer' = "eof" /\ UNCHANGED loop
    /\ UNCHANGED pipe

read ==
    /\ pc = "idle" /\ in_use /\ read_refs > 0
    /\ \/ /\ len > 0
          /\ pc' = "read" /\ left' \in 1 .. MaxRequest /\ got' = FALSE
          /\ UNCHANGED answer
       \/ /\ len = 0 /\ write_refs = 0
          /\ answer' = "eof" /\ UNCHANGED loop
       \/ /\ len = 0 /\ write_refs > 0
          /\ pc' = "blocked" /\ UNCHANGED <<left, got, answer>>
    /\ UNCHANGED pipe

ReadByte ==
    /\ pc = "read" /\ left > 0 /\ len > 0
    /\ answer' = buf[read_pos]
    /\ read_pos' = (read_pos + 1) % Capacity
    /\ len' = len - 1
    /\ left' = left - 1 /\ got' = TRUE
    /\ UNCHANGED <<in_use, buf, write_pos, read_refs, write_refs, pc>>

ReadReturns ==
    /\ pc = "read" /\ (left = 0 \/ len = 0)
    /\ pc' = "idle" /\ left' = 0 /\ got' = FALSE
    /\ UNCHANGED <<pipe, answer>>

Next ==
    \/ alloc \/ retain_read \/ retain_write \/ release_read \/ release_write
    \/ write \/ WriteByte \/ WriteReturns
    \/ read \/ ReadByte \/ ReadReturns

Fairness == WF_vars(WriteByte) /\ WF_vars(WriteReturns) /\ WF_vars(ReadByte) /\ WF_vars(ReadReturns)

Spec == Init /\ [][Next]_vars /\ Fairness

-----------------------------------------------------------------------------
(* Properties.                                                             *)

Queue == [i \in 1 .. len |-> buf[(read_pos + i - 1) % Capacity]]

PQ == INSTANCE PipeQueue WITH
        open <- in_use, queue <- Queue, readers <- read_refs, writers <- write_refs

(* The ring with its two positions and its length, through every mix of    *)
(* short writes, partial reads, closes and reuse of the pipe, is a bounded *)
(* first-in first-out queue: no byte is lost, repeated or reordered, end   *)
(* of file comes only after the last byte, and a pipe taken again starts   *)
(* empty.                                                                  *)
ImplementsQueue == PQ!Spec

(* A read that has entered its loop returns at least one byte: 0 always    *)
(* means end of file to the caller.                                        *)
ReadIsNotEmpty == pc = "read" /\ (left = 0 \/ len = 0) => got

(* The loops of read and write end, whatever the sizes and the fill.       *)
LoopsEnd == (pc \in {"read", "write"}) ~> (pc = "idle")
=============================================================================
