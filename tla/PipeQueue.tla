----------------------------- MODULE PipeQueue ------------------------------
(***************************************************************************)
(* What a pipe promises: a bounded first-in first-out queue of bytes with  *)
(* counted reading and writing ends.  A write without readers takes        *)
(* nothing; a read gets bytes in order, and end of file exactly when the   *)
(* queue is empty and no writer is left.                                   *)
(***************************************************************************)
EXTENDS Integers, Sequences

CONSTANTS Bytes, Capacity

VARIABLES open, queue, readers, writers, answer

pvars == <<open, queue, readers, writers, answer>>

Init == open = FALSE /\ queue = <<>> /\ readers = 0 /\ writers = 0 /\ answer = "none"

Create ==
    /\ ~ open
    /\ open' = TRUE /\ queue' = <<>> /\ readers' = 1 /\ writers' = 1
    /\ UNCHANGED answer

Put ==
    /\ open /\ readers > 0 /\ Len(queue) < Capacity
    /\ \E b \in Bytes : queue' = Append(queue, b)
    /\ UNCHANGED <<open, readers, writers, answer>>

Get ==
    /\ open /\ queue # <<>>
    /\ queue' = Tail(queue)
    /\ answer' = Head(queue)
    /\ UNCHANGED <<open, readers, writers>>

EndOfFile ==
    /\ open /\ queue = <<>> /\ writers = 0
    /\ answer' = "eof"
    /\ UNCHANGED <<open, queue, readers, writers>>

(* An end that is held gets another holder, or loses one.                  *)
Count ==
    /\ open
    /\ \/ readers > 0 /\ readers' \in {readers - 1, readers + 1} /\ writers' = writers
       \/ writers > 0 /\ writers' \in {writers - 1, writers + 1} /\ readers' = readers
    /\ \/ readers' + writers' > 0 /\ UNCHANGED <<open, queue>>
       \/ readers' + writers' = 0 /\ open' = FALSE /\ queue' = <<>>
    /\ UNCHANGED answer

Next == Create \/ Put \/ Get \/ EndOfFile \/ Count

Spec == Init /\ [][Next]_pvars
=============================================================================
