--------------------------- MODULE FrameAllocator ---------------------------
(***************************************************************************)
(* What mem/pmm.rs promises to its callers: a set of free frames, from     *)
(* which a request for n frames takes n consecutive ones, at once, or is   *)
(* refused when there are none.                                            *)
(***************************************************************************)
EXTENDS Naturals

CONSTANTS
    Usable,    \* the frames that the machine has to give out
    MaxCount   \* the largest request

VARIABLES
    up,        \* init has run
    free,      \* the free frames
    owned,     \* the frames that callers hold
    reply      \* the last request and the first frame of the answer, 0 if refused

vars == <<up, free, owned, reply>>

Run(s, n) == s .. s + n - 1

NoReply == [count |-> 0, frame |-> 0]

Init ==
    /\ up = FALSE
    /\ free = {}
    /\ owned = {}
    /\ reply = NoReply

Boot ==
    /\ ~up
    /\ up' = TRUE
    /\ free' = Usable
    /\ UNCHANGED <<owned, reply>>

Grant(n) ==
    /\ up
    /\ \E s \in free :
         /\ Run(s, n) \subseteq free
         /\ free' = free \ Run(s, n)
         /\ owned' = owned \cup Run(s, n)
         /\ reply' = [count |-> n, frame |-> s]
    /\ UNCHANGED up

Refuse(n) ==
    /\ up
    /\ n = 0 \/ \A s \in free : ~ (Run(s, n) \subseteq free)
    /\ reply' = [count |-> n, frame |-> 0]
    /\ UNCHANGED <<up, free, owned>>

Release(f) ==
    /\ up
    /\ f \in owned
    /\ owned' = owned \ {f}
    /\ free' = free \cup {f}
    /\ UNCHANGED <<up, reply>>

Next ==
    \/ Boot
    \/ \E n \in 1 .. MaxCount : Grant(n)
    \/ \E n \in 0 .. MaxCount : Refuse(n)
    \/ \E f \in owned : Release(f)

Spec == Init /\ [][Next]_vars
=============================================================================
