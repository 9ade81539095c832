----------------------------- MODULE MCWaiting ------------------------------
(***************************************************************************)
(* Instances for TLC of the parts that something waits for: a pipe, the    *)
(* terminal, the clock and the lock that masks interrupts.  They share no  *)
(* state, so each behaviour runs one of them and leaves the others as they *)
(* start.                                                                  *)
(***************************************************************************)
EXTENDS Pipe

CONSTANTS b0, b1,     \* values of a byte in a pipe
          Sleepers, Lockers

VARIABLES
    part,                                                           \* the one that runs
    shift, caps_lock, cooked, head, tail, line, count,
    copied, down, unread, behind,                                   \* Tty
    ticks, st, start, wait, rem_ok, until,                          \* Clock
    current, irq, syscall, held, at, was, before                    \* IrqLock

(* Lines of two characters, letters and blanks.                             *)
Lines == INSTANCE Tty WITH
    Codes <- {30, 57, 28, 14}, COOKED_CAPACITY <- 3, LINE_CAPACITY <- 2, MaxCount <- 3

(* All kinds of keys, both shift keys among them.                          *)
Keys == INSTANCE Tty WITH
    Codes <- {1, 2, 14, 28, 30, 42, 54, 57, 58}, COOKED_CAPACITY <- 2, LINE_CAPACITY <- 1,
    MaxCount <- 1

(* Two ticks in a second, words in which seven seconds saturate.           *)
Clock == INSTANCE Clock WITH
    Tasks <- Sleepers, W <- 5, NANOS_PER_SEC <- 4, PIT_HZ <- 2, Secs <- {0, 1, 7},
    Nsecs <- {1, 4}, MaxTicks <- 6

Lock == INSTANCE IrqLock WITH Tasks <- Lockers, pc <- at

ASSUME WaitingAssumption ==
    /\ Lines!TtyAssumption /\ Keys!TtyAssumption /\ Clock!ClockAssumption

-----------------------------------------------------------------------------
tty == <<shift, caps_lock, cooked, head, tail, line, count, copied, down, unread, behind>>
time == <<ticks, st, start, wait, rem_ok, until>>
cpu == <<current, irq, syscall, held, at, was, before>>
all == <<part, pipe, loop, answer, tty, time, cpu>>

MCInit ==
    /\ part \in {"pipe", "lines", "keys", "clock", "lock"}
    /\ Init
    /\ IF part = "keys" THEN Keys!Init ELSE Lines!Init
    /\ Clock!Init
    /\ Lock!Init
    /\ part # "lock" => current = CHOOSE t \in Lockers : TRUE

Pipes(A) == part = "pipe" /\ A /\ UNCHANGED <<part, tty, time, cpu>>
Typing(p, A) == part = p /\ A /\ UNCHANGED <<part, pipe, loop, answer, time, cpu>>
Sleeping(A) == part = "clock" /\ A /\ UNCHANGED <<part, pipe, loop, answer, tty, cpu>>
Locking(A) == part = "lock" /\ A /\ UNCHANGED <<part, pipe, loop, answer, tty, time>>

MCNext ==
    \/ Pipes(Next)
    \/ Typing("lines", Lines!Next) \/ Typing("keys", Keys!Next)
    \/ Sleeping(Clock!Next)
    \/ Locking(Lock!Next)

(* The fairness of the modules.                                            *)
MCFairness ==
    /\ WF_all(Pipes(WriteByte)) /\ WF_all(Pipes(WriteReturns))
    /\ WF_all(Pipes(ReadByte)) /\ WF_all(Pipes(ReadReturns))
    /\ WF_all(Typing("lines", Lines!ReadLooks))
    /\ WF_all(Sleeping(Clock!tick))
    /\ \A t \in Sleepers : WF_all(Sleeping(Clock!wakes(t)))
    /\ \A t \in Lockers : /\ SF_all(Locking(Lock!Switch(t)))
                          /\ SF_all(Locking(Lock!Step(t)))
                          /\ SF_all(Locking(Lock!sysret(t)))

MCSpec == MCInit /\ [][MCNext]_all /\ MCFairness

-----------------------------------------------------------------------------
(* The properties of the modules, which explain them, with their type      *)
(* invariants; ImplementsQueue of Pipe is taken as it is.                  *)

(* What reads return: from a pipe at least one byte, unless it is the end  *)
(* of file (fd_pipe.rs); from the terminal exactly what was typed and      *)
(* entered, unless the reader was once too far behind, and never more than *)
(* one line (tty.rs), with the shift state on only while a shift key is    *)
(* down (ps2.rs).                                                          *)
ReadsRight ==
    /\ ReadIsNotEmpty
    /\ part = "lines" => Lines!TypeOK /\ Lines!NothingLost /\ Lines!OneLine
    /\ part = "keys" => Keys!TypeOK /\ Keys!ShiftNotStuck

(* The loops of a pipe's read and write end, and a reader of the terminal  *)
(* waits no longer once something was entered (fd_pipe.rs, tty.rs).        *)
ReadersReturn ==
    /\ LoopsEnd
    /\ (part = "lines" /\ count > 0 /\ Lines!Used > 0) ~> (count = 0)

(* sleep_timespec, clock_nanosleep: a sleep that returns 0 was long enough. *)
SleepLongEnough == part = "clock" => Clock!TypeOK /\ Clock!SleepLongEnough

(* sleep_yield: every sleep ends, if the time it asks for comes.           *)
SleepEnds == Clock!SleepEnds

(* SpinLock::lock: while a guard lives its task has the CPU with           *)
(* interrupts off, the lock is never found taken, and lock and drop leave  *)
(* the interrupt flag as it was.                                           *)
LockExcludes ==
    /\ [](Lock!GuardExcludesAll /\ Lock!NeverContended)
    /\ Lock!FlagRestored

(* SpinLock::lock: every caller gets its guard.                            *)
LockObtained == Lock!LockObtained
=============================================================================
