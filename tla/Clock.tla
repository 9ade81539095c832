------------------------------- MODULE Clock --------------------------------
(***************************************************************************)
(* Time as programs see it (syscall/time.rs, hw/pit.rs): the clock is the  *)
(* count of PIT ticks, and a sleep looks at it each time the scheduler     *)
(* comes back to the sleeper.  A u64 has W bits here, and a second has     *)
(* NANOS_PER_SEC units of time.                                            *)
(***************************************************************************)
EXTENDS Integers

CONSTANTS
    Tasks,
    W,              \* 64: bits of a word
    NANOS_PER_SEC,  \* units of time in a second
    PIT_HZ,         \* ticks in a second
    Secs, Nsecs,    \* fields of the timespecs that programs pass
    MaxTicks        \* bound: ticks

(* What is assumed of the constants.                                      *)
ClockAssumption ==
    /\ {W, PIT_HZ, NANOS_PER_SEC} \subseteq Nat \ {0}
    /\ NANOS_PER_SEC % PIT_HZ = 0 /\ MaxTicks \in Nat
    /\ Secs \subseteq Int /\ Nsecs \subseteq Int

VARIABLES
    ticks,    \* TICKS
    st,       \* "run", "sleep", or how the last sleep returned
    start,    \* sleep_yield: when it began
    wait,     \* sleep_yield: how many ticks it is for
    rem_ok,   \* whether the remaining time can be written back
    until     \* history: the time that was asked for, as an exact number

vars == <<ticks, st, start, wait, rem_ok, until>>

TypeOK ==
    /\ ticks \in 0 .. MaxTicks
    /\ st \in [Tasks -> {"run", "sleep", "ok", "invalid", "fault"}]
    /\ start \in [Tasks -> 0 .. MaxTicks] /\ wait \in [Tasks -> 0 .. 2 ^ W - 1]
    /\ rem_ok \in [Tasks -> BOOLEAN] /\ until \in [Tasks -> Int]

Init ==
    /\ ticks = 0 /\ st = [t \in Tasks |-> "run"]
    /\ start = [t \in Tasks |-> 0] /\ wait = [t \in Tasks |-> 0]
    /\ rem_ok = [t \in Tasks |-> TRUE] /\ until = [t \in Tasks |-> 0]

Saturated(x) == IF x < 2 ^ W THEN x ELSE 2 ^ W - 1

PerTick == NANOS_PER_SEC \div PIT_HZ

(* clock_gettime: the seconds and the rest, from the tick count.           *)
clock_gettime == [sec |-> ticks \div PIT_HZ, nsec |-> (ticks % PIT_HZ) * PerTick]

Nanos(ts) == ts.sec * NANOS_PER_SEC + ts.nsec

Valid(ts) == ts.sec >= 0 /\ ts.nsec >= 0 /\ ts.nsec < NANOS_PER_SEC

(* The ticks of a relative sleep, rounded up.                              *)
TicksFor_Down(ts) ==
    Saturated(Saturated(ts.sec * NANOS_PER_SEC) + ts.nsec) \div PerTick

TicksFor(ts) ==
    (Saturated(Saturated(ts.sec * NANOS_PER_SEC) + ts.nsec) + PerTick - 1) \div PerTick

Returns(t, how) == st' = [st EXCEPT ![t] = how] /\ UNCHANGED <<ticks, start, wait>>

sleep_yield(t, n) ==
    /\ st' = [st EXCEPT ![t] = "sleep"]
    /\ start' = [start EXCEPT ![t] = ticks]
    /\ wait' = [wait EXCEPT ![t] = n]
    /\ UNCHANGED ticks

(* nanosleep, or clock_nanosleep without flags.                            *)
nanosleep(t, ts, ok) ==
    /\ st[t] # "sleep"
    /\ rem_ok' = [rem_ok EXCEPT ![t] = ok]
    /\ until' = [until EXCEPT ![t] = Nanos(clock_gettime) + Nanos(ts)]
    /\ IF Valid(ts) THEN sleep_yield(t, TicksFor(ts)) ELSE Returns(t, "invalid")

(* clock_nanosleep with TIMER_ABSTIME: what is left until then, as a u64.  *)
clock_nanosleep(t, ts, ok) ==
    /\ st[t] # "sleep"
    /\ rem_ok' = [rem_ok EXCEPT ![t] = ok]
    /\ until' = [until EXCEPT ![t] = Nanos(ts)]
    /\ LET delta == (Nanos(ts) - Nanos(clock_gettime)) % 2 ^ W IN
       \/ ~ Valid(ts) /\ Returns(t, "invalid")
       \/ Valid(ts) /\ Nanos(ts) <= Nanos(clock_gettime) /\ Returns(t, IF ok THEN "ok" ELSE "fault")
       \/ /\ Valid(ts) /\ Nanos(ts) > Nanos(clock_gettime)
          /\ sleep_yield(t, TicksFor([sec |-> delta \div NANOS_PER_SEC, nsec |-> delta % NANOS_PER_SEC]))

(* The call sleep, which counts ticks (sleep_ticks).                       *)
sleep_ticks(t, n) ==
    /\ st[t] # "sleep"
    /\ rem_ok' = [rem_ok EXCEPT ![t] = TRUE]
    /\ until' = [until EXCEPT ![t] = Nanos(clock_gettime) + n * PerTick]
    /\ sleep_yield(t, n)

(* A turn of the loop of sleep_yield: the sleeper is scheduled and the     *)
(* time is over.  Otherwise it yields again.                               *)
wakes_Late(t) ==
    /\ st[t] = "sleep" /\ ticks - start[t] = wait[t]
    /\ Returns(t, IF rem_ok[t] THEN "ok" ELSE "fault")
    /\ UNCHANGED <<rem_ok, until>>

wakes(t) ==
    /\ st[t] = "sleep" /\ ticks - start[t] >= wait[t]
    /\ Returns(t, IF rem_ok[t] THEN "ok" ELSE "fault")
    /\ UNCHANGED <<rem_ok, until>>

tick == ticks < MaxTicks /\ ticks' = ticks + 1 /\ UNCHANGED <<st, start, wait, rem_ok, until>>

Next ==
    \/ tick
    \/ \E t \in Tasks :
        \/ wakes(t)
        \/ \E s \in Secs, n \in Nsecs, ok \in BOOLEAN :
            nanosleep(t, [sec |-> s, nsec |-> n], ok) \/ clock_nanosleep(t, [sec |-> s, nsec |-> n], ok)
        \/ \E n \in Nsecs : n >= 0 /\ sleep_ticks(t, n)

Spec == Init /\ [][Next]_vars

(* The PIT goes on ticking, and the scheduler comes back to every task.    *)
FairSpec == Spec /\ WF_vars(tick) /\ \A t \in Tasks : WF_vars(wakes(t))

-----------------------------------------------------------------------------
(* A sleep that returns 0 returns at the time it was asked for or later,   *)
(* and not before, as clock_gettime tells it: relative, absolute or in     *)
(* ticks, whatever the rounding (sleep_timespec, clock_nanosleep).         *)
SleepLongEnough == \A t \in Tasks : st[t] = "ok" => Nanos(clock_gettime) >= until[t]

(* Every sleep ends, if the time it asks for comes: the sleeper need not   *)
(* be scheduled in the very tick that ends its sleep (sleep_yield).        *)
SleepEnds ==
    \A t \in Tasks : (st[t] = "sleep" /\ start[t] + wait[t] <= MaxTicks) ~> st[t] # "sleep"
=============================================================================
