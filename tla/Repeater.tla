------------------------------- MODULE Repeater -------------------------------
(***************************************************************************)
(* The retry helper of source/repeater.c over the clock of source/timer.c *)
(* and the timer of include/mx/timer.h as the code keeps it: a timer is    *)
(* (start, interval, flags) read against the global clock counters        *)
(* clock_ms, clock_s and clock_chrono, which clock_update advances.  The   *)
(* back-off step is rand_time_increase of source/rand.c, with the value   *)
(* of rand() % (val/4 + 1) a parameter k in 0..val/4.                      *)
(*                                                                         *)
(* The abstract timer of module Timer, (interval, remaining) with one      *)
(* TimerElapse per second, is what the code's timers are shown to          *)
(* implement.  Counters stay far below the width of unsigned int and       *)
(* time_t here; the wrap of rand_time_increase is a hazard, not a check.   *)
(***************************************************************************)
EXTENDS Integers, Sequences, Bitwise, Timer

TIMER_MS == 0
TIMER_SEC == 1
TIMER_CHRONO == 2

\* The three counters, zero before the first update.
ClockInit == [ms |-> 0, s |-> 0, chrono |-> 0]

\* Mutant: the seconds counter advanced by ms / 1000, dropping the carry of
\* the milliseconds already counted.
ClockUpdateNoCarry(c, ms, chrono) ==
    [ms |-> c.ms + ms, s |-> c.s + ms \div 1000, chrono |-> chrono]

\* clock_update(ms, chrono): clock_s gains the seconds that the ms added
\* to clock_ms complete, clock_chrono is overwritten.
ClockUpdate(c, ms, chrono) ==
    [ms |-> c.ms + ms,
     s |-> IF ms # 0 THEN c.s + ((c.ms % 1000) + ms) \div 1000 ELSE c.s,
     chrono |-> chrono]

\* clock_get_chrono: clock_chrono once set, clock_s before.
ClockGetChrono(c) == IF c.chrono # 0 THEN c.chrono ELSE c.s

\* timer_tstamp without TIMER_UPDATE: the counter the flags select.
TStamp(c, flags) ==
    CASE (flags & TIMER_SEC) # 0 -> c.s
      [] (flags & TIMER_CHRONO) # 0 -> ClockGetChrono(c)
      [] OTHER -> c.ms

\* timer_stop
TimerStopped == [start |-> 0, interval |-> 0, flags |-> 0]

\* timer_start(t, flags, interval)
TimerStartOn(c, flags, interval) ==
    [start |-> TStamp(c, flags), interval |-> interval, flags |-> flags]

\* timer_value and timer_remaining
TimerValueOn(c, t) == TStamp(c, t.flags) - t.start
TimerRemainingOn(c, t) ==
    IF TimerValueOn(c, t) < t.interval THEN t.interval - TimerValueOn(c, t) ELSE 0

\* timer_expired
TimerExpiredOn(c, t) == t.interval # 0 /\ TimerValueOn(c, t) >= t.interval

-----------------------------------------------------------------------------
(* struct repeater                                                         *)

\* repeater_init: no attempts, no limit, a timeout of one second, stopped.
RepeaterInit == [counter |-> 0, limit |-> 0, timeout |-> 1, timer |-> TimerStopped]

\* repeater_reset
RepeaterReset(r) == [r EXCEPT !.counter = 0, !.timer = TimerStopped]

\* repeater_set_limit and repeater_set_timeout
RepeaterSetLimit(r, limit) == [r EXCEPT !.limit = limit]
RepeaterSetTimeout(r, timeout) == [r EXCEPT !.timeout = timeout]

\* repeater_is_exhausted: a limit is set and reached.
RepeaterIsExhausted(r) == r.limit > 0 /\ r.counter >= r.limit

\* repeater_is_waiting
RepeaterIsWaiting(c, r) == TimerRunning(r.timer) /\ ~TimerExpiredOn(c, r.timer)

\* repeater_mark_attempt (its result is repeater_is_exhausted after it).
RepeaterMarkAttempt(r) == [r EXCEPT !.counter = @ + 1]

\* repeater_wait: a seconds timer of the current timeout.
RepeaterWait(c, r) == [r EXCEPT !.timer = TimerStartOn(c, TIMER_SEC, r.timeout)]

\* repeater_postpone
RepeaterPostpone(c, r, timeout) == RepeaterWait(c, RepeaterSetTimeout(r, timeout))

\* Mutant: rand_time_increase without the final clamp to max.
RandTimeIncreaseNoClamp(val, max, k) ==
    LET tmp == val + (val + 2) \div 2
    IN IF max # 0 /\ val >= max THEN val
       ELSE IF tmp > 4 THEN tmp + k ELSE tmp

\* rand_time_increase(&val, max), the new val: unchanged when it is
\* already at or above max (the function returns max without storing it);
\* else grown by (val + 2) / 2 and, above 4, by k; clamped to max.
RandTimeIncrease(val, max, k) ==
    LET tmp == val + (val + 2) \div 2
        grown == IF tmp > 4 THEN tmp + k ELSE tmp
    IN CASE max # 0 /\ val >= max -> val
         [] max # 0 /\ grown >= max -> max
         [] OTHER -> grown

\* The values rand() % (val/4 + 1) takes.
RandChoices(val) == 0..(val \div 4)

\* repeater_back_off(max_timeout) with the random part k.
RepeaterBackOff(c, r, max, k) ==
    RepeaterWait(c, RepeaterSetTimeout(r, RandTimeIncrease(r.timeout, max, k)))

-----------------------------------------------------------------------------
(* Scripts of calls on one repeater, with the clock advanced between them *)
(* by clock_update as the test driver does, beside the abstract timer.    *)

RECURSIVE ElapseN(_, _)
ElapseN(t, n) == IF n = 0 THEN t ELSE ElapseN(TimerElapse(t), n - 1)

\* The abstract timer after ms more milliseconds: one TimerElapse per
\* whole second the milliseconds complete.
AbstractTick(t, ms0, ms) == ElapseN(t, (ms0 + ms) \div 1000 - ms0 \div 1000)

TickLengths == {400, 700, 1000}
PostponeTimeouts == {0, 2}
BackOffMax == 3

\* The worlds one call leads to: the code's clock and repeater, and the
\* abstract timer the repeater's timer should be.
Steps(w) ==
    {[w EXCEPT !.c = ClockUpdate(w.c, ms, 0), !.a = AbstractTick(w.a, w.c.ms, ms)] :
        ms \in TickLengths}
    \cup {[w EXCEPT !.r = RepeaterMarkAttempt(w.r)],
          [w EXCEPT !.r = RepeaterWait(w.c, w.r), !.a = TimerStart(w.r.timeout)],
          [w EXCEPT !.r = RepeaterReset(w.r), !.a = TimerStop],
          [w EXCEPT !.r = RepeaterSetLimit(w.r, 2)]}
    \cup {[w EXCEPT !.r = RepeaterPostpone(w.c, w.r, t), !.a = TimerStart(t)] :
            t \in PostponeTimeouts}
    \cup {LET r2 == RepeaterBackOff(w.c, w.r, BackOffMax, k)
          IN [w EXCEPT !.r = r2, !.a = TimerStart(r2.timeout)] : k \in RandChoices(w.r.timeout)}

\* In every world n calls or fewer from w: clock_s counts the whole seconds
\* of clock_ms, and the repeater's timer is running, waiting and has the
\* time remaining that the abstract timer says.
RECURSIVE TimerScripts(_, _)
TimerScripts(w, n) ==
    /\ w.c.s = w.c.ms \div 1000
    /\ TimerRunning(w.r.timer) = TimerRunning(w.a)
    /\ RepeaterIsWaiting(w.c, w.r) = (TimerRunning(w.a) /\ ~TimerExpired(w.a))
    /\ TimerRemainingOn(w.c, w.r.timer) = w.a.remaining
    /\ n > 0 => \A v \in Steps(w) : TimerScripts(v, n - 1)

RepeaterWorld == [c |-> ClockInit, r |-> RepeaterInit, a |-> TimerStop]

\* The extreme timeouts of successive back-offs without a maximum from 0:
\* rand() always 0, or always val / 4.
RECURSIVE Progress(_, _, _)
Progress(val, n, highest) ==
    IF n = 0 THEN <<>>
    ELSE LET next == RandTimeIncrease(val, 0, IF highest THEN val \div 4 ELSE 0)
         IN <<next>> \o Progress(next, n - 1, highest)

\* The table of the rand_time_increase comment (source/rand.c:93-95).
LowestProgress == <<1, 2, 4, 7, 11, 17, 26, 40, 61, 92, 139, 209, 314, 472>>
HighestProgress == <<1, 2, 4, 8, 15, 26, 46, 81, 142, 249, 436, 764, 1238, 2167>>

\* One back-off from val under max: never shorter, and, from below max,
\* never longer than max, whatever rand() gives.
BackOffBounded(val, max) ==
    \A k \in RandChoices(val) :
        LET next == RandTimeIncrease(val, max, k)
        IN next >= val /\ (max # 0 /\ val < max => next <= max)

=============================================================================
