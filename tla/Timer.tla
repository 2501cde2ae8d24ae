-------------------------------- MODULE Timer --------------------------------
(***************************************************************************)
(* The interval timer of include/mx/timer.h, as the stream decorators use  *)
(* it (always with TIMER_SEC).                                             *)
(*                                                                         *)
(* The code keeps (start, interval) and reads a global seconds clock:      *)
(*     expired  <=>  interval # 0 /\ now - start >= interval               *)
(* Modules that compose timers do not keep the clock.  They keep, per      *)
(* timer, the interval and the time still to run,                          *)
(*     remaining = IF now - start < interval THEN interval-(now-start)     *)
(*                 ELSE 0           (timer_remaining)                      *)
(* and one Elapse step per second of the clock.  This is the same          *)
(* predicate on every state, and it keeps the state space finite without   *)
(* bounding the clock.                                                     *)
(***************************************************************************)
EXTENDS Naturals

TimerRec == [interval : Nat, remaining : Nat]

\* timer_stop: interval = 0 means "not running".
TimerStop == [interval |-> 0, remaining |-> 0]

\* timer_start(t, TIMER_SEC, interval): start = now.
TimerStart(interval) == [interval |-> interval, remaining |-> interval]

\* timer_restart: start = now, same interval.
TimerRestart(t) == [t EXCEPT !.remaining = t.interval]

\* timer_running
TimerRunning(t) == t.interval # 0

\* timer_expired: running and now - start >= interval.
TimerExpired(t) == t.interval # 0 /\ t.remaining = 0

\* One second of clock_s passes (clock_update / clock_update_sys).
TimerElapse(t) == IF t.remaining > 0 THEN [t EXCEPT !.remaining = @ - 1] ELSE t

==============================================================================
