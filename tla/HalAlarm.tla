------------------------------ MODULE HalAlarm ------------------------------
(***************************************************************************)
(* The alarms of the HAL (alt_alarm_start.c, alt_tick.c): a counter of     *)
(* ticks, _alt_nticks, that wraps, and alarms that compare their time with *)
(* it.  rollover keeps an alarm silent until the counter has wrapped when  *)
(* its time lies beyond the wrap.                                          *)
(***************************************************************************)
EXTENDS Integers

CONSTANT TickMod                 \* 2^32 in the code

ASSUME TickModAssumption == TickMod \in Nat /\ TickMod > 2

Ticks == 0 .. TickMod - 1

Wrap(n) == n % TickMod           \* arithmetic of alt_u32

NextTick(now) == Wrap(now + 1)

alt_alarm_start(nticks, now) ==
    LET time == Wrap(nticks + now + 1) IN
    [time |-> time, rollover |-> time < now]

(* What a tick does to an alarm once the counter has become now: the wrap  *)
(* of the counter clears rollover, and the alarm is called when its time   *)
(* has come.                                                               *)
Unroll(a, now) == [a EXCEPT !.rollover = @ /\ now # 0]

Fires(a, now) == a.time <= now /\ ~Unroll(a, now).rollover

(* The callback's result, the ticks to its next call, moves the time.      *)
Rearm(a, now, next) ==
    LET time == Wrap(a.time + next) IN
    [time |-> time, rollover |-> time < now]

alt_tick(a, now, next) ==
    IF Fires(a, now) THEN Rearm(a, now, next) ELSE Unroll(a, now)

(* The alarm is to be called left ticks from now.                          *)
Due(a, now, left) ==
    /\ left \in 1 .. TickMod - 1
    /\ a.time = Wrap(now + left)
    /\ a.rollover = (now + left >= TickMod)
=============================================================================
