-------------------------------- MODULE Timer --------------------------------
(***************************************************************************)
(* The timer library, timer.cpp, over a clock that wraps around.           *)
(*                                                                         *)
(* A timer is the moment it was started and its interval, both of the      *)
(* clock's unsigned type, so that every sum and difference is taken        *)
(* modulo ClockMod.                                                        *)
(***************************************************************************)
EXTENDS Integers

CONSTANT
    ClockMod    \* clock_time_t is an unsigned long: 2^32

ASSUME ClockAssumption == ClockMod \in Nat \ {0, 1}

Moments == 0 .. ClockMod - 1

Timers == [start : Moments, interval : Moments]

\* Unsigned addition and subtraction of two moments.
Plus(a, b) == IF a + b >= ClockMod THEN a + b - ClockMod ELSE a + b

Minus(a, b) == IF a >= b THEN a - b ELSE a - b + ClockMod

TimerSet(interval, clock) == [start |-> clock, interval |-> interval]

\* Mutant: the next interval starts at the time of the call.
TimerResetNow(t, clock) == [t EXCEPT !.start = clock]

\* The next interval starts when this one ended, whatever the clock says now.
TimerReset(t, clock) == [t EXCEPT !.start = Plus(t.start, t.interval)]

\* Mutant: the moments are compared, not their difference.
TimerExpiredByMoment(t, clock) == t.start + t.interval <= clock

\* Mutant: a timer is due one tick early.
TimerExpiredEarly(t, clock) == t.interval <= Plus(Minus(clock, t.start), 1)

\* The code adds one to the difference rather than test for "at least".
TimerExpired(t, clock) == t.interval < Plus(Minus(clock, t.start), 1)

=============================================================================
