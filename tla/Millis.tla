------------------------------- MODULE Millis -------------------------------
(***************************************************************************)
(* The millisecond clock every component is given, millis() in uint32_t,   *)
(* and kart::RateLimiter, which is built on it.  ClockMod is 2^32 in the   *)
(* code; all intervals are unsigned differences.                           *)
(***************************************************************************)
EXTENDS Integers

CONSTANTS ClockMod

ASSUME ClockAssumption == ClockMod \in Nat \ {0}

Instant == 0 .. ClockMod - 1

\* now - last in uint32_t arithmetic.
Elapsed(now, last) == (now - last) % ClockMod

After(now, d) == (now + d) % ClockMod

\* A RateLimiter: primed_ and lastMs_.
Limiters == [primed : BOOLEAN, last : Instant]

\* RateLimiter::reset.
Unprimed == [primed |-> FALSE, last |-> 0]

\* The condition under which tryAcquire succeeds, and the limiter after that.
\* A refusal leaves the limiter as it was.
MayAcquire(l, interval, now) == l.primed => Elapsed(now, l.last) >= interval

Acquired(now) == [primed |-> TRUE, last |-> now]
=============================================================================
