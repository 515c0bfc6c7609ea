------------------------------ MODULE Rounding ------------------------------
(***************************************************************************)
(* How the encoders turn a float into the integer of a packet.  A float is *)
(* modelled by the rational it stands for, num / den; what the 24 bits of  *)
(* its significand lose is not modelled.                                   *)
(***************************************************************************)
EXTENDS Integers

Magnitude(n) == IF n < 0 THEN -n ELSE n

\* num / den to the nearest integer, halves away from zero; den is even.
Nearest(num, den) ==
  IF num >= 0 THEN (num + den \div 2) \div den ELSE -((den \div 2 - num) \div den)

Clamp(n, lo, hi) == IF n < lo THEN lo ELSE IF n > hi THEN hi ELSE n

\* roundClamp.
RoundClamp(num, den, lo, hi) == Clamp(Nearest(num, den), lo, hi)

\* saturateToInt16.
SaturateToInt16(num, den) == RoundClamp(num, den, -32768, 32767)
=============================================================================
