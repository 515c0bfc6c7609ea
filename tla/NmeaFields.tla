----------------------------- MODULE NmeaFields -----------------------------
(***************************************************************************)
(* What nmea.cpp's field parsers read from the fields of a sentence.  A    *)
(* field is a decimal numeral: a sign, digits and decimals, each perhaps   *)
(* none.  A parser returns a record whose "ok" says whether it accepted.   *)
(***************************************************************************)
EXTENDS Rounding, SequencesExt

Digit == 0 .. 9

\* The characters of a field.
FieldLength(f) ==
  (IF f.negative THEN 1 ELSE 0) + Len(f.whole)
  + (IF f.decimals = <<>> THEN 0 ELSE 1 + Len(f.decimals))

Numeral(digits) == FoldLeft(LAMBDA n, d : 10 * n + d, 0, digits)

\* splitDecimal: at most nine decimals are read, the rest are dropped.
KeptDecimals(f) == SubSeq(f.decimals, 1, IF Len(f.decimals) < 9 THEN Len(f.decimals) ELSE 9)
IsNumber(f) == f.whole \o f.decimals # <<>> /\ Len(f.whole) <= 18

\* Faulty variant of RescaleFraction: the digits as they stand.
RescaleNothing(fraction, digits, target) == fraction

\* rescaleFraction: a fraction of so many digits, to the target's number.
RescaleFraction(fraction, digits, target) ==
  IF digits <= target
  THEN fraction * 10 ^ (target - digits)
  ELSE LET divisor == 10 ^ (digits - target) IN (fraction + divisor \div 2) \div divisor

Fraction(f, target) ==
  RescaleFraction(Numeral(KeptDecimals(f)), Len(KeptDecimals(f)), target)

Refused == [ok |-> FALSE, value |-> 0]
Read(n) == [ok |-> TRUE, value |-> n]
Negated(f, n) == IF f.negative THEN -n ELSE n

\* parseUnsigned.
ParseUnsigned(f) ==
  IF ~f.negative /\ f.decimals = <<>> /\ Len(f.whole) \in 1 .. 10
  THEN Read(Numeral(f.whole)) ELSE Refused

\* parseNumber, in thousandths.
ParseNumber(f) ==
  IF IsNumber(f) THEN Read(Negated(f, Numeral(f.whole) * 1000 + Fraction(f, 3))) ELSE Refused

SignOf(hemisphere) == IF hemisphere \in {"S", "W"} THEN -1 ELSE 1

\* parseCoordinate: degrees and minutes to degrees times 10^7.
ParseCoordinate(f, hemisphere) ==
  LET degrees == Numeral(f.whole) \div 100
      minutes == Numeral(f.whole) % 100
      total == degrees * 10000000 + (minutes * 10000000 + Fraction(f, 7) + 30) \div 60
  IN  IF /\ FieldLength(f) >= 3 /\ IsNumber(f) /\ ~f.negative
         /\ minutes < 60 /\ degrees <= 180
         /\ hemisphere \in {"N", "E", "S", "W"} /\ total <= 1800000000
      THEN Read(SignOf(hemisphere) * total) ELSE Refused

\* A leap second reads as 60 and is taken for 59.
Second(n) == Clamp(n % 100, 0, 59)

NoTimeOfDay == [ok |-> FALSE, hour |-> 0, minute |-> 0, second |-> 0, millisecond |-> 0]

\* parseTimeOfDay.
ParseTimeOfDay(f) ==
  LET n == Numeral(f.whole)
  IN  IF /\ FieldLength(f) >= 6 /\ IsNumber(f) /\ ~f.negative /\ n <= 235960
         /\ n \div 10000 <= 23 /\ (n \div 100) % 100 <= 59 /\ n % 100 <= 60
      THEN [ok |-> TRUE, hour |-> n \div 10000, minute |-> (n \div 100) % 100,
            second |-> Second(n), millisecond |-> Clamp(Fraction(f, 3), 0, 999)]
      ELSE NoTimeOfDay

NoDateRead == [ok |-> FALSE, year |-> 0, month |-> 0, day |-> 0]

\* parseDate.
ParseDate(f) ==
  LET n == ParseUnsigned(f).value
      day == n \div 10000
      month == (n \div 100) % 100
  IN  IF FieldLength(f) = 6 /\ ParseUnsigned(f).ok /\ day \in 1 .. 31 /\ month \in 1 .. 12
      THEN [ok |-> TRUE, year |-> 2000 + (n % 100), month |-> month, day |-> day]
      ELSE NoDateRead

\* consume: knots, in thousandths, to millionths of km/h.
KnotsToKph(n) == n * 1852

-----------------------------------------------------------------------------
\* The receiver's side (external): a field left empty, and a number written with so
\* many digits and decimals.
EmptyField == [negative |-> FALSE, whole |-> <<>>, decimals |-> <<>>]
Digits(n, width) == [i \in 1 .. width |-> (n \div 10 ^ (width - i)) % 10]
Written(n, width, places) ==
  [negative |-> n < 0, whole |-> Digits(Magnitude(n) \div 10 ^ places, width),
   decimals |-> Digits(Magnitude(n) % 10 ^ places, places)]
=============================================================================
