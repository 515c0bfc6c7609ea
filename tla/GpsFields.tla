----------------------------- MODULE GpsFields -----------------------------
(***************************************************************************)
(* The fields of RaceChrono's GPS packets, as rc::GpsEncoder fills them    *)
(* in, and what the app reads from them (external; from the layout that    *)
(* rc_protocol.h gives).  Altitudes are in millimetres, speeds in          *)
(* millionths of km/h, bearings and dilutions in thousandths.  Of a value  *)
(* that is not valid the packet holds the specification's sentinel, which  *)
(* the app reads as no value at all.                                       *)
(***************************************************************************)
EXTENDS Rounding

CONSTANT Unknown        \* what the app has in place of a value it is not given

ASSUME UnknownAssumption == Unknown \notin Int

InvalidCoordinate == 2147483647
InvalidAltitude == 65535
InvalidSpeed == 65535
InvalidBearing == 65535
InvalidDop == 255
InvalidSatellites == 63

FineAltitudeCeiling == 2776700
CoarseAltitudeCeiling == 32267000
AltitudeFloor == -500000
FineSpeedCeiling == 327670000

FifteenBits == 32767
Coarse(n) == (n % 32768) + 32768

EncodeTimeSinceHourStart(minute, second, millisecond) ==
  Clamp(minute, 0, 59) * 30000 + Clamp(second, 0, 59) * 500 + Clamp(millisecond, 0, 999) \div 2

NoDate == -1

\* Faulty variant of EncodeDateAndHour: months are counted from one.
EncodeDateAndHourOneBased(year, month, day, hour) ==
  IF year < 2000 \/ month \notin 1 .. 12 \/ day \notin 1 .. 31 \/ hour > 23
  THEN NoDate
  ELSE (year - 2000) * 8928 + month * 744 + (day - 1) * 24 + hour

EncodeDateAndHour(year, month, day, hour) ==
  IF year < 2000 \/ month \notin 1 .. 12 \/ day \notin 1 .. 31 \/ hour > 23
  THEN NoDate
  ELSE (year - 2000) * 8928 + (month - 1) * 744 + (day - 1) * 24 + hour

\* Faulty variant of EncodeAltitude: the coarse form counts from sea level.
EncodeAltitudeUnshifted(mm, valid) ==
  IF ~valid THEN InvalidAltitude
  ELSE IF mm <= FineAltitudeCeiling
  THEN RoundClamp(mm - AltitudeFloor, 100, 0, FifteenBits)
  ELSE Coarse(RoundClamp(mm, 1000, 0, FifteenBits))

\* The highest coarse altitude, all ones, is InvalidAltitude too.
EncodeAltitude(mm, valid) ==
  IF ~valid THEN InvalidAltitude
  ELSE IF mm <= FineAltitudeCeiling
  THEN RoundClamp(mm - AltitudeFloor, 100, 0, FifteenBits)
  ELSE Coarse(RoundClamp(mm - AltitudeFloor, 1000, 0,
                         (CoarseAltitudeCeiling - AltitudeFloor) \div 1000))

\* Faulty variant of EncodeSpeed: the fine form is left one unit too late.
EncodeSpeedLate(v, valid) ==
  IF ~valid THEN InvalidSpeed
  ELSE IF v < FineSpeedCeiling + 10000
  THEN RoundClamp(v, 10000, 0, 2 * FifteenBits) % 32768
  ELSE Coarse(RoundClamp(v, 100000, 0, FifteenBits))

\* So is the highest coarse speed.
EncodeSpeed(v, valid) ==
  IF ~valid THEN InvalidSpeed
  ELSE IF v <= FineSpeedCeiling
  THEN RoundClamp(v, 10000, 0, FifteenBits)
  ELSE Coarse(RoundClamp(v, 100000, 0, FifteenBits))

EncodeBearing(d, valid) ==
  IF ~valid THEN InvalidBearing ELSE RoundClamp(d % 360000, 10, 0, 35999)

EncodeDop(d, valid) ==
  IF ~valid \/ d < 0 THEN InvalidDop ELSE RoundClamp(d, 100, 0, InvalidDop - 1)

\* One byte: two bits of quality, six of satellites.
EncodeQuality(quality, satellites, valid) ==
  64 * Clamp(quality, 0, 3) + (IF valid THEN Clamp(satellites, 0, 62) ELSE InvalidSatellites)

-----------------------------------------------------------------------------
\* The app's side.
ShownMillisecond(t) == 2 * t
ShownHour(d) ==
  [year |-> 2000 + d \div 8928, month |-> ((d % 8928) \div 744) + 1, day |-> ((d % 744) \div 24) + 1,
   hour |-> d % 24]
ShownAltitude(a) ==
  IF a = InvalidAltitude THEN Unknown
  ELSE AltitudeFloor + (IF a >= 32768 THEN (a - 32768) * 1000 ELSE a * 100)
ShownSpeed(s) ==
  IF s = InvalidSpeed THEN Unknown
  ELSE IF s >= 32768 THEN (s - 32768) * 100000 ELSE s * 10000
ShownBearing(b) == IF b = InvalidBearing THEN Unknown ELSE b * 10
ShownDop(d) == IF d = InvalidDop THEN Unknown ELSE d * 100
ShownQuality(b) ==
  [quality |-> b \div 64, satellites |-> IF b % 64 = InvalidSatellites THEN Unknown ELSE b % 64]
=============================================================================
