------------------------------ MODULE Readings ------------------------------
(***************************************************************************)
(* From what the receiver and the sensor measure to what the app shows:    *)
(* one measurement at a time goes through the parser, the encoder and the  *)
(* app's reading of the packet, and one configuration frame through the    *)
(* wire to the receiver.                                                   *)
(***************************************************************************)
EXTENDS GpsFields, NmeaFields, Channels, Characterizer, UbxFrames

CONSTANTS Coordinates,    \* [degrees, minutes in hundred-thousandths, hemisphere]
          Clocks,         \* [hour, minute, second, centisecond]
          Dates,          \* [year, month, day]
          Altitudes,      \* in tenths of a metre
          Speeds,         \* in thousandths of a knot
          Bearings, Dops, \* in hundredths
          Satellites, Temperatures,
          Sessions,       \* [start, age, presses]
          Rates,          \* requested sample rates, in hertz
          Mountings,      \* [up, forward, length, trim]: directions in the sensor's frame
          Poses, MaxPoses,    \* readings while the box is turned over, and how many
          SentenceIds, SentenceRates, \* NMEA sentences, and every how many fixes
          Bauds, FixRates, Models,    \* speeds of the link, fixes per second, dynamic models
          WrongBytes      \* what a byte of a frame may be turned into

\* What the receiver can send, in the digits it sends it with, and what the
\* registers of the sensor can hold.
ASSUME MeasurementAssumption ==
  /\ Coordinates \subseteq [degrees : Nat, minutes : Nat, hemisphere : {"N", "S", "E", "W"}]
  /\ \A c \in Coordinates : /\ c.degrees <= IF c.hemisphere \in {"N", "S"} THEN 90 ELSE 180
                           /\ c.minutes < IF c.degrees = 180 THEN 1 ELSE 6000000
  /\ Clocks \subseteq [hour : 0 .. 23, minute : 0 .. 59, second : 0 .. 60, centisecond : 0 .. 99]
  /\ Dates \subseteq [year : 2000 .. 2099, month : 1 .. 12, day : 1 .. 31]
  /\ \A a \in Altitudes : a \in Int /\ Magnitude(a) < 1000000
  /\ \A v \in Speeds : v \in Nat /\ v < 1000000
  /\ \A b \in Bearings : b \in Nat /\ b <= 36000
  /\ \A d \in Dops : d \in Nat /\ d < 10000
  /\ Satellites \subseteq Nat /\ Rates \subseteq Nat
  /\ \A t \in Temperatures : t \in Int /\ -32768 <= t /\ t <= 32767
  /\ Sessions \subseteq [start : Instant, age : Instant, presses : Nat]
  /\ Poses \subseteq [Axis -> Int]

\* The arguments of the builders are bytes and words, and the driver's buffer holds
\* the longest frame, NAV5's.
ASSUME MessageAssumption ==
  /\ SentenceIds \subseteq Byte /\ SentenceRates \subseteq Byte /\ Models \subseteq Byte
  /\ WrongBytes \subseteq Byte
  /\ \A b \in Bauds : b \in Nat /\ b \div 65536 < 65536
  /\ FixRates \subseteq Nat \ {0}
  /\ Capacity >= Overhead + 36

VARIABLES kind, given, shown

vars == <<kind, given, shown>>

Nothing == [none |-> 0]
Init == kind = "none" /\ given = Nothing /\ shown = Nothing

Show(k, g, s) == kind' = k /\ given' = g /\ shown' = s

\* A measurement of kind k, first of its run or after another of its kind.
Measure(k, g, s) == kind \in {"none", k} /\ Show(k, g, s)
Once(k, g, s) == kind = "none" /\ Show(k, g, s)
Again == kind # "none" /\ Show("none", Nothing, Nothing)

-----------------------------------------------------------------------------
\* Position: RMC's field ddmm.mmmmm or dddmm.mmmmm, and its hemisphere.
CoordinateField(c) ==
  Written((c.degrees * 100 + c.minutes \div 100000) * 100000 + (c.minutes % 100000),
          IF c.hemisphere \in {"N", "S"} THEN 4 ELSE 5, 5)
Position ==
  \E c \in Coordinates :
    LET read == ParseCoordinate(CoordinateField(c), c.hemisphere)
    IN  Once("position", c, IF read.ok THEN read.value ELSE InvalidCoordinate)

\* Time and date: RMC's hhmmss.ss and ddmmyy.
TimeField(c) ==
  Written(c.hour * 1000000 + c.minute * 10000 + c.second * 100 + c.centisecond, 6, 2)
DateField(d) == Written(d.day * 10000 + d.month * 100 + (d.year % 100), 6, 0)
Time ==
  \E c \in Clocks, d \in Dates :
    LET t == ParseTimeOfDay(TimeField(c))
        date == ParseDate(DateField(d))
    IN  Once("time", [clock |-> c, date |-> d],
             [sinceHour |-> EncodeTimeSinceHourStart(t.minute, t.second, t.millisecond),
              hour |-> EncodeDateAndHour(date.year, date.month, date.day, t.hour)])

\* Altitude of GGA, speed and course of RMC, a dilution of GSA: what the app shows
\* of a field.  A field is empty while the receiver does not know.
AltitudeOf(f, quality) ==
  LET r == ParseNumber(f) IN ShownAltitude(EncodeAltitude(r.value, quality > 0 /\ r.ok))
SpeedOf(f) ==
  LET r == ParseNumber(f) IN ShownSpeed(EncodeSpeed(KnotsToKph(r.value), r.ok /\ r.value >= 0))
BearingOf(f) == LET r == ParseNumber(f) IN ShownBearing(EncodeBearing(r.value, r.ok))
DopOf(f) == LET r == ParseNumber(f) IN ShownDop(EncodeDop(r.value, r.ok /\ r.value >= 0))

\* Without a fix, quality 0, GGA's altitude is empty or left over from an earlier one.
Altitude ==
  \/ \E a \in Altitudes :
       \/ Measure("altitude", [value |-> 100 * a], AltitudeOf(Written(a, 5, 1), 1))
       \/ Measure("altitude", [value |-> Unknown], AltitudeOf(Written(a, 5, 1), 0))
  \/ Measure("altitude", [value |-> Unknown], AltitudeOf(EmptyField, 1))
Speed ==
  \/ \E v \in Speeds : Measure("speed", [value |-> KnotsToKph(v)], SpeedOf(Written(v, 3, 3)))
  \/ Measure("speed", [value |-> Unknown], SpeedOf(EmptyField))
Bearing ==
  \/ \E b \in Bearings : Once("bearing", [value |-> 10 * b], BearingOf(Written(b, 3, 2)))
  \/ Once("bearing", [value |-> Unknown], BearingOf(EmptyField))
Dilution ==
  \/ \E d \in Dops : Once("dilution", [value |-> 10 * d], DopOf(Written(d, 2, 2)))
  \/ Once("dilution", [value |-> Unknown], DopOf(EmptyField))
Quality ==
  \E q \in 0 .. 8 :
    \/ \E n \in Satellites :
         Once("quality", [satellites |-> n, quality |-> q], ShownQuality(EncodeQuality(q, n, TRUE)))
    \/ Once("quality", [satellites |-> Unknown, quality |-> q],
            ShownQuality(EncodeQuality(q, 0, FALSE)))

\* The status channel, age milliseconds after the last of several presses.
Status ==
  \E s \in Sessions, raw \in Temperatures :
    LET timer == [ResetTimer(IdleTimer, s.start) EXCEPT !.resets = s.presses]
    IN  Once("status", [session |-> s, raw |-> raw],
             StatusPayload(timer, After(s.start, s.age), 0, FALSE, raw))

\* The sample rate the sensor is set to.
SampleRate ==
  \E hertz \in Rates, bypassed \in BOOLEAN :
    Once("rate", [hertz |-> hertz, bypassed |-> bypassed],
         OutputRate(SampleRateDivider(hertz, bypassed), bypassed))

-----------------------------------------------------------------------------
\* The sensor in a mounting, zeroed at rest.  Its axes are right-handed
\* (external), so the kart's right is forward x up in them; the trim is what
\* each axis reads too much.
OneG == 8190
Push == 1024
TurnRate == 655
Drift == <<13, -7, 20>>

Bias(m) == [valid |-> TRUE, up |-> m.up, length |-> m.length, size |-> OneG \div m.length,
            gyro |-> Drift]

\* The yaw settings that make forward read forward.
YawsOf(m) ==
  {yaw \in 0 .. 3 : LET r == RebuildRotation(Bias(m), yaw)
                    IN  Apply(r, m.forward) = <<r.den * m.length, 0, 0>>}

Right(m) == [i \in Axis |-> Cross(m.forward, m.up)[i] \div m.length]

\* Up, forward and right are whole, of one length and at right angles; no axis reads
\* a g too much; and a push stays within two g, so that with gravity and the trim
\* it is within the sensor's range.
ASSUME MountingAssumption ==
  \A m \in Mountings :
    /\ m.up \in [Axis -> Int] /\ m.forward \in [Axis -> Int] /\ m.trim \in [Axis -> Int]
    /\ m.length \in Nat \ {0} /\ Push * m.length <= 2 * OneG
    /\ Dot(m.up, m.up) = m.length * m.length
    /\ Dot(m.forward, m.forward) = m.length * m.length
    /\ Dot(m.up, m.forward) = 0
    /\ \A i \in Axis : /\ m.length * Right(m)[i] = Cross(m.forward, m.up)[i]
                       /\ Magnitude(m.trim[i]) <= OneG

\* A sample: gravity, a push and a turn, and the trim, cut to the sensor's range.
SampleOf(m, push, turn) ==
  [accel |-> ApplyRawAccelBias(
               [i \in Axis |-> Clamp(Bias(m).size * m.up[i] + push[i] + m.trim[i], -32768, 32767)],
               m.trim),
   gyro |-> Plus(Drift, turn)]

Moved(m, yaw, way, push, turn) ==
  Once("motion", [mounting |-> m, way |-> way],
       MotionPayload(Bias(m), yaw, SampleOf(m, push, turn), 1, 1))

Still == <<0, 0, 0>>
Motion ==
  \E m \in Mountings :
    \/ \E yaw \in 0 .. 3 :
         \/ Moved(m, yaw, "rest", Still, Still)
         \/ Moved(m, yaw, "up", Scaled(Push, m.up), Still)
         \/ Moved(m, yaw, "level", Scaled(Push, m.forward), Still)
    \/ \E yaw \in YawsOf(m) :
         \/ Moved(m, yaw, "forward", Scaled(Push, m.forward), Still)
         \/ Moved(m, yaw, "right", Scaled(Push, Right(m)), Scaled(-TurnRate, m.up))
         \/ Moved(m, yaw, "strike", Scaled(40000, m.forward), Still)

\* serviceImu while the console's six position measurement is running.
Characterize ==
  /\ kind \in {"none", "pose"}
  /\ \E raw \in Poses :
       LET before == IF kind = "none" THEN <<>> ELSE given.poses
       IN  /\ Len(before) < MaxPoses
           /\ Show("pose", [poses |-> Append(before, raw)],
                   AddSample(IF kind = "none" THEN FreshCharacterizer ELSE shown, raw))

\* What the driver sends to configure the receiver, and what each frame is to set:
\* of the navigation engine only the model, and a restart of it erases nothing.
Messages ==
  {[frame |-> CfgMsg(id, rate), setting |-> [sentence |-> id, rate |-> rate]] :
     id \in SentenceIds, rate \in SentenceRates}
  \cup {[frame |-> CfgPrtUart1(baud), setting |-> [baud |-> baud, mode |-> 2256]] : baud \in Bauds}
  \cup {[frame |-> CfgRateHz(hertz), setting |-> [period |-> 1000 \div hertz]] : hertz \in FixRates}
  \cup {[frame |-> CfgNav5DynamicModel(m), setting |-> [model |-> m, applied |-> 1]] : m \in Models}
  \cup {[frame |-> CfgRstHotStart, setting |-> [erased |-> 0, reset |-> 2]]}

\* A frame, perhaps with one byte wrong.
Configure ==
  \E msg \in Messages :
    Once("frame", [msg |-> msg, damaged |-> FALSE],
         [accepted |-> ValidFrame(msg.frame),
          setting |-> IF ValidFrame(msg.frame) THEN Setting(msg.frame) ELSE Nothing])
Damage ==
  \E msg \in Messages : \E i \in DOMAIN msg.frame : \E b \in WrongBytes \ {msg.frame[i]} :
    Once("frame", [msg |-> msg, damaged |-> TRUE],
         [accepted |-> ValidFrame([msg.frame EXCEPT ![i] = b]), setting |-> Nothing])

Next ==
  \/ Position \/ Time \/ Altitude \/ Speed \/ Bearing \/ Dilution \/ Quality
  \/ Status \/ SampleRate \/ Motion \/ Characterize \/ Configure \/ Damage \/ Again

Spec == Init /\ [][Next]_vars

-----------------------------------------------------------------------------
\* The position in the app is the one the receiver sent, to half a unit of
\* 10^-7 degrees, on the right side of the equator and the meridian, whatever
\* zeros its minutes start with (parseCoordinate, encodeCoordinate).
PositionIsRead ==
  kind = "position" =>
    LET beyond == (IF given.hemisphere \in {"S", "W"} THEN -shown ELSE shown) - given.degrees * 10000000
    IN  Magnitude(60 * beyond - 100 * given.minutes) <= 30

\* The hour, and the time within it, are the receiver's to the two milliseconds
\* the packet has, and no two hours look the same; a leap second shows as the
\* second before it (parseTimeOfDay, parseDate, encodeTimeSinceHourStart,
\* encodeDateAndHour).
TimeIsRead ==
  kind = "time" =>
    LET c == given.clock
        second == IF c.second = 60 THEN 59 ELSE c.second
    IN  /\ ShownMillisecond(shown.sinceHour) = (c.minute * 60 + second) * 1000 + 10 * c.centisecond
        /\ ShownHour(shown.hour) = [year |-> given.date.year, month |-> given.date.month,
                                    day |-> given.date.day, hour |-> c.hour]

Within(error) == shown # Unknown /\ Magnitude(shown - given.value) <= error

\* What is not known shows as unknown, and what is known shows to within half the
\* last digit of the form it is sent in, on both sides of the change from the fine
\* to the coarse form, an altitude below the floor as the floor.  The highest coarse
\* altitude is the sentinel for an unknown one: an altitude that would round to it,
\* or does not fit at all, shows as unknown, and none below it does.  A count of
\* satellites and a dilution too large to send show as the largest, never as
\* "unknown"; samples never come faster than was asked for (encodeAltitude, encodeSpeed,
\* encodeBearing, encodeDop, GpsEncoder::encode, sampleRateDivider).
ValuesWithinResolution ==
  /\ kind = "altitude" =>
       IF given.value = Unknown \/ given.value >= CoarseAltitudeCeiling - 500
       THEN shown = Unknown
       ELSE /\ shown # Unknown
            /\ Magnitude(shown - Clamp(given.value, AltitudeFloor, CoarseAltitudeCeiling))
               <= IF given.value <= FineAltitudeCeiling THEN 50 ELSE 500
  /\ kind = "speed" =>
       IF given.value = Unknown THEN shown = Unknown
       ELSE Within(IF given.value <= FineSpeedCeiling THEN 5000 ELSE 50000)
  /\ kind = "bearing" =>
       IF given.value = Unknown THEN shown = Unknown
       ELSE shown # Unknown /\ Magnitude(shown - (given.value % 360000)) <= 5
  /\ kind = "dilution" =>
       IF given.value = Unknown THEN shown = Unknown
       ELSE Within(50) \/ (given.value > 25400 /\ shown = 25400)
  /\ kind = "quality" =>
       shown = [quality |-> Clamp(given.quality, 0, 3),
                satellites |-> IF given.satellites = Unknown THEN Unknown
                               ELSE Clamp(given.satellites, 0, 62)]
  /\ kind = "rate" /\ given.hertz * 256 >= BaseHz(given.bypassed) => shown <= 1000 * given.hertz

\* Of two altitudes or speeds that the app has, the higher never shows as the lower
\* one, the change of form included; which of them it has, ValuesWithinResolution says
\* (encodeAltitude, encodeSpeed).
OrderIsKept ==
  [][/\ kind = kind' /\ kind \in {"altitude", "speed"}
     /\ shown # Unknown /\ shown' # Unknown
     /\ given.value <= given'.value
     => shown <= shown']_vars

\* The session time of a status packet is the time since the last press of SET,
\* across the wrap of the clock, and the temperature, raw / 340 + 36.53, is right
\* to half a tenth
\* (SessionTimer, encodeStatusPayload).
StatusIsRead ==
  kind = "status" =>
    /\ shown.session = given.session.age
    /\ shown.resets = given.session.presses % 256 /\ shown.satellites = 255
    /\ Magnitude(340 * (10 * shown.temperature - 3653) - 100 * given.raw) <= 1700

\* The extremes an axis is judged by are those of the readings at which the box
\* had settled, that is, which ended a whole run of steady steps: "an extreme
\* captured mid-swing is not a face of the box" (AccelCharacterizer).
Settled(poses) ==
  {i \in DOMAIN poses : i > Settle + 1
                         /\ \A j \in i - Settle .. i : Steady(poses[j], poses[j - 1])}
FacesAreSettled ==
  kind = "pose" =>
    /\ shown.accepted = Cardinality(Settled(given.poses))
    /\ \A i \in Axis, n \in Settled(given.poses) :
         given.poses[n][i] \in shown.min[i] .. shown.max[i]
    /\ shown.seeded =>
         \A i \in Axis :
           {shown.min[i], shown.max[i]} \subseteq {given.poses[n][i] : n \in Settled(given.poses)}
    /\ \A i \in Axis :
         Fit(shown, i).complete
         => \E m, n \in Settled(given.poses) : given.poses[m][i] - given.poses[n][i] >= MinSpan

\* However the box is mounted, a zero makes the kart at rest read zero on every
\* axis, puts what is up on Z and what is level off it, loses none of a push, and
\* with the yaw set puts forward on positive X; a reading at the end of the
\* sensor's range keeps its sign (MotionProcessor, applyRawAccelBias).
LevelledByZero ==
  kind = "motion" =>
    LET push == 125 * given.mounting.length
        x == shown.accel[1]
        y == shown.accel[2]
        z == shown.accel[3]
    IN  CASE given.way = "rest" -> shown = [accel |-> Still, gyro |-> Still]
          [] given.way = "up" -> shown.accel = <<0, 0, push>>
          [] given.way = "level" -> z = 0 /\ Magnitude(x * x + y * y - push * push) <= 2 * push
          [] given.way = "forward" -> shown.accel = <<push, 0, 0>>
          [] given.way = "right" -> x = 0 /\ Magnitude(y) = push /\ z = 0
          [] given.way = "strike" -> x > 0

\* A frame with a byte wrong is not taken for another one, and one that arrives
\* whole is accepted and sets what it was built to set (buildFrame, validateFrame,
\* buildCfg*).
FramesHeardAsSent ==
  kind = "frame" =>
    IF given.damaged THEN ~shown.accepted
    ELSE shown = [accepted |-> TRUE, setting |-> given.msg.setting]

\* "A right-hand corner reads positive", "Yaw rate positive turning right"
\* (docs/racechrono-setup.md).
RightHandCornerReadsPositive ==
  kind = "motion" /\ given.way = "right" => shown.accel[2] > 0 /\ shown.gyro[3] > 0
=============================================================================
