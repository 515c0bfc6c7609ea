----------------------------- MODULE MotionMath -----------------------------
(***************************************************************************)
(* From the sensor's registers to readings of the kart: imu.cpp's trim,    *)
(* scales, levelling rotation, bias and sample rate.                       *)
(* Vectors have integer components, in counts; a rotation is an integer    *)
(* matrix and a denominator, so that the arithmetic is exact.  Gravity is  *)
(* known by its direction, an integer vector of integer length, and its    *)
(* size; the yaw of the mounting is in quarter turns.                      *)
(***************************************************************************)
EXTENDS Rounding, Sequences

Axis == 1 .. 3
Up == <<0, 0, 1>>

Dot(a, b) == a[1] * b[1] + a[2] * b[2] + a[3] * b[3]
Cross(a, b) == <<a[2] * b[3] - a[3] * b[2], a[3] * b[1] - a[1] * b[3], a[1] * b[2] - a[2] * b[1]>>
Scaled(k, a) == [i \in Axis |-> k * a[i]]
Plus(a, b) == [i \in Axis |-> a[i] + b[i]]
Minus(a, b) == Plus(a, Scaled(-1, b))

\* Mat3.
Rotation(entry(_, _), den) == [num |-> [r \in Axis |-> [c \in Axis |-> entry(r, c)]], den |-> den]
Delta(r, c) == IF r = c THEN 1 ELSE 0
Identity == Rotation(Delta, 1)
Apply(m, v) == [r \in Axis |-> Dot(m.num[r], v)]
Column(m, c) == [r \in Axis |-> m.num[r][c]]
Multiply(m, n) == Rotation(LAMBDA r, c : Dot(m.num[r], Column(n, c)), m.den * n.den)

\* Half a turn about an axis perpendicular to a, of length la.
HalfTurn(a, la) ==
  LET e == IF 10 * Magnitude(a[1]) > 9 * la THEN <<0, 1, 0>> ELSE <<1, 0, 0>>
      axis == Minus(Scaled(la * la, e), Scaled(Dot(e, a), a))
  IN  Rotation(LAMBDA r, c : 2 * axis[r] * axis[c] - Delta(r, c) * Dot(axis, axis),
               Dot(axis, axis))

\* rotationAligningVector: the shortest turn that takes a to b, of lengths la
\* and lb (Rodrigues' formula).
RotationAligningVector(a, la, b, lb) ==
  LET n == la * lb
      cosine == Dot(a, b)
      v == Cross(a, b)
      skew == <<<<0, -v[3], v[2]>>, <<v[3], 0, -v[1]>>, <<-v[2], v[1], 0>>>>
      den == n * (n + cosine)
  IN  IF n = 0 \/ cosine = n THEN Identity
      ELSE IF cosine = -n THEN HalfTurn(a, la)
      ELSE Rotation(LAMBDA r, c : Delta(r, c) * (den - Dot(v, v)) + (n + cosine) * skew[r][c]
                                  + v[r] * v[c],
                    den)

\* rotationAboutZ.
RotationAboutZ(quarters) ==
  LET c == <<1, 0, -1, 0>>[quarters + 1]
      s == <<0, 1, 0, -1>>[quarters + 1]
  IN  [num |-> <<<<c, -s, 0>>, <<s, c, 0>>, <<0, 0, 1>>>>, den |-> 1]

\* Faulty variant of Level: gravity is turned the other way.
LevelBackwards(bias) == RotationAligningVector(Up, 1, bias.up, bias.length)

Level(bias) == RotationAligningVector(bias.up, bias.length, Up, 1)

\* rebuildRotation.
RebuildRotation(bias, yaw) ==
  IF bias.valid THEN Multiply(RotationAboutZ(yaw), Level(bias)) ELSE RotationAboutZ(yaw)

\* process with gravity compensation, still over the rotation's denominator.
ProcessAccel(bias, yaw, accel) ==
  LET m == RebuildRotation(bias, yaw)
  IN  Minus(Apply(m, accel), <<0, 0, IF bias.valid THEN m.den * bias.length * bias.size ELSE 0>>)
ProcessGyro(bias, yaw, gyro) ==
  Apply(RebuildRotation(bias, yaw), IF bias.valid THEN Minus(gyro, bias.gyro) ELSE gyro)

-----------------------------------------------------------------------------
\* Counts per g, and tenths of a count per degree per second, by range setting.
AccelScale(range) == 16384 \div 2 ^ range
GyroScaleTenths(range) == <<1310, 655, 328, 164>>[range + 1]

\* applyRawAccelBias, one axis.
Trimmed(count, trim) == Clamp(count - trim, -32768, 32767)
ApplyRawAccelBias(counts, trim) == [i \in Axis |-> Trimmed(counts[i], trim[i])]

\* sampleRateDivider and outputRateHz, in thousandths of a hertz.
BaseHz(bypassed) == IF bypassed THEN 8000 ELSE 1000

SampleRateDivider(hertz, bypassed) ==
  IF hertz = 0 THEN 255
  ELSE IF hertz >= BaseHz(bypassed) THEN 0
  ELSE Clamp(((BaseHz(bypassed) + hertz - 1) \div hertz) - 1, 0, 255)
OutputRate(divider, bypassed) == (BaseHz(bypassed) * 1000) \div (divider + 1)
=============================================================================
