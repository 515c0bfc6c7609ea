------------------------------ MODULE Channels ------------------------------
(***************************************************************************)
(* What the motion and status channels carry: channels.cpp's payloads as   *)
(* the numbers in them, and kart::SessionTimer.                            *)
(***************************************************************************)
EXTENDS MotionMath, Millis

\* encodeMotionPayload after toPhysicalUnits: milli-g and tenths of a degree
\* per second.
MotionPayload(bias, yaw, sample, accelRange, gyroRange) ==
  LET den == RebuildRotation(bias, yaw).den
      accel == ProcessAccel(bias, yaw, sample.accel)
      gyro == ProcessGyro(bias, yaw, sample.gyro)
  IN  [accel |-> [i \in Axis |-> SaturateToInt16(1000 * accel[i], den * AccelScale(accelRange))],
       gyro |-> [i \in Axis |-> SaturateToInt16(200 * gyro[i],
                                                2 * den * GyroScaleTenths(gyroRange))]]

\* The temperature, in tenths of a degree, from counts of 1/340 degree above
\* 36.53 degrees.
TemperaturePayload(raw) == SaturateToInt16(100 * raw + 1242020, 3400)

\* A SessionTimer; the program never stops one.
IdleTimer == [running |-> FALSE, started |-> 0, resets |-> 0]
ResetTimer(t, now) == [running |-> TRUE, started |-> now, resets |-> (t.resets + 1) % 65536]

\* Faulty variant of ElapsedMs: a difference that does not wrap.
ElapsedUnwrapped(t, now) == IF t.running THEN Magnitude(now - t.started) ELSE 0

ElapsedMs(t, now) == IF t.running THEN Elapsed(now, t.started) ELSE 0

\* encodeStatusPayload, without the flags.
StatusPayload(timer, now, satellites, known, raw) ==
  [session |-> ElapsedMs(timer, now), resets |-> timer.resets % 256,
   satellites |-> IF known THEN satellites ELSE 255, temperature |-> TemperaturePayload(raw)]
=============================================================================
