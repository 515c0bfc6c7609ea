--------------------------- MODULE Characterizer ---------------------------
(***************************************************************************)
(* imu::AccelCharacterizer, the six position measurement of the            *)
(* accelerometer's offsets, as a value and the operation that feeds it.    *)
(***************************************************************************)
EXTENDS MotionMath

CONSTANTS StillDelta,    \* kStillDeltaCounts
          Settle,        \* kSettleSamples
          MinSpan        \* kMinSpanCounts

ASSUME CharacterizerAssumption == StillDelta \in Nat /\ Settle \in Nat /\ MinSpan \in Nat

Origin == <<0, 0, 0>>
FreshCharacterizer ==
  [seeded |-> FALSE, hasPrevious |-> FALSE, accepted |-> 0, steadyRun |-> 0,
   previous |-> Origin, min |-> Origin, max |-> Origin]

\* isSteady.
Steady(a, b) == \A i \in Axis : Magnitude(a[i] - b[i]) <= StillDelta

Widened(c, raw) ==
  [c EXCEPT !.seeded = TRUE, !.accepted = @ + 1,
            !.min = [i \in Axis |-> IF ~c.seeded \/ raw[i] < @[i] THEN raw[i] ELSE @[i]],
            !.max = [i \in Axis |-> IF ~c.seeded \/ raw[i] > @[i] THEN raw[i] ELSE @[i]]]

\* Faulty variant of AddSample: steps that are not steady are skipped, and the run
\* of steady ones goes on after them.
AddSampleSkipping(c, raw) ==
  LET next == [c EXCEPT !.previous = raw, !.hasPrevious = TRUE]
  IN  IF ~(c.hasPrevious /\ Steady(raw, c.previous)) THEN next
      ELSE IF c.steadyRun < Settle THEN [next EXCEPT !.steadyRun = @ + 1]
      ELSE Widened(next, raw)

\* addSample.
AddSample(c, raw) ==
  LET next == [c EXCEPT !.previous = raw, !.hasPrevious = TRUE]
  IN  IF ~(c.hasPrevious /\ Steady(raw, c.previous)) THEN [next EXCEPT !.steadyRun = 0]
      ELSE IF c.steadyRun < Settle THEN [next EXCEPT !.steadyRun = @ + 1]
      ELSE Widened(next, raw)

\* axis, with twice the offset.
Fit(c, i) ==
  [complete |-> c.seeded /\ c.max[i] - c.min[i] >= MinSpan, offset2 |-> c.max[i] + c.min[i]]
=============================================================================
