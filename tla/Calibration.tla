---------------------------- MODULE Calibration ----------------------------
(***************************************************************************)
(* Zeroing the sensors: imu::BiasCalibrator's window, the zero that        *)
(* imu::MotionProcessor applies, the flags the pipeline sends to the app,  *)
(* the status LED, and the commands that start a capture (SET, console,    *)
(* boot) while the sensor may be lost and found again.  A reading stands   *)
(* for the sensor's six axes; readings differ by what the checks on spread *)
(* and gravity tell apart.                                                 *)
(***************************************************************************)
EXTENDS Integers, Sequences

CONSTANTS Reading,        \* readings of the sensor
          Required,       \* KARTGPS_CALIBRATION_SAMPLES
          MaxSpread,      \* kMaxAccelSpreadG, kMaxGyroSpreadDps
          MinG, MaxG      \* kMinGravityMagnitudeG, kMaxGravityMagnitudeG

ASSUME CalibrationAssumption ==
  /\ Reading \subseteq Nat /\ Required \in Nat \ {0}
  /\ MaxSpread \in Nat /\ MinG \in Nat /\ MaxG \in Nat

VARIABLES
  imuPresent,
  state, collected, lowest, highest, sum,                    \* calibrator
  zeroed,                                                    \* motionProcessor.isCalibrated()
  imuCalibrated, calibrationRunning, calibrationRejected,    \* pipeline
  \* History.
  window,     \* the readings of the window since begin
  mixed,      \* window has readings from before the sensor was last reset
  zeroFrom    \* the window of the zero in use

calibrator == <<state, collected, lowest, highest, sum, window>>
flags == <<imuCalibrated, calibrationRunning, calibrationRejected>>
vars == <<imuPresent, calibrator, zeroed, flags, mixed, zeroFrom>>

TypeOK ==
  /\ imuPresent \in BOOLEAN /\ zeroed \in BOOLEAN /\ mixed \in BOOLEAN
  /\ imuCalibrated \in BOOLEAN /\ calibrationRunning \in BOOLEAN
  /\ calibrationRejected \in BOOLEAN
  /\ state \in {"kIdle", "kRunning", "kComplete", "kRejected"}
  /\ collected \in 0 .. Required /\ (state = "kRunning" => collected < Required)
  /\ lowest \in Nat /\ highest \in Nat /\ sum \in Nat
  /\ window \in Seq(Reading) /\ zeroFrom \in Seq(Reading)

-----------------------------------------------------------------------------
\* BiasCalibrator::begin.
Begin ==
  /\ state' = "kRunning" /\ collected' = 0
  /\ lowest' = 0 /\ highest' = 0 /\ sum' = 0
  /\ window' = <<>>

\* startCalibration, imuPresent' saying whether there is a sensor: a capture
\* that is running starts over, a rejection is forgotten.
StartCalibration ==
  IF imuPresent'
  THEN Begin /\ calibrationRunning' = TRUE /\ calibrationRejected' = FALSE
  ELSE UNCHANGED <<calibrator, calibrationRunning, calibrationRejected>>

\* setup: the sensor is probed and a first capture started.
Init ==
  /\ imuPresent \in BOOLEAN
  /\ state = (IF imuPresent THEN "kRunning" ELSE "kIdle")
  /\ calibrationRunning = imuPresent
  /\ collected = 0 /\ lowest = 0 /\ highest = 0 /\ sum = 0 /\ window = <<>>
  /\ zeroed = FALSE /\ imuCalibrated = FALSE /\ calibrationRejected = FALSE
  /\ mixed = FALSE /\ zeroFrom = <<>>

\* Faulty variant of Still: the mean alone decides.
StillEnough(low, high, total, n) == total >= MinG * n /\ total <= MaxG * n

\* BiasCalibrator::finish, the two checks: spread, and the mean close to 1 g.
Still(low, high, total, n) ==
  /\ high - low <= MaxSpread
  /\ total >= MinG * n /\ total <= MaxG * n

\* Faulty variant of Finish: a rejection leaves the running flag set.
FinishStillRunning(accepted) ==
  IF accepted
  THEN /\ state' = "kComplete"
       /\ zeroed' = TRUE /\ zeroFrom' = window'
       /\ imuCalibrated' = TRUE /\ calibrationRejected' = FALSE
       /\ calibrationRunning' = FALSE
  ELSE /\ state' = "kRejected"
       /\ calibrationRejected' = TRUE
       /\ UNCHANGED <<zeroed, zeroFrom, imuCalibrated, calibrationRunning>>

\* The end of a window, and what serviceImu then does.  A rejected window
\* leaves the zero in use as it was.
Finish(accepted) ==
  /\ calibrationRunning' = FALSE
  /\ IF accepted
     THEN /\ state' = "kComplete"
          /\ zeroed' = TRUE /\ zeroFrom' = window'
          /\ imuCalibrated' = TRUE /\ calibrationRejected' = FALSE
     ELSE /\ state' = "kRejected"
          /\ calibrationRejected' = TRUE
          /\ UNCHANGED <<zeroed, zeroFrom, imuCalibrated>>

WindowFull(n) == n >= Required

\* Faulty variant of Sample: a window found not still half way starts over.
SampleRetrying(r) ==
  LET restart == collected = 0 \/ (collected > 1 /\ highest - lowest > MaxSpread)
  IN  /\ imuPresent /\ state = "kRunning"
      /\ lowest' = (IF restart \/ r < lowest THEN r ELSE lowest)
      /\ highest' = (IF restart \/ r > highest THEN r ELSE highest)
      /\ sum' = (IF restart THEN r ELSE sum + r)
      /\ collected' = (IF restart THEN 1 ELSE collected + 1)
      /\ window' = (IF restart THEN <<r>> ELSE Append(window, r))
      /\ IF WindowFull(collected')
         THEN Finish(Still(lowest', highest', sum', collected'))
         ELSE UNCHANGED <<state, zeroed, zeroFrom, flags>>
      /\ UNCHANGED <<imuPresent, mixed>>

\* serviceImu with a reading r while the window is open.  Without a window, or
\* when the sensor does not answer, nothing here changes.
Sample(r) ==
  /\ imuPresent /\ state = "kRunning"
  /\ lowest' = (IF collected = 0 \/ r < lowest THEN r ELSE lowest)
  /\ highest' = (IF collected = 0 \/ r > highest THEN r ELSE highest)
  /\ sum' = sum + r /\ collected' = collected + 1
  /\ window' = Append(window, r)
  /\ IF WindowFull(collected')
     THEN Finish(Still(lowest', highest', sum', collected'))
     ELSE UNCHANGED <<state, zeroed, zeroFrom, flags>>
  /\ UNCHANGED <<imuPresent, mixed>>

\* handleShortPress, or "z" on the console.
ShortPress ==
  /\ imuPresent' = imuPresent
  /\ StartCalibration
  /\ mixed' = (mixed /\ window' # <<>>)
  /\ UNCHANGED <<zeroed, zeroFrom, imuCalibrated>>

\* Faulty variant of LongPress: no new capture after the reset.
LongPressAlone ==
  /\ zeroed' = FALSE /\ zeroFrom' = <<>> /\ imuCalibrated' = FALSE
  /\ imuPresent' \in (IF imuPresent THEN BOOLEAN ELSE {FALSE})
  /\ UNCHANGED <<calibrator, calibrationRunning, calibrationRejected>>
  /\ mixed' = (IF imuPresent THEN window' # <<>> ELSE mixed)

\* handleLongPress: the zero is cleared; the sensor's reset may fail, and then
\* the sensor is given up.
LongPress ==
  /\ zeroed' = FALSE /\ zeroFrom' = <<>> /\ imuCalibrated' = FALSE
  /\ imuPresent' \in (IF imuPresent THEN BOOLEAN ELSE {FALSE})
  /\ StartCalibration
  /\ mixed' = (IF imuPresent THEN window' # <<>> ELSE mixed)

\* Faulty variant of RetryImu: the sensor is found and nothing else.
RetryImuAlone ==
  /\ imuPresent' \in BOOLEAN
  /\ UNCHANGED <<calibrator, zeroed, zeroFrom, flags>>
  /\ mixed' = (window' # <<>>)

\* retryImu, "r" on the console: the sensor is reset and configured again; it
\* answers or it does not.
RetryImu ==
  /\ imuPresent' \in BOOLEAN
  /\ StartCalibration
  /\ mixed' = (window' # <<>>)
  /\ UNCHANGED <<zeroed, zeroFrom, imuCalibrated>>

Command == ShortPress \/ LongPress \/ RetryImu

Next == (\E r \in Reading : Sample(r)) \/ Command

Spec == Init /\ [][Next]_vars

\* A sensor that is present answers again and again.
FairSpec == Spec /\ WF_vars(\E r \in Reading : Sample(r))

\* currentPattern, "kLink" standing for the three patterns that tell the state
\* of the link.
Pattern ==
  IF state = "kRunning" THEN "kCalibrating"
  ELSE IF ~imuPresent \/ state = "kRejected" THEN "kFault"
  ELSE "kLink"

-----------------------------------------------------------------------------
\* What the status channel tells the app is what the LED and the processor go
\* by: the flags are copies that five handlers keep.
FlagsTellTheState ==
  /\ calibrationRunning <=> state = "kRunning"
  /\ calibrationRejected <=> state = "kRejected"
  /\ imuCalibrated <=> zeroed

\* "A zero taken on a rolling kart is worse than no zero at all": a zero in use
\* comes from a full window of readings that agree with each other and with
\* gravity, however captures were started over.
ZeroFromStillWindow ==
  zeroed => /\ Len(zeroFrom) = Required
            /\ \A i, j \in DOMAIN zeroFrom : zeroFrom[i] - zeroFrom[j] <= MaxSpread
            /\ \E i \in DOMAIN zeroFrom : zeroFrom[i] >= MinG
            /\ \E i \in DOMAIN zeroFrom : zeroFrom[i] <= MaxG

\* A window that can go on never mixes readings from before a reset of the sensor
\* with later ones (handleLongPress, retryImu).
WindowFromOneSensorState == imuPresent /\ state = "kRunning" => ~mixed

\* The LED falls back to showing the link only when the samples are corrected by
\* a zero: otherwise it shows a capture or a fault (currentPattern).
QuietLedMeansZeroed == Pattern = "kLink" => zeroed

\* A capture ends when it is left alone and the sensor stays: no window waits
\* for samples for ever.
CaptureEnds ==
  <>[][~Command]_vars => <>[](imuPresent => state # "kRunning")
=============================================================================
