--------------------------- MODULE BringupProofs ---------------------------
(***************************************************************************)
(* Proofs about zeroing and the whole device, for every configuration of   *)
(* the receiver, every window and set of readings, and any number of       *)
(* register writes.  First zeroing alone: a zero in use is trustworthy.    *)
(* Then the device: zeroing stays sound under restarts, the LED and the    *)
(* status flags agree, samples come from a configured sensor, and begin    *)
(* configures the receiver it finds.                                       *)
(***************************************************************************)
EXTENDS Bringup, SequenceTheorems, TLAPS

-----------------------------------------------------------------------------
(* Zeroing. *)

\* What the calibrator knows of its window: length, extremes and total, and
\* that the total is on the far side of a bound no reading reaches.
WindowSummary ==
  /\ Len(window) = collected
  /\ \A i \in 1 .. collected : window[i] \in Reading
  /\ collected = 0 => sum = 0
  /\ \A i \in 1 .. collected : lowest <= window[i] /\ window[i] <= highest
  /\ collected > 0 /\ (\A i \in 1 .. collected : window[i] < MinG)
       => sum < MinG * collected
  /\ collected > 0 /\ (\A i \in 1 .. collected : window[i] > MaxG)
       => sum > MaxG * collected

\* A capture waits for samples only after having been started with a sensor; a
\* sensor without a zero has a capture running or rejected.
CaptureOrZero == state \in {"kIdle", "kComplete"} => zeroed \/ ~imuPresent

CalibrationInv ==
  /\ TypeOK /\ WindowSummary /\ FlagsTellTheState /\ ZeroFromStillWindow
  /\ WindowFromOneSensorState /\ CaptureOrZero

\* Facts for the backends: the empty window, products, a difference of readings.
LEMMA NoReadings == <<>> \in Seq(Reading)
  OBVIOUS

LEMMA ProductNat ==
  ASSUME NEW a \in Nat, NEW b \in Nat
  PROVE  a * b \in Nat
  OBVIOUS

LEMMA SpreadBound ==
  ASSUME NEW x \in Nat, NEW y \in Nat, NEW low \in Nat, NEW high \in Nat, NEW d \in Nat,
         low <= y, x <= high, high - low <= d
  PROVE  x - y <= d
  OBVIOUS

LEMMA EmptyWindow ==
  ASSUME collected = 0, sum = 0, window = <<>>
  PROVE  WindowSummary
<1>1. 1 .. collected = {} /\ Len(window) = 0
  OBVIOUS
<1> QED BY <1>1 DEF WindowSummary

LEMMA InitCalibrationInv == Init => CalibrationInv
<1> SUFFICES ASSUME Init PROVE CalibrationInv
  OBVIOUS
<1>1. TypeOK
  <2>1. collected \in 0 .. Required /\ collected < Required
    BY CalibrationAssumption DEF Init
  <2>2. window \in Seq(Reading) /\ zeroFrom \in Seq(Reading)
    BY NoReadings DEF Init
  <2> QED BY <2>1, <2>2 DEF Init, TypeOK
<1>2. WindowSummary
  BY EmptyWindow DEF Init
<1>3. FlagsTellTheState /\ WindowFromOneSensorState /\ CaptureOrZero /\ ZeroFromStillWindow
  BY DEF Init, FlagsTellTheState, ZeroFromStillWindow, WindowFromOneSensorState, CaptureOrZero
<1> QED BY <1>1, <1>2, <1>3 DEF CalibrationInv

\* A capture that starts keeps the invariant's share of the calibrator.
LEMMA StartKeeps ==
  ASSUME CalibrationInv, imuPresent' \in BOOLEAN, StartCalibration
  PROVE  /\ state' \in {"kIdle", "kRunning", "kComplete", "kRejected"}
         /\ collected' \in 0 .. Required /\ (state' = "kRunning" => collected' < Required)
         /\ lowest' \in Nat /\ highest' \in Nat /\ sum' \in Nat /\ window' \in Seq(Reading)
         /\ calibrationRunning' \in BOOLEAN /\ calibrationRejected' \in BOOLEAN
         /\ WindowSummary'
         /\ calibrationRunning' <=> state' = "kRunning"
         /\ calibrationRejected' <=> state' = "kRejected"
         /\ imuPresent' => state' = "kRunning" /\ window' = <<>>
         /\ ~imuPresent' => state' = state /\ window' = window
<1>1. CASE imuPresent'
  <2>1. /\ state' = "kRunning" /\ collected' = 0 /\ sum' = 0 /\ window' = <<>>
        /\ lowest' = 0 /\ highest' = 0
        /\ calibrationRunning' = TRUE /\ calibrationRejected' = FALSE
    BY <1>1 DEF StartCalibration, Begin
  <2>2. WindowSummary'
    <3>1. 1 .. collected' = {} /\ Len(window') = 0
      BY <2>1
    <3> QED BY <2>1, <3>1 DEF WindowSummary
  <2>3. collected' \in 0 .. Required /\ collected' < Required
    BY <2>1, CalibrationAssumption
  <2>4. window' \in Seq(Reading)
    BY <2>1, NoReadings
  <2> QED BY <1>1, <2>1, <2>2, <2>3, <2>4
<1>2. CASE ~imuPresent'
  BY <1>2 DEF StartCalibration, calibrator, CalibrationInv, TypeOK, WindowSummary,
              FlagsTellTheState
<1> QED BY <1>1, <1>2

\* One more reading, before the window is judged.
LEMMA SampleSummary ==
  ASSUME CalibrationInv, NEW r \in Reading, Sample(r)
  PROVE  /\ WindowSummary'
         /\ window' \in Seq(Reading) /\ collected' = collected + 1
         /\ collected' \in 1 .. Required
         /\ lowest' \in Nat /\ highest' \in Nat /\ sum' \in Nat
<1> USE DEF CalibrationInv
<1>1. /\ r \in Nat /\ collected \in Nat /\ collected < Required /\ Required \in Nat
      /\ lowest \in Nat /\ highest \in Nat /\ sum \in Nat /\ window \in Seq(Reading)
      /\ MinG \in Nat /\ MaxG \in Nat /\ Reading \subseteq Nat
  BY CalibrationAssumption DEF Sample, TypeOK
<1>2. /\ window' = Append(window, r) /\ collected' = collected + 1 /\ sum' = sum + r
      /\ lowest' = (IF collected = 0 \/ r < lowest THEN r ELSE lowest)
      /\ highest' = (IF collected = 0 \/ r > highest THEN r ELSE highest)
  BY DEF Sample
<1>3. Len(window) = collected
  BY DEF WindowSummary
<1>4. /\ window' \in Seq(Reading) /\ Len(window') = collected + 1
      /\ \A i \in 1 .. collected : window'[i] = window[i]
      /\ window'[collected + 1] = r
  BY <1>1, <1>2, <1>3
<1>5. \A i \in 1 .. collected : window[i] \in Nat /\ window[i] \in Reading
  BY <1>1 DEF WindowSummary
<1>6. \A i \in 1 .. collected' : i \in 1 .. collected \/ i = collected + 1
  BY <1>1, <1>2
<1>7. \A i \in 1 .. collected' : lowest' <= window'[i] /\ window'[i] <= highest'
  <2>1. \A i \in 1 .. collected : lowest <= window[i] /\ window[i] <= highest
    BY DEF WindowSummary
  <2> SUFFICES ASSUME NEW i \in 1 .. collected'
               PROVE  lowest' <= window'[i] /\ window'[i] <= highest'
    OBVIOUS
  <2>2. CASE i = collected + 1
    BY <2>2, <1>1, <1>2, <1>4
  <2>3. CASE i \in 1 .. collected
    <3>1. window'[i] = window[i] /\ window[i] \in Nat /\ collected # 0
      BY <2>3, <1>1, <1>4, <1>5
    <3>2. lowest <= window[i] /\ window[i] <= highest
      BY <2>1, <2>3
    <3> QED BY <3>1, <3>2, <1>1, <1>2
  <2> QED BY <2>2, <2>3, <1>6
<1>8. /\ MinG * (collected + 1) = MinG * collected + MinG
      /\ MaxG * (collected + 1) = MaxG * collected + MaxG
      /\ MinG * collected \in Nat /\ MaxG * collected \in Nat
      /\ collected = 0 => MinG * collected = 0 /\ MaxG * collected = 0
  BY <1>1
<1> DEFINE low == MinG * collected
           high == MaxG * collected
<1>9. (\A i \in 1 .. collected' : window'[i] < MinG) => sum' < low + MinG
  <2> SUFFICES ASSUME \A i \in 1 .. collected' : window'[i] < MinG
               PROVE  sum' < low + MinG
    OBVIOUS
  <2>1. r < MinG
    BY <1>1, <1>2, <1>4
  <2>2. CASE collected = 0
    <3>1. sum = 0
      BY <2>2 DEF WindowSummary
    <3> QED BY <3>1, <2>1, <2>2, <1>1, <1>2, <1>8
  <2>3. CASE collected # 0
    <3>1. \A i \in 1 .. collected : window[i] < MinG
      BY <1>1, <1>2, <1>4
    <3>2. sum < low
      BY <3>1, <2>3, <1>1 DEF WindowSummary
    <3> HIDE DEF low
    <3> QED BY <3>2, <2>1, <1>1, <1>2, <1>8 DEF low
  <2> QED BY <2>2, <2>3
<1>10. (\A i \in 1 .. collected' : window'[i] > MaxG) => sum' > high + MaxG
  <2> SUFFICES ASSUME \A i \in 1 .. collected' : window'[i] > MaxG
               PROVE  sum' > high + MaxG
    OBVIOUS
  <2>1. r > MaxG
    BY <1>1, <1>2, <1>4
  <2>2. CASE collected = 0
    BY <2>1, <2>2, <1>1, <1>2, <1>8
  <2>3. CASE collected # 0
    <3>1. \A i \in 1 .. collected : window[i] > MaxG
      BY <1>1, <1>2, <1>4
    <3>2. sum > high
      BY <3>1, <2>3, <1>1 DEF WindowSummary
    <3> HIDE DEF high
    <3> QED BY <3>2, <2>1, <1>1, <1>2, <1>8 DEF high
  <2> QED BY <2>2, <2>3
<1> HIDE DEF low, high
<1>11. WindowSummary'
  <2>1. Len(window') = collected'
    BY <1>2, <1>4
  <2>2. \A i \in 1 .. collected' : window'[i] \in Reading
    BY <1>4, <1>5, <1>6
  <2>3. low + MinG = MinG * collected' /\ high + MaxG = MaxG * collected'
    BY <1>2, <1>8 DEF low, high
  <2>4. collected' # 0
    BY <1>1, <1>2
  <2> QED BY <2>1, <2>2, <2>3, <2>4, <1>7, <1>9, <1>10 DEF WindowSummary
<1> QED BY <1>1, <1>2, <1>4, <1>11

\* A window judged still is within the tolerance, and not all on one side of 1 g.
LEMMA JudgedStill ==
  ASSUME CalibrationInv, NEW r \in Reading, Sample(r),
         Still(lowest', highest', sum', collected')
  PROVE  /\ \A i, j \in DOMAIN window' : window'[i] - window'[j] <= MaxSpread
         /\ \E i \in DOMAIN window' : window'[i] >= MinG
         /\ \E i \in DOMAIN window' : window'[i] <= MaxG
<1>1. /\ WindowSummary' /\ window' \in Seq(Reading) /\ collected' \in 1 .. Required
      /\ lowest' \in Nat /\ highest' \in Nat /\ sum' \in Nat
  BY SampleSummary
<1>2. Reading \subseteq Nat /\ MaxSpread \in Nat /\ MinG \in Nat /\ MaxG \in Nat
      /\ Required \in Nat
  BY CalibrationAssumption
<1>3. DOMAIN window' = 1 .. collected'
  BY <1>1 DEF WindowSummary
<1>4. /\ \A i \in 1 .. collected' : window'[i] \in Nat
      /\ \A i \in 1 .. collected' : lowest' <= window'[i] /\ window'[i] <= highest'
  BY <1>1, <1>2 DEF WindowSummary
<1>5. \A i, j \in 1 .. collected' : window'[i] - window'[j] <= MaxSpread
  <2>1. highest' - lowest' <= MaxSpread
    BY DEF Still
  <2> SUFFICES ASSUME NEW i \in 1 .. collected', NEW j \in 1 .. collected'
               PROVE  window'[i] - window'[j] <= MaxSpread
    OBVIOUS
  <2>2. window'[i] \in Nat /\ window'[i] <= highest'
    BY <1>4
  <2>3. window'[j] \in Nat /\ lowest' <= window'[j]
    BY <1>4
  <2>4. lowest' \in Nat /\ highest' \in Nat /\ MaxSpread \in Nat
    BY <1>1, <1>2
  <2> QED BY <2>1, <2>2, <2>3, <2>4, SpreadBound
<1>6. collected' \in Nat /\ collected' > 0
  BY <1>1, <1>2
<1> DEFINE low == MinG * collected'
           high == MaxG * collected'
<1>7. low \in Nat /\ high \in Nat /\ sum' >= low /\ sum' <= high
  <2>1. low \in Nat /\ high \in Nat
    BY <1>2, <1>6, ProductNat
  <2>2. sum' >= low /\ sum' <= high
    BY DEF Still
  <2> QED BY <2>1, <2>2
<1>8. /\ (\A i \in 1 .. collected' : window'[i] < MinG) => sum' < low
      /\ (\A i \in 1 .. collected' : window'[i] > MaxG) => sum' > high
  BY <1>1, <1>6 DEF WindowSummary
<1> HIDE DEF low, high
<1>9. /\ ~(\A i \in 1 .. collected' : window'[i] < MinG)
      /\ ~(\A i \in 1 .. collected' : window'[i] > MaxG)
  BY <1>1, <1>7, <1>8
<1>10. /\ \E i \in 1 .. collected' : window'[i] >= MinG
       /\ \E i \in 1 .. collected' : window'[i] <= MaxG
  BY <1>2, <1>4, <1>9
<1> QED BY <1>3, <1>5, <1>10

-----------------------------------------------------------------------------
(* Every action. *)

LEMMA SampleKeeps ==
  ASSUME CalibrationInv, NEW r \in Reading, Sample(r)
  PROVE  CalibrationInv'
<1>1. /\ WindowSummary' /\ window' \in Seq(Reading) /\ collected' \in 1 .. Required
      /\ collected' = collected + 1
      /\ lowest' \in Nat /\ highest' \in Nat /\ sum' \in Nat
  BY SampleSummary
<1>2. imuPresent' = imuPresent /\ imuPresent /\ state = "kRunning" /\ mixed' = mixed
  BY DEF Sample
<1>3. ~mixed
  BY <1>2 DEF CalibrationInv, WindowFromOneSensorState
<1>4. Required \in Nat
  BY CalibrationAssumption
<1>5. CASE WindowFull(collected') /\ Still(lowest', highest', sum', collected')
  <2>1. /\ state' = "kComplete" /\ zeroed' = TRUE /\ zeroFrom' = window'
        /\ imuCalibrated' = TRUE /\ calibrationRejected' = FALSE
        /\ calibrationRunning' = FALSE
    BY <1>5 DEF Sample, Finish
  <2>2. Len(window') = Required
    BY <1>1, <1>4, <1>5 DEF WindowFull, WindowSummary
  <2>3. TypeOK'
    <3>1. collected' \in 0 .. Required
      BY <1>1, <1>4
    <3> QED BY <1>1, <1>2, <2>1, <3>1 DEF CalibrationInv, TypeOK
  <2>4. ZeroFromStillWindow'
    BY <1>5, <2>1, <2>2, JudgedStill DEF ZeroFromStillWindow
  <2> QED BY <1>1, <1>2, <2>1, <2>3, <2>4
          DEF CalibrationInv, FlagsTellTheState, WindowFromOneSensorState, CaptureOrZero
<1>6. CASE WindowFull(collected') /\ ~Still(lowest', highest', sum', collected')
  <2>1. /\ state' = "kRejected" /\ calibrationRejected' = TRUE
        /\ calibrationRunning' = FALSE
        /\ UNCHANGED <<zeroed, zeroFrom, imuCalibrated>>
    BY <1>6 DEF Sample, Finish
  <2>2. TypeOK'
    <3>1. collected' \in 0 .. Required
      BY <1>1, <1>4
    <3> QED BY <1>1, <1>2, <2>1, <3>1 DEF CalibrationInv, TypeOK
  <2>3. ZeroFromStillWindow'
    BY <2>1 DEF CalibrationInv, ZeroFromStillWindow
  <2> QED BY <1>1, <1>2, <2>1, <2>2, <2>3
          DEF CalibrationInv, FlagsTellTheState, WindowFromOneSensorState, CaptureOrZero
<1>7. CASE ~WindowFull(collected')
  <2>1. UNCHANGED <<state, zeroed, zeroFrom, flags>>
    BY <1>7 DEF Sample
  <2>2. collected' < Required
    BY <1>1, <1>4, <1>7 DEF WindowFull
  <2>3. TypeOK'
    BY <1>1, <1>2, <2>1, <2>2, <1>4 DEF CalibrationInv, TypeOK, flags
  <2>4. ZeroFromStillWindow'
    BY <2>1 DEF CalibrationInv, ZeroFromStillWindow
  <2> QED BY <1>1, <1>2, <1>3, <2>1, <2>3, <2>4
          DEF CalibrationInv, FlagsTellTheState, WindowFromOneSensorState, CaptureOrZero,
              flags
<1> QED BY <1>5, <1>6, <1>7

LEMMA CommandKeeps ==
  ASSUME CalibrationInv, Command
  PROVE  CalibrationInv'
<1>1. CASE ShortPress
  <2>1. imuPresent' = imuPresent /\ StartCalibration
        /\ UNCHANGED <<zeroed, zeroFrom, imuCalibrated>>
        /\ mixed' = (mixed /\ window' # <<>>)
    BY <1>1 DEF ShortPress
  <2>2. imuPresent' \in BOOLEAN
    BY <2>1 DEF CalibrationInv, TypeOK
  <2> QED BY <2>1, <2>2, StartKeeps
          DEF CalibrationInv, TypeOK, FlagsTellTheState, ZeroFromStillWindow,
              WindowFromOneSensorState, CaptureOrZero
<1>2. CASE LongPress
  <2>1. /\ imuPresent' \in BOOLEAN /\ StartCalibration
        /\ zeroed' = FALSE /\ zeroFrom' = <<>> /\ imuCalibrated' = FALSE
        /\ mixed' = (IF imuPresent THEN window' # <<>> ELSE mixed)
        /\ imuPresent' => imuPresent
    BY <1>2 DEF LongPress
  <2> QED BY <2>1, StartKeeps, NoReadings
          DEF CalibrationInv, TypeOK, FlagsTellTheState, ZeroFromStillWindow,
              WindowFromOneSensorState, CaptureOrZero
<1>3. CASE RetryImu
  <2>1. imuPresent' \in BOOLEAN /\ StartCalibration
        /\ UNCHANGED <<zeroed, zeroFrom, imuCalibrated>>
        /\ mixed' = (window' # <<>>)
    BY <1>3 DEF RetryImu
  <2> QED BY <2>1, StartKeeps, NoReadings
          DEF CalibrationInv, TypeOK, FlagsTellTheState, ZeroFromStillWindow,
              WindowFromOneSensorState, CaptureOrZero
<1> QED BY <1>1, <1>2, <1>3 DEF Command

LEMMA NextCalibrationInv == CalibrationInv /\ [Next]_vars => CalibrationInv'
<1> SUFFICES ASSUME CalibrationInv, [Next]_vars PROVE CalibrationInv'
  OBVIOUS
<1>1. CASE UNCHANGED vars
  BY <1>1 DEF vars, calibrator, flags, CalibrationInv, TypeOK, WindowSummary,
              FlagsTellTheState, ZeroFromStillWindow, WindowFromOneSensorState, CaptureOrZero
<1> QED BY <1>1, SampleKeeps, CommandKeeps DEF Next

-----------------------------------------------------------------------------
(* Zeroing: the theorems. *)

\* Types (the calibrator's counters and the flags).
THEOREM TypeCorrect == Spec => []TypeOK
<1>1. CalibrationInv => TypeOK
  BY DEF CalibrationInv
<1> QED BY <1>1, InitCalibrationInv, NextCalibrationInv, PTL DEF Spec

\* The status flags always tell the calibrator's and the processor's state.
THEOREM FlagsAgree == Spec => []FlagsTellTheState
<1>1. CalibrationInv => FlagsTellTheState
  BY DEF CalibrationInv
<1> QED BY <1>1, InitCalibrationInv, NextCalibrationInv, PTL DEF Spec

\* A zero in use comes from one full still window, for every window length and
\* every tolerance (BiasCalibrator::addSample, finish).
THEOREM ZeroIsTrustworthy == Spec => []ZeroFromStillWindow
<1>1. CalibrationInv => ZeroFromStillWindow
  BY DEF CalibrationInv
<1> QED BY <1>1, InitCalibrationInv, NextCalibrationInv, PTL DEF Spec

\* No window spans a reset of the sensor.
THEOREM WindowsAreWhole == Spec => []WindowFromOneSensorState
<1>1. CalibrationInv => WindowFromOneSensorState
  BY DEF CalibrationInv
<1> QED BY <1>1, InitCalibrationInv, NextCalibrationInv, PTL DEF Spec

\* The LED shows neither a capture nor a fault only with a zero in use.
THEOREM QuietLedIsZeroed == Spec => []QuietLedMeansZeroed
<1>1. CalibrationInv => QuietLedMeansZeroed
  BY DEF CalibrationInv, CaptureOrZero, QuietLedMeansZeroed, Pattern, TypeOK
<1> QED BY <1>1, InitCalibrationInv, NextCalibrationInv, PTL DEF Spec

-----------------------------------------------------------------------------
(* The receiver's link. *)

\* Of BeginSteps, the first k steps have been taken.
StepsLeft(k) ==
  /\ Len(todo) = Len(BeginSteps) - k
  /\ \A i \in 1 .. Len(todo) : todo[i] = BeginSteps[i + k]

\* Both ends are at the rate they will keep, and every setting has been taken or
\* is still to be sent.
Sending ==
  /\ port = RunBaud /\ receiver.baud = RunBaud
  /\ \A i \in 1 .. Len(todo) : todo[i].does = "send"
  /\ \A m \in Settings : m \in receiver.set \/ \E i \in 1 .. Len(todo) : todo[i] = Send(m)

\* How far a begin that nothing has spoilt has come: whatever the receiver's rate
\* was, after the first port command it is the run rate.
LinkProgress ==
  "begin" \in unspoilt =>
     \/ StepsLeft(0)
     \/ StepsLeft(1) /\ port = BootBaud
     \/ StepsLeft(2) /\ port = BootBaud /\ receiver.baud = RunBaud
     \/ Sending

LinkInv == LinkTypeOK /\ LinkProgress

LEMMA StepFields ==
  /\ \A b : Open(b).does = "open" /\ Open(b).with = b
  /\ \A m : Send(m).does = "send" /\ Send(m).with = m
  /\ \A m : Open(m) # Send(m)
  BY DEF Open, Send

LEMMA StepKinds ==
  ASSUME NEW s \in Steps
  PROVE  /\ s.does = "open" => s.with \in Bauds
         /\ s.does = "send" => s.with \in Settings \cup {"rst"}
  BY StepFields DEF Steps

LEMMA ConfigurationSteps ==
  /\ ApplyConfiguration \in Seq(Steps)
  /\ Len(ApplyConfiguration) = Len(Configuration) /\ Len(Configuration) \in Nat
  /\ \A i \in 1 .. Len(Configuration) :
       ApplyConfiguration[i] = Send(Configuration[i]) /\ Configuration[i] \in Settings
<1>1. Configuration \in Seq(Settings) /\ Len(Configuration) \in Nat
      /\ DOMAIN Configuration = 1 .. Len(Configuration)
  BY LinkAssumption
<1>2. \A i \in DOMAIN Configuration : Configuration[i] \in Settings
  BY DEF Settings
<1>3. \A i \in DOMAIN Configuration : Send(Configuration[i]) \in Steps
  BY <1>2 DEF Steps
<1> DEFINE n == Len(Configuration)
<1>4. ApplyConfiguration \in [1 .. n -> Steps]
  BY <1>1, <1>3 DEF ApplyConfiguration
<1>5. ApplyConfiguration \in Seq(Steps) /\ Len(ApplyConfiguration) = n
  BY <1>1, <1>4
<1>6. \A i \in 1 .. n : ApplyConfiguration[i] = Send(Configuration[i])
  BY <1>1 DEF ApplyConfiguration
<1> QED BY <1>1, <1>2, <1>5, <1>6

LEMMA BeginIs ==
  /\ BeginSteps \in Seq(Steps) /\ Len(BeginSteps) = 4 + Len(Configuration)
  /\ BeginSteps[1] = Open(BootBaud) /\ BeginSteps[2] = Send("prt")
  /\ BeginSteps[3] = Open(RunBaud) /\ BeginSteps[4] = Send("prt")
  /\ \A i \in 1 .. Len(Configuration) : BeginSteps[i + 4] = Send(Configuration[i])
<1> DEFINE front == <<Open(BootBaud), Send("prt"), Open(RunBaud), Send("prt")>>
           rest == ApplyConfiguration
<1>1. /\ Open(BootBaud) \in Steps /\ Send("prt") \in Steps /\ Open(RunBaud) \in Steps
  BY DEF Steps, Bauds, Settings
<1>2. /\ front \in Seq(Steps) /\ Len(front) = 4
      /\ front[1] = Open(BootBaud) /\ front[2] = Send("prt")
      /\ front[3] = Open(RunBaud) /\ front[4] = Send("prt")
  BY <1>1
<1>3. rest \in Seq(Steps) /\ Len(rest) = Len(Configuration) /\ Len(Configuration) \in Nat
  BY ConfigurationSteps
<1>4. BeginSteps = front \o rest
  BY DEF BeginSteps
<1> HIDE DEF front, rest
<1>5. /\ front \o rest \in Seq(Steps) /\ Len(front \o rest) = 4 + Len(Configuration)
      /\ \A i \in 1 .. 4 : (front \o rest)[i] = front[i]
      /\ \A i \in 1 .. Len(Configuration) : (front \o rest)[i + 4] = rest[i]
  <2>1. /\ front \o rest \in Seq(Steps) /\ Len(front \o rest) = Len(front) + Len(rest)
        /\ \A i \in 1 .. Len(front) + Len(rest) :
             (front \o rest)[i] = IF i <= Len(front) THEN front[i] ELSE rest[i - Len(front)]
    BY <1>2, <1>3, ConcatProperties, Zenon
  <2>2. \A i \in 1 .. 4 : (front \o rest)[i] = front[i]
    BY <1>2, <1>3, <2>1
  <2>3. ASSUME NEW i \in 1 .. Len(Configuration) PROVE (front \o rest)[i + 4] = rest[i]
    <3>1. i + 4 \in 1 .. Len(front) + Len(rest) /\ ~(i + 4 <= Len(front))
          /\ (i + 4) - Len(front) = i
      BY <1>2, <1>3
    <3> QED BY <2>1, <3>1
  <2>4. Len(front) + Len(rest) = 4 + Len(Configuration)
    BY <1>2, <1>3
  <2>5. front \o rest \in Seq(Steps) /\ Len(front \o rest) = 4 + Len(Configuration)
    BY <2>1, <2>4, Zenon
  <2> QED BY <2>2, <2>3, <2>5, Zenon
<1> QED BY <1>2, <1>4, <1>5, ConfigurationSteps DEF rest

LEMMA HotStartIs ==
  LET steps == <<Send("rst")>> \o ApplyConfiguration
  IN  /\ steps \in Seq(Steps)
      /\ \A i \in 1 .. Len(steps) : steps[i].does = "send"
<1> DEFINE front == <<Send("rst")>>
           rest == ApplyConfiguration
           steps == front \o rest
<1>1. front \in Seq(Steps) /\ Len(front) = 1 /\ front[1] = Send("rst")
  BY DEF Steps
<1>2. rest \in Seq(Steps) /\ Len(rest) = Len(Configuration) /\ Len(Configuration) \in Nat
      /\ \A i \in 1 .. Len(rest) : rest[i].does = "send"
  BY ConfigurationSteps, StepFields
<1> HIDE DEF front, rest
<1>3. /\ steps \in Seq(Steps) /\ Len(steps) = 1 + Len(rest)
      /\ \A i \in 1 .. Len(steps) : steps[i] = IF i = 1 THEN front[1] ELSE rest[i - 1]
  <2>1. /\ steps \in Seq(Steps) /\ Len(steps) = Len(front) + Len(rest)
        /\ \A i \in 1 .. Len(front) + Len(rest) :
             steps[i] = IF i <= Len(front) THEN front[i] ELSE rest[i - Len(front)]
    <3>1. front \in Seq(Steps) /\ rest \in Seq(Steps)
      BY <1>1, <1>2
    <3> QED BY <3>1, ConcatProperties, Zenon
  <2> HIDE DEF steps
  <2>2. \A i \in 1 .. 1 + Len(rest) :
          steps[i] = IF i <= 1 THEN front[i] ELSE rest[i - 1]
    BY <1>1, <2>1, Zenon
  <2>3. steps \in Seq(Steps) /\ Len(steps) = 1 + Len(rest)
    BY <1>1, <2>1, Zenon
  <2>4. ASSUME NEW i \in 1 .. 1 + Len(rest)
        PROVE  steps[i] = IF i = 1 THEN front[1] ELSE rest[i - 1]
    <3>1. i <= 1 <=> i = 1
      BY <1>2
    <3> QED BY <2>2, <3>1
  <2> QED BY <2>3, <2>4, Zenon
<1>4. \A i \in 1 .. Len(steps) : i = 1 \/ i - 1 \in 1 .. Len(rest)
  BY <1>2, <1>3
<1>5. \A i \in 1 .. Len(steps) : steps[i].does = "send"
  BY <1>1, <1>2, <1>3, <1>4, StepFields
<1> QED BY <1>3, <1>5 DEF front, rest

\* begin, at boot, from the console or after a restart of the device.
LEMMA BeginLink ==
  ASSUME port' \in Bauds, receiver' \in [baud : Bauds, set : SUBSET Settings],
         todo' = BeginSteps, unspoilt' = {"begin"}
  PROVE  LinkInv'
<1>1. LinkTypeOK'
  BY BeginIs DEF LinkTypeOK
<1>2. StepsLeft(0)'
  BY BeginIs DEF StepsLeft
<1> QED BY <1>1, <1>2 DEF LinkInv, LinkProgress

\* A long press when no call is under way.
LEMMA HotStartLink ==
  ASSUME LinkInv, todo = <<>>, GpsHotStart
  PROVE  LinkInv'
<1>1. /\ todo' = <<Send("rst")>> \o ApplyConfiguration
      /\ unspoilt' = unspoilt \cup {"longPress"} /\ UNCHANGED <<port, receiver>>
  BY DEF GpsHotStart
<1>2. LinkTypeOK'
  BY <1>1, HotStartIs DEF LinkInv, LinkTypeOK
<1>3. LinkProgress'
  <2> SUFFICES ASSUME "begin" \in unspoilt PROVE Sending'
    BY <1>1 DEF LinkProgress
  <2>1. Len(todo) = 0
    OBVIOUS
  <2>2. ~StepsLeft(0) /\ ~StepsLeft(1) /\ ~StepsLeft(2)
    BY <2>1, BeginIs, ConfigurationSteps DEF StepsLeft
  <2>3. Sending
    BY <2>2 DEF LinkInv, LinkProgress
  <2>4. \A m \in Settings : m \in receiver.set
    BY <2>1, <2>3 DEF Sending
  <2> QED BY <1>1, <2>3, <2>4, HotStartIs DEF Sending
<1> QED BY <1>2, <1>3 DEF LinkInv

\* The first of the steps left, and the rest.
LEMMA FirstStep ==
  ASSUME LinkTypeOK, todo # <<>>
  PROVE  /\ Len(todo) \in Nat \ {0} /\ Head(todo) = todo[1] /\ Head(todo) \in Steps
         /\ Tail(todo) \in Seq(Steps) /\ Len(Tail(todo)) = Len(todo) - 1
         /\ \A i \in 1 .. Len(Tail(todo)) : Tail(todo)[i] = todo[i + 1]
  BY DEF LinkTypeOK

LEMMA OneStepTaken ==
  ASSUME LinkTypeOK, todo # <<>>, todo' = Tail(todo), NEW k \in Nat, StepsLeft(k)
  PROVE  StepsLeft(k + 1)' /\ Head(todo) = BeginSteps[k + 1]
<1>1. /\ Len(todo) \in Nat \ {0} /\ Head(todo) = todo[1]
      /\ Len(todo') = Len(todo) - 1
      /\ \A i \in 1 .. Len(todo') : todo'[i] = todo[i + 1]
  BY FirstStep
<1>2. Head(todo) = BeginSteps[1 + k] /\ 1 + k = k + 1
  BY <1>1 DEF StepsLeft
<1>3. Len(todo') = Len(BeginSteps) - (k + 1)
  BY <1>1, BeginIs, ConfigurationSteps DEF StepsLeft
<1>4. ASSUME NEW i \in 1 .. Len(todo') PROVE todo'[i] = BeginSteps[i + (k + 1)]
  <2>1. i + 1 \in 1 .. Len(todo) /\ todo'[i] = todo[i + 1] /\ i \in Int
    BY <1>1
  <2>2. todo[i + 1] = BeginSteps[(i + 1) + k] /\ (i + 1) + k = i + (k + 1)
    BY <2>1 DEF StepsLeft
  <2> QED BY <2>1, <2>2
<1> QED BY <1>2, <1>3, <1>4 DEF StepsLeft

LEMMA OpenKeepsLink ==
  ASSUME LinkInv, OpenPort
  PROVE  LinkInv'
<1>1. /\ todo # <<>> /\ Head(todo).does = "open" /\ todo' = Tail(todo)
      /\ port' = Head(todo).with /\ UNCHANGED <<receiver, unspoilt>>
  BY DEF OpenPort
<1>2. LinkTypeOK /\ Head(todo) \in Steps
  BY <1>1, FirstStep DEF LinkInv
<1>3. LinkTypeOK'
  BY <1>1, <1>2, FirstStep, StepKinds DEF LinkTypeOK
<1>4. LinkProgress'
  <2> SUFFICES ASSUME "begin" \in unspoilt
               PROVE  (StepsLeft(1)' /\ port' = BootBaud) \/ Sending'
    BY <1>1 DEF LinkProgress
  <2>1. CASE StepsLeft(0)
    <3>1. StepsLeft(0 + 1)' /\ Head(todo) = BeginSteps[0 + 1]
      BY <1>1, <1>2, <2>1, OneStepTaken
    <3> QED BY <1>1, <3>1, BeginIs, StepFields
  <2>2. CASE StepsLeft(1)
    <3>1. Head(todo) = BeginSteps[1 + 1]
      BY <1>1, <1>2, <2>2, OneStepTaken
    <3> QED BY <1>1, <3>1, BeginIs, StepFields
  <2>3. CASE StepsLeft(2) /\ receiver.baud = RunBaud
    <3>1. StepsLeft(2 + 1)' /\ Head(todo) = BeginSteps[2 + 1]
      BY <1>1, <1>2, <2>3, OneStepTaken
    <3>2. StepsLeft(3)' /\ Head(todo) = Open(RunBaud)
      BY <3>1, BeginIs
    <3>3. port' = RunBaud /\ receiver'.baud = RunBaud
      BY <1>1, <2>3, <3>2, StepFields
    <3> DEFINE n == Len(Configuration)
    <3>4. /\ n \in Nat /\ Len(todo') = n + 1 /\ todo'[1] = Send("prt")
          /\ \A i \in 1 .. n : todo'[i + 1] = Send(Configuration[i])
      <4>1. n \in Nat /\ Len(todo') = n + 1
        BY <3>2, BeginIs, ConfigurationSteps DEF StepsLeft
      <4>2. \A i \in 1 .. n + 1 : todo'[i] = BeginSteps[i + 3]
        BY <3>2, <4>1 DEF StepsLeft
      <4>3. todo'[1] = BeginSteps[1 + 3] /\ 1 + 3 = 4
        BY <4>1, <4>2
      <4>4. ASSUME NEW i \in 1 .. n PROVE todo'[i + 1] = Send(Configuration[i])
        <5>1. i + 1 \in 1 .. n + 1 /\ (i + 1) + 3 = i + 4
          BY <4>1
        <5> QED BY <4>2, <5>1, BeginIs
      <4> QED BY <4>1, <4>3, <4>4, BeginIs
    <3>5. \A i \in 1 .. Len(todo') : i = 1 \/ (i - 1 \in 1 .. n /\ i = (i - 1) + 1)
      BY <3>4
    <3>6. ASSUME NEW i \in 1 .. Len(todo') PROVE todo'[i].does = "send"
      <4>1. CASE i = 1
        BY <3>4, <4>1, StepFields
      <4>2. CASE i # 1
        <5>1. i - 1 \in 1 .. n /\ i = (i - 1) + 1
          BY <3>5, <4>2
        <5>2. todo'[(i - 1) + 1] = Send(Configuration[i - 1])
          BY <3>4, <5>1
        <5> QED BY <5>1, <5>2, StepFields
      <4> QED BY <4>1, <4>2
    <3>7. ASSUME NEW m \in Settings
          PROVE  \E i \in 1 .. Len(todo') : todo'[i] = Send(m)
      <4>1. CASE m = "prt"
        <5>1. 1 \in 1 .. Len(todo')
          BY <3>4
        <5> QED BY <3>4, <4>1, <5>1
      <4>2. CASE m # "prt"
        <5>1. PICK i \in 1 .. n : m = Configuration[i]
          BY <4>2, LinkAssumption DEF Settings
        <5>2. i + 1 \in 1 .. Len(todo') /\ todo'[i + 1] = Send(m)
          BY <3>4, <5>1
        <5> QED BY <5>2
      <4> QED BY <4>1, <4>2
    <3> QED BY <3>3, <3>6, <3>7 DEF Sending
  <2>4. CASE Sending
    <3>1. todo[1].does = "send" /\ Head(todo) = todo[1]
      BY <1>1, <1>2, <2>4, FirstStep DEF Sending
    <3> QED BY <1>1, <3>1
  <2> QED BY <2>1, <2>2, <2>3, <2>4 DEF LinkInv, LinkProgress
<1> QED BY <1>3, <1>4 DEF LinkInv

LEMMA SendKeepsLink ==
  ASSUME LinkInv, SendUbx
  PROVE  LinkInv'
<1> DEFINE msg == Head(todo).with
<1>1. /\ todo # <<>> /\ Head(todo).does = "send" /\ todo' = Tail(todo)
      /\ receiver' = (IF LinkUp THEN Taken(msg) ELSE receiver)
      /\ UNCHANGED <<port, unspoilt>>
  BY DEF SendUbx
<1>2. LinkTypeOK /\ Head(todo) \in Steps /\ receiver \in [baud : Bauds, set : SUBSET Settings]
  BY <1>1, FirstStep DEF LinkInv, LinkTypeOK
<1>3. LinkTypeOK'
  <2>1. Taken(msg) \in [baud : Bauds, set : SUBSET Settings]
    BY <1>2 DEF Taken, Bauds
  <2> QED BY <1>1, <1>2, <2>1, FirstStep DEF LinkTypeOK
<1>4. LinkProgress'
  <2> SUFFICES ASSUME "begin" \in unspoilt
               PROVE  \/ StepsLeft(2)' /\ port' = BootBaud /\ receiver'.baud = RunBaud
                      \/ Sending'
    BY <1>1 DEF LinkProgress
  <2>1. CASE StepsLeft(0)
    <3>1. Head(todo) = BeginSteps[0 + 1]
      BY <1>1, <1>2, <2>1, OneStepTaken
    <3> QED BY <1>1, <3>1, BeginIs, StepFields
  <2>2. CASE StepsLeft(1) /\ port = BootBaud
    <3>1. StepsLeft(1 + 1)' /\ Head(todo) = BeginSteps[1 + 1]
      BY <1>1, <1>2, <2>2, OneStepTaken
    <3>2. StepsLeft(2)' /\ msg = "prt"
      BY <3>1, BeginIs, StepFields
    <3>3. receiver'.baud = RunBaud
      BY <1>1, <1>2, <2>2, <3>2 DEF LinkUp, Taken, Bauds
    <3> QED BY <1>1, <2>2, <3>2, <3>3
  <2>3. CASE StepsLeft(2)
    <3>1. Head(todo) = BeginSteps[2 + 1]
      BY <1>1, <1>2, <2>3, OneStepTaken
    <3> QED BY <1>1, <3>1, BeginIs, StepFields
  <2>4. CASE Sending
    <3>1. /\ Len(todo) \in Nat \ {0} /\ Head(todo) = todo[1]
          /\ Len(todo') = Len(todo) - 1
          /\ \A i \in 1 .. Len(todo') : todo'[i] = todo[i + 1]
      BY <1>1, <1>2, FirstStep
    <3>2. /\ port = RunBaud /\ receiver.baud = RunBaud
          /\ \A i \in 1 .. Len(todo) : todo[i].does = "send"
          /\ \A m \in Settings :
               m \in receiver.set \/ \E i \in 1 .. Len(todo) : todo[i] = Send(m)
      BY <2>4 DEF Sending
    <3>3. /\ receiver'.baud = RunBaud
          /\ receiver'.set = receiver.set \cup ({msg} \cap Settings)
      BY <1>1, <3>2 DEF LinkUp, Taken
    <3>4. \A i \in 1 .. Len(todo') : todo'[i].does = "send"
      <4>1. \A i \in 1 .. Len(todo') : i + 1 \in 1 .. Len(todo)
        BY <3>1
      <4> QED BY <3>1, <3>2, <4>1
    <3>5. ASSUME NEW m \in Settings
          PROVE  m \in receiver'.set \/ \E i \in 1 .. Len(todo') : todo'[i] = Send(m)
      <4>1. CASE m \in receiver.set
        BY <3>3, <4>1
      <4>2. CASE \E i \in 1 .. Len(todo) : todo[i] = Send(m)
        <5>1. PICK i \in 1 .. Len(todo) : todo[i] = Send(m)
          BY <4>2
        <5>2. CASE i = 1
          <6>1. msg = m
            BY <3>1, <5>1, <5>2, StepFields
          <6> QED BY <3>3, <6>1
        <5>3. CASE i # 1
          <6>1. i - 1 \in 1 .. Len(todo') /\ (i - 1) + 1 = i
            BY <3>1, <5>3
          <6> QED BY <3>1, <5>1, <6>1
        <5> QED BY <5>2, <5>3
      <4> QED BY <3>2, <4>1, <4>2
    <3> HIDE DEF msg
    <3> QED BY <1>1, <3>2, <3>3, <3>4, <3>5 DEF Sending
  <2> QED BY <2>1, <2>2, <2>3, <2>4 DEF LinkInv, LinkProgress
<1> QED BY <1>3, <1>4 DEF LinkInv

\* A lost frame and a power cycle spoil the attempt.
LEMMA SpoilKeepsLink ==
  ASSUME LinkInv, LoseUbx \/ PowerCycle
  PROVE  LinkInv'
<1>1. unspoilt' = {} /\ port' = port
  BY DEF LoseUbx, PowerCycle
<1>2. todo' \in Seq(Steps)
  BY FirstStep DEF LinkInv, LinkTypeOK, LoseUbx, PowerCycle
<1>3. receiver' \in [baud : Bauds, set : SUBSET Settings]
  BY DEF LinkInv, LinkTypeOK, LoseUbx, PowerCycle, Unconfigured, Bauds
<1> QED BY <1>1, <1>2, <1>3 DEF LinkInv, LinkTypeOK, LinkProgress

LEMMA LinkConfiguredHolds ==
  ASSUME LinkInv
  PROVE  LinkConfigured
<1> SUFFICES ASSUME todo = <<>>, "begin" \in unspoilt PROVE Configured
  BY DEF LinkConfigured
<1>1. Len(todo) = 0
  OBVIOUS
<1>2. ~StepsLeft(0) /\ ~StepsLeft(1) /\ ~StepsLeft(2)
  BY <1>1, BeginIs, ConfigurationSteps DEF StepsLeft
<1>3. Sending
  BY <1>2 DEF LinkInv, LinkProgress
<1>4. receiver.set \subseteq Settings
  BY DEF LinkInv, LinkTypeOK
<1>5. \A m \in Settings : m \in receiver.set
  BY <1>1, <1>3 DEF Sending
<1>6. receiver.set = Settings
  BY <1>4, <1>5
<1> QED BY <1>3, <1>6 DEF Configured, LinkUp, Sending
-----------------------------------------------------------------------------
(* The device. *)

ViewTypeOK ==
  /\ written \in 0 .. Writes /\ restarted \in BOOLEAN
  /\ connected \in BOOLEAN /\ late \in BOOLEAN /\ fix \in {"none", "void", "valid"}

DeviceInv == CalibrationInv /\ LinkInv /\ ViewTypeOK /\ PresentMeansConfigured

LEMMA WritesRange ==
  /\ Writes \in 0 .. Writes /\ 0 \in 0 .. Writes
  /\ 0 .. Writes - 1 \subseteq 0 .. Writes
  BY WritesAssumption

LEMMA InitDeviceInv == DeviceInit => DeviceInv
<1> SUFFICES ASSUME DeviceInit PROVE DeviceInv
  OBVIOUS
<1>1. CalibrationInv
  BY InitCalibrationInv DEF DeviceInit
<1>2. LinkInv
  <2>1. LinkTypeOK
    BY BeginIs DEF DeviceInit, LinkInit, LinkTypeOK, Bauds
  <2>2. StepsLeft(0)
    BY BeginIs DEF DeviceInit, LinkInit, StepsLeft
  <2> QED BY <2>1, <2>2 DEF LinkInv, LinkProgress
<1>3. ViewTypeOK
  BY WritesRange DEF DeviceInit, ViewTypeOK
<1>4. PresentMeansConfigured
  BY DEF DeviceInit, PresentMeansConfigured
<1> QED BY <1>1, <1>2, <1>3, <1>4 DEF DeviceInv

\* Steps that leave zeroing, the link or the sensor alone keep their share.
LEMMA CalibrationLeft == CalibrationInv /\ UNCHANGED vars => CalibrationInv'
  BY NextCalibrationInv

LEMMA LinkLeft == LinkInv /\ UNCHANGED linkVars => LinkInv'
  BY DEF linkVars, LinkInv, LinkTypeOK, LinkProgress, StepsLeft, Sending

LEMMA SensorLeft ==
  ASSUME ViewTypeOK, PresentMeansConfigured, UNCHANGED sensorVars, imuPresent' => imuPresent
  PROVE  PresentMeansConfigured' /\ written' \in 0 .. Writes /\ restarted' \in BOOLEAN
  BY DEF sensorVars, ViewTypeOK, PresentMeansConfigured

\* Mpu6050::begin.
LEMMA ProbeKeeps ==
  ASSUME ViewTypeOK, imuPresent' \in BOOLEAN, Probe
  PROVE  PresentMeansConfigured' /\ written' \in 0 .. Writes /\ restarted' \in BOOLEAN
<1>1. CASE imuPresent'
  BY <1>1, WritesRange DEF Probe, PresentMeansConfigured
<1>2. CASE ~imuPresent'
  BY <1>2, WritesRange DEF Probe, PresentMeansConfigured, ViewTypeOK
<1> QED BY <1>1, <1>2

\* The zeroing of a device that restarts.
LEMMA RestartCalibration ==
  ASSUME DeviceRestart
  PROVE  CalibrationInv'
<1>1. /\ imuPresent' \in BOOLEAN
      /\ state' = (IF imuPresent' THEN "kRunning" ELSE "kIdle")
      /\ calibrationRunning' = imuPresent'
      /\ collected' = 0 /\ lowest' = 0 /\ highest' = 0 /\ sum' = 0 /\ window' = <<>>
      /\ zeroed' = FALSE /\ imuCalibrated' = FALSE /\ calibrationRejected' = FALSE
      /\ mixed' = FALSE /\ zeroFrom' = <<>>
  BY DEF DeviceRestart
<1>2. TypeOK'
  <2>1. collected' \in 0 .. Required /\ collected' < Required
    BY <1>1, CalibrationAssumption
  <2>2. window' \in Seq(Reading) /\ zeroFrom' \in Seq(Reading)
    BY <1>1, NoReadings
  <2> QED BY <1>1, <2>1, <2>2 DEF TypeOK
<1>3. WindowSummary'
  <2>1. 1 .. collected' = {} /\ Len(window') = 0
    BY <1>1
  <2> QED BY <1>1, <2>1 DEF WindowSummary
<1>4. /\ FlagsTellTheState' /\ WindowFromOneSensorState' /\ CaptureOrZero'
      /\ ZeroFromStillWindow'
  BY <1>1 DEF FlagsTellTheState, ZeroFromStillWindow, WindowFromOneSensorState, CaptureOrZero
<1> QED BY <1>2, <1>3, <1>4 DEF CalibrationInv

LEMMA NextDeviceInv == DeviceInv /\ [DeviceNext]_deviceVars => DeviceInv'
<1> SUFFICES ASSUME DeviceInv, [DeviceNext]_deviceVars PROVE DeviceInv'
  OBVIOUS
<1>0. CalibrationInv /\ LinkInv /\ ViewTypeOK /\ PresentMeansConfigured
      /\ imuPresent \in BOOLEAN
  BY DEF DeviceInv, CalibrationInv, TypeOK
<1>1. CASE DeviceSample
  <2>1. CalibrationInv' /\ imuPresent' = imuPresent
    BY <1>0, <1>1, SampleKeeps DEF DeviceSample, Sample
  <2> QED BY <1>0, <1>1, <2>1, LinkLeft, SensorLeft
          DEF DeviceSample, viewVars, ViewTypeOK, DeviceInv
<1>2. CASE DeviceShortPress
  <2>1. CalibrationInv' /\ imuPresent' = imuPresent
    BY <1>0, <1>2, CommandKeeps DEF DeviceShortPress, Command, ShortPress
  <2> QED BY <1>0, <1>2, <2>1, LinkLeft, SensorLeft
          DEF DeviceShortPress, viewVars, ViewTypeOK, DeviceInv
<1>3. CASE DeviceLongPress
  <2>1. CalibrationInv'
    BY <1>0, <1>3, CommandKeeps DEF DeviceLongPress, Command
  <2>2. LinkInv'
    BY <1>0, <1>3, HotStartLink DEF DeviceLongPress, Looping
  <2>3. imuPresent' \in BOOLEAN /\ (imuPresent' => imuPresent)
    BY <1>0, <1>3 DEF DeviceLongPress, LongPress
  <2>4. PresentMeansConfigured' /\ written' \in 0 .. Writes /\ restarted' \in BOOLEAN
    BY <1>0, <1>3, <2>3, ProbeKeeps, SensorLeft DEF DeviceLongPress
  <2> QED BY <1>0, <1>3, <2>1, <2>2, <2>4 DEF DeviceLongPress, viewVars, ViewTypeOK, DeviceInv
<1>4. CASE DeviceRetryImu
  <2>1. CalibrationInv' /\ imuPresent' \in BOOLEAN
    BY <1>0, <1>4, CommandKeeps DEF DeviceRetryImu, Command, RetryImu
  <2> QED BY <1>0, <1>4, <2>1, LinkLeft, ProbeKeeps
          DEF DeviceRetryImu, viewVars, ViewTypeOK, DeviceInv
<1>5. CASE GpsDiagnostics
  <2>1. LinkInv'
    BY <1>0, <1>5, BeginLink DEF GpsDiagnostics, GpsBegin, LinkInv, LinkTypeOK
  <2>2. CalibrationInv' /\ imuPresent' = imuPresent
    BY <1>0, <1>5, CalibrationLeft DEF GpsDiagnostics, vars
  <2> QED BY <1>0, <1>5, <2>1, <2>2, SensorLeft
          DEF GpsDiagnostics, viewVars, ViewTypeOK, DeviceInv
<1>6. CASE GpsStep
  <2>1. LinkInv'
    BY <1>0, <1>6, OpenKeepsLink, SendKeepsLink, SpoilKeepsLink DEF GpsStep
  <2>2. CalibrationInv' /\ imuPresent' = imuPresent
    BY <1>0, <1>6, CalibrationLeft DEF GpsStep, vars
  <2> QED BY <1>0, <1>6, <2>1, <2>2, SensorLeft DEF GpsStep, viewVars, ViewTypeOK, DeviceInv
<1>7. CASE SensorRestart
  <2>1. CalibrationInv' /\ LinkInv'
    BY <1>0, <1>7, CalibrationLeft, LinkLeft DEF SensorRestart
  <2> QED BY <1>0, <1>7, <2>1, WritesRange
          DEF SensorRestart, viewVars, ViewTypeOK, PresentMeansConfigured, DeviceInv
<1>8. CASE OnGnssFix \/ Silence \/ LinkChange
  <2>1. UNCHANGED <<vars, linkVars, sensorVars>>
    BY <1>8 DEF OnGnssFix, Silence, LinkChange
  <2>2. CalibrationInv' /\ LinkInv' /\ imuPresent' = imuPresent
    BY <1>0, <2>1, CalibrationLeft, LinkLeft DEF vars
  <2>3. connected' \in BOOLEAN /\ late' \in BOOLEAN /\ fix' \in {"none", "void", "valid"}
    BY <1>0, <1>8 DEF OnGnssFix, Silence, LinkChange, ViewTypeOK
  <2> QED BY <1>0, <2>1, <2>2, <2>3, SensorLeft DEF ViewTypeOK, DeviceInv
<1>9. CASE DeviceRestart
  <2>1. LinkInv'
    <3>1. port' \in Bauds /\ receiver' \in [baud : Bauds, set : SUBSET Settings]
      BY <1>0, <1>9 DEF DeviceRestart, LinkInv, LinkTypeOK, Bauds
    <3> QED BY <1>9, <3>1, BeginLink DEF DeviceRestart
  <2>2. written' \in 0 .. Writes /\ PresentMeansConfigured'
    BY <1>0, <1>9, WritesRange DEF DeviceRestart, ViewTypeOK, PresentMeansConfigured
  <2>3. ViewTypeOK'
    BY <1>0, <1>9, <2>2 DEF DeviceRestart, ViewTypeOK
  <2> QED BY <1>9, <2>1, <2>2, <2>3, RestartCalibration DEF DeviceInv
<1>10. CASE UNCHANGED deviceVars
  <2>1. CalibrationInv' /\ LinkInv' /\ imuPresent' = imuPresent
    BY <1>0, <1>10, CalibrationLeft, LinkLeft DEF deviceVars, vars
  <2> QED BY <1>0, <1>10, <2>1, SensorLeft DEF deviceVars, viewVars, ViewTypeOK, DeviceInv
<1> QED BY <1>1, <1>2, <1>3, <1>4, <1>5, <1>6, <1>7, <1>8, <1>9, <1>10 DEF DeviceNext

-----------------------------------------------------------------------------
(* The theorems. *)

\* Types (calibrator, link, sensor, and what the LED and the status read).
THEOREM DeviceTypeCorrect == DeviceSpec => []DeviceTypeOK
<1>1. DeviceInv => DeviceTypeOK
  BY DEF DeviceInv, CalibrationInv, LinkInv, ViewTypeOK, DeviceTypeOK
<1> QED BY <1>1, InitDeviceInv, NextDeviceInv, PTL DEF DeviceSpec

\* In the whole device, with restarts at any moment, the zero in use comes from a
\* full still window.
THEOREM DeviceZeroIsTrustworthy == DeviceSpec => []ZeroFromStillWindow
<1>1. DeviceInv => ZeroFromStillWindow
  BY DEF DeviceInv, CalibrationInv
<1> QED BY <1>1, InitDeviceInv, NextDeviceInv, PTL DEF DeviceSpec

\* Samples are only taken from a sensor with its whole configuration, whatever
\* register writes failed before (Mpu6050::begin, retryImu, handleLongPress).
THEOREM SensorIsConfigured == DeviceSpec => []PresentMeansConfigured
<1>1. DeviceInv => PresentMeansConfigured
  BY DEF DeviceInv
<1> QED BY <1>1, InitDeviceInv, NextDeviceInv, PTL DEF DeviceSpec

\* begin configures a receiver that hears it, at whichever of the two rates it was
\* and with whatever settings, and hot starts keep it configured
\* (GpsReceiver::begin, requestHotStart, applyConfiguration).
THEOREM BeginConfigures == DeviceSpec => []LinkConfigured
<1>1. DeviceInv => LinkConfigured
  BY LinkConfiguredHolds DEF DeviceInv
<1> QED BY <1>1, InitDeviceInv, NextDeviceInv, PTL DEF DeviceSpec

LEMMA FlagsSent ==
  /\ "CalibrationRunning" \in StatusFlags <=> calibrationRunning
  /\ "CalibrationRejected" \in StatusFlags <=> calibrationRejected
  /\ "ImuCalibrated" \in StatusFlags <=> imuCalibrated
  /\ "GnssStale" \in StatusFlags <=> IsGnssStale
  BY DEF StatusFlags

\* The LED and the status channel never disagree (currentPattern, statusFlags).
THEOREM LedAgrees == DeviceSpec => []LedAgreesWithStatus
<1>1. DeviceInv => LedAgreesWithStatus
  <2> SUFFICES ASSUME DeviceInv PROVE LedAgreesWithStatus
    OBVIOUS
  <2>1. /\ state \in {"kIdle", "kRunning", "kComplete", "kRejected"}
        /\ FlagsTellTheState /\ CaptureOrZero
    BY DEF DeviceInv, CalibrationInv, TypeOK
  <2>2. LedPattern = "kCalibrating" <=> state = "kRunning"
    BY DEF LedPattern, Pattern
  <2>3. LedPattern = "kFault" /\ imuPresent => state = "kRejected"
    BY DEF LedPattern, Pattern
  <2>4. LedPattern \in {"kSearching", "kConnected", "kReady"}
          => state # "kRunning" /\ state # "kRejected" /\ imuPresent
    BY DEF LedPattern, Pattern
  <2>5. LedPattern = "kReady" => ~IsGnssStale
    BY DEF LedPattern, Pattern
  <2> QED BY <2>1, <2>2, <2>3, <2>4, <2>5, FlagsSent
          DEF LedAgreesWithStatus, FlagsTellTheState, CaptureOrZero
<1> QED BY <1>1, InitDeviceInv, NextDeviceInv, PTL DEF DeviceSpec
=============================================================================
