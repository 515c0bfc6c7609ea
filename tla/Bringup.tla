------------------------------ MODULE Bringup ------------------------------
(***************************************************************************)
(* The device as the driver meets it: zeroing (Calibration) and the        *)
(* receiver's link (GpsLink) under the commands of SET and the console,    *)
(* the sensor's driver hal::Mpu6050, the status LED and the status flags.  *)
(* Restarts of the device, the receiver and the sensor come at any moment. *)
(* While a call of the GPS driver blocks, the loop does nothing else.      *)
(***************************************************************************)
EXTENDS Calibration, GpsLink

CONSTANTS Writes    \* the register writes of Mpu6050::begin after the reset

ASSUME WritesAssumption == Writes \in Nat \ {0}

VARIABLES
  written,     \* how many of them the sensor has had since it was last reset
  restarted,   \* history: the sensor has restarted since begin last succeeded
  connected,   \* bleServer.isConnected()
  fix,         \* lastFix_ of the pipeline: "none", or whether it was navigationValid
  late         \* nowMs - lastFixMs_ is more than gnssStaleAfterMs

sensorVars == <<written, restarted>>
viewVars == <<connected, fix, late>>
deviceVars == <<vars, linkVars, sensorVars, viewVars>>

DeviceTypeOK ==
  /\ TypeOK /\ LinkTypeOK
  /\ written \in 0 .. Writes /\ restarted \in BOOLEAN
  /\ connected \in BOOLEAN /\ late \in BOOLEAN /\ fix \in {"none", "void", "valid"}

-----------------------------------------------------------------------------
\* Faulty variant of Probe: the last write alone decides.
ProbeLastWrite ==
  /\ written' \in (IF imuPresent' THEN 0 .. Writes ELSE 0 .. Writes - 1)
  /\ restarted' = FALSE

\* Mpu6050::begin, with the result in imuPresent': it gives up at the first
\* register that does not answer, the identity and the reset included.
Probe ==
  IF imuPresent'
  THEN written' = Writes /\ restarted' = FALSE
  ELSE written' \in {written} \cup 0 .. Writes - 1 /\ UNCHANGED restarted

\* setup.
DeviceInit ==
  /\ Init /\ LinkInit
  /\ written \in (IF imuPresent THEN {Writes} ELSE 0 .. Writes - 1)
  /\ restarted = FALSE
  /\ connected = FALSE /\ fix = "none" /\ late = FALSE

\* The loop runs when no call blocks it.
Looping == todo = <<>>

DeviceSample ==
  /\ Looping /\ \E r \in Reading : Sample(r)
  /\ UNCHANGED <<linkVars, sensorVars, viewVars>>

DeviceShortPress ==
  /\ Looping /\ ShortPress
  /\ UNCHANGED <<linkVars, sensorVars, viewVars>>

\* handleLongPress: the sensor is reset (if there is one) and the receiver hot
\* started; the capture that startCalibration opens last is open here from the
\* start, unobserved while the call blocks.
DeviceLongPress ==
  /\ Looping /\ LongPress /\ GpsHotStart
  /\ IF imuPresent THEN Probe ELSE UNCHANGED sensorVars
  /\ UNCHANGED viewVars

DeviceRetryImu ==
  /\ Looping /\ RetryImu /\ Probe
  /\ UNCHANGED <<linkVars, viewVars>>

\* runGpsDiagnostics, "g" on the console, ends with begin.
GpsDiagnostics ==
  /\ Looping /\ GpsBegin
  /\ UNCHANGED <<vars, sensorVars, viewVars>>

\* The steps of a call that blocks, and what the receiver does meanwhile.
GpsStep ==
  /\ OpenPort \/ SendUbx \/ LoseUbx \/ PowerCycle
  /\ UNCHANGED <<vars, sensorVars, viewVars>>

\* The sensor restarts with the defaults of its registers; reads still answer.
SensorRestart ==
  /\ written' = 0 /\ restarted' = TRUE
  /\ UNCHANGED <<vars, linkVars, viewVars>>

\* serviceGps and onGnssFix, of an epoch with or without a position.
OnGnssFix ==
  /\ Looping /\ LinkUp
  /\ fix' \in {"void", "valid"} /\ late' = FALSE
  /\ UNCHANGED <<vars, linkVars, sensorVars, connected>>

\* Three seconds pass without one; after 49 days the difference of the clocks wraps
\* and the last fix looks fresh again.
Silence ==
  /\ fix # "none" /\ late' = ~late
  /\ UNCHANGED <<vars, linkVars, sensorVars, connected, fix>>

LinkChange ==
  /\ connected' = ~connected
  /\ UNCHANGED <<vars, linkVars, sensorVars, fix, late>>

\* The device restarts and runs setup; the receiver keeps its power.
DeviceRestart ==
  /\ imuPresent' \in BOOLEAN
  /\ state' = (IF imuPresent' THEN "kRunning" ELSE "kIdle")
  /\ calibrationRunning' = imuPresent'
  /\ collected' = 0 /\ lowest' = 0 /\ highest' = 0 /\ sum' = 0 /\ window' = <<>>
  /\ zeroed' = FALSE /\ imuCalibrated' = FALSE /\ calibrationRejected' = FALSE
  /\ mixed' = FALSE /\ zeroFrom' = <<>>
  /\ port' = BootBaud /\ todo' = BeginSteps /\ unspoilt' = {"begin"} /\ receiver' = receiver
  /\ written' \in (IF imuPresent' THEN {Writes} ELSE {written} \cup 0 .. Writes - 1)
  /\ restarted' = (restarted /\ ~imuPresent')
  /\ connected' = FALSE /\ fix' = "none" /\ late' = FALSE

DeviceNext ==
  \/ DeviceSample \/ DeviceShortPress \/ DeviceLongPress \/ DeviceRetryImu
  \/ GpsDiagnostics \/ GpsStep \/ SensorRestart
  \/ OnGnssFix \/ Silence \/ LinkChange \/ DeviceRestart

DeviceSpec == DeviceInit /\ [][DeviceNext]_deviceVars

-----------------------------------------------------------------------------
\* isGnssStale.
IsGnssStale == fix = "none" \/ late

\* currentPattern.
LedPattern ==
  IF Pattern # "kLink" THEN Pattern
  ELSE IF ~connected THEN "kSearching"
  ELSE IF IsGnssStale THEN "kConnected" ELSE "kReady"

\* statusFlags.
StatusFlags ==
  {flag \in {"ImuCalibrated", "GnssFixValid", "CalibrationRunning", "CalibrationRejected",
             "GnssStale"} :
     CASE flag = "ImuCalibrated" -> imuCalibrated
       [] flag = "GnssFixValid" -> fix = "valid" /\ ~IsGnssStale
       [] flag = "CalibrationRunning" -> calibrationRunning
       [] flag = "CalibrationRejected" -> calibrationRejected
       [] flag = "GnssStale" -> IsGnssStale}

\* What the LED shows the driver and what the status channel tells the app agree,
\* through every command and restart: a capture, a rejection, a zero in use and
\* a link that has gone quiet (currentPattern and statusFlags read different
\* copies).
LedAgreesWithStatus ==
  /\ LedPattern = "kCalibrating" <=> "CalibrationRunning" \in StatusFlags
  /\ LedPattern = "kFault" /\ imuPresent => "CalibrationRejected" \in StatusFlags
  /\ LedPattern \in {"kSearching", "kConnected", "kReady"} => "ImuCalibrated" \in StatusFlags
  /\ LedPattern = "kReady" => "GnssStale" \notin StatusFlags

\* Samples are only taken from a sensor that has had its whole configuration,
\* whatever register writes failed in the attempts before, unless it restarts by
\* itself (Mpu6050::begin, retryImu, handleLongPress).
PresentMeansConfigured == imuPresent /\ ~restarted => written = Writes
=============================================================================
