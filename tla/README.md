# kart-gps-racechrono: models, checks and proofs

The firmware in `src/` turns an ESP32 with a u-blox GNSS receiver and an
MPU-6050 into a RaceChrono "DIY" BLE device. This directory holds TLA+ modules
that model it, configurations that model-check them with TLC, and proofs
checked with TLAPS. `PROJECT.json` maps every definition to the lines it
models, lists the runs, the faulty variants that each property must catch, the
hazards of the code, and the proved theorems.

All paths below are relative to the repository's root as it appears under
`src/`: `main.cpp` is `src/src/main.cpp`, `ble_server.cpp` is
`src/src/hal/ble_server.cpp`, `rc_protocol.cpp` is
`src/lib/rc_protocol/src/rc_protocol.cpp`, and so on.

## 1. Inventory

The program has two threads. The Arduino task runs `setup()` once and `loop()`
for ever: `drainEvents`, `serviceGps`, `serviceImu`, `serviceButton`, `tick`,
LED, console. NimBLE's host task runs three callbacks: link up, link down,
filter write. Nothing is persisted. Everything else is a call inside `loop()`.

| Component | State | Operations | Hard behaviour | Correct when |
| --- | --- | --- | --- | --- |
| BLE server (`ble_server.cpp`) | link flag, event slot of one, ring of eight filter writes with head and count, drop counter | host task: `onConnectionChanged`, `enqueueFilterWrite`; loop: `drainEvents`, `notify*`, `isConnected` | two threads, only the ring is under a lock; the slot is overwritten and cleared without one; full queue | writes leave in order, once, or are counted as dropped; a connection publishes under its own subscription |
| CAN filter (`rc_protocol.cpp`) | allow-all and its interval and clock, table of eight PIDs with interval and clock | `reset`, `handleWrite`, `isAllowed`, `shouldNotify` | table full, repeated and conflicting commands, clock wrap | it allows what the app's writes add up to, at the interval asked |
| Telemetry pipeline (`pipeline.cpp`) | filter, encoder, two rate limiters, last fix, status flags | `onConnect`, `onDisconnect`, `onGnssFix`, `onMotionSample`, `tick`, `onCanFilterWrite`, `resetSession`, setters | rate taken before the filter is asked, interval consumed before the packet is delivered, link changing in between | rates kept, listed channels keep flowing, flags agree with what they report |
| GPS encoder (`rc_protocol.cpp`) | sync bits, last date and hour | `encode`, `reset`, the field encoders | state committed before delivery; three-bit counter; two forms of altitude and speed | the app never joins a position with the wrong hour, and reads the value that was measured |
| SET button (`button.cpp`) | stable level, candidate and its time, press time, reported flag | `update` | bounce, uneven sampling, clock wrap | one action per press |
| Zeroing (`imu.cpp`, `main.cpp`) | calibrator's window, zero in use, `imuPresent`, three flags | `begin`, `addSample`, `finish`; `startCalibration`, short and long press, `retryImu`, `serviceImu`, `currentPattern` | captures started over, sensor lost in the middle | every zero in use comes from one whole still window; LED and flags tell the truth |
| NMEA parsing and fix assembly (`nmea.cpp`) | sentence buffer; fix in assembly, epoch key, seen and taken flags | `push`, field parsers, `consume`, `takeCompletedFix`, `reset` | lost, damaged and late sentences, the date carried over | a fix mixes no two epochs; a field is read as it was written |
| GPS receiver (`gps_receiver.cpp`) | UART, last fix, counters | `begin`, `applyConfiguration`, `poll`, `requestHotStart` | baud-rate switch, a receiver that restarts, several fixes in one poll | the port and the receiver agree on the rate, every setting is made |
| UBX frames (`ublox.cpp`) | none | frame builders, checksum | a damaged frame | sets what it was built to set, or nothing |
| Channel payloads (`channels.cpp`) | none | `encodeMotionPayload`, `encodeStatusPayload` | saturation, sentinels | decodes to the value, clipped |
| Session timer (`session_timer.h`) | start, resets | `reset`, `elapsedMs` | wrap, 16-to-8-bit count | elapsed time exact modulo 2^32 |
| Motion processor (`imu.cpp`) | zero, rotation | `setBias`, `clearCalibration`, `setMounting`, `process` | mountings with special cases of the rotation, the end of the sensor's range | a kart at rest reads zero; up, forward and level come out as such |
| Accelerometer characterisation (`imu.cpp`) | extremes per axis, run of steady readings | `addSample`, `axis` | readings while the box swings | an extreme is a face of the box |
| MPU-6050 driver (`mpu6050.cpp`) | what has been configured | `begin`, `read`, `resetSignalPath` | a failure half way, a sensor that restarts | samples come from a configured sensor |
| Console, diagnostics, configuration | - | printing, bus probing; four keys change state | pure I/O otherwise | - |

Interactions: the host task shares `connected_`, `pendingEvent_` and the ring
with the loop; `drainEvents` calls the pipeline; the pipeline calls the BLE
server back through `PacketSink` (`isConnected`, `notify*`), so that
`connected_` is read again after it was tested; the button and the console call
the pipeline, the calibrator, the sensor and the receiver; the LED reads the
calibrator, the processor, the link and the age of the last fix.

The section `hazards` of `PROJECT.json` lists what is hard to test, each at its
line, with the properties that would catch it, or a note that says why none does.

## 2. Modules

| Module | Models | Composes |
| --- | --- | --- |
| `BoundedFifo` | what a queue of bounded length promises | |
| `FilterQueue` | the ring of filter writes; refines `BoundedFifo` | `INSTANCE BoundedFifo` |
| `Subscription` | what the CAN filter grants, without clocks, and whose write granted it | |
| `BleServer` | the two threads: callbacks, `drainEvents`, publishing decision, `notify` | `FilterQueue`, `Subscription` |
| `Millis` | the wrapping clock, `RateLimiter` | |
| `CanFilter` | the filter with intervals and clocks | `Millis`, `Subscription` |
| `Publishing` | one loop turn as the CAN channels see it: drain, motion, tick | `CanFilter` |
| `GpsSync` | `onGnssFix`, sync bits, characteristics 0x0003 and 0x0004, an app that joins them | |
| `SetButton` | `ButtonDebouncer::update` | `Millis` |
| `Calibration` | calibrator, commands, flags, the LED's part in them | |
| `GpsLink` | `GpsReceiver::begin`, `applyConfiguration`, `requestHotStart`, frame by frame, and a receiver at one of two rates | |
| `Bringup` | the whole device under SET and console: zeroing, the receiver's link, `Mpu6050::begin`, the LED and the status flags, restarts of device, sensor and receiver | `Calibration`, `GpsLink` |
| `Sentences` | `SentenceAssembler::push` behind a noisy line | |
| `FixAssembly` | `FixAssembler`, `GpsReceiver::poll`, the receive buffer, and the receiver that fills it | |
| `Rounding` | `roundClamp`, `saturateToInt16` over rationals | |
| `NmeaFields` | the field parsers of `nmea.cpp`, and numerals as the receiver writes them | `Rounding` |
| `GpsFields` | the field encoders of `rc_protocol.cpp`, and the app's reading of them | `Rounding` |
| `MotionMath` | trim, scales, levelling rotation, bias, sample rate | `Rounding` |
| `Channels` | motion and status payloads, `SessionTimer` | `MotionMath`, `Millis` |
| `Characterizer` | `AccelCharacterizer` | `MotionMath` |
| `UbxFrames` | frame builders, checksum, and the frame's other end | |
| `Readings` | one measurement at a time, from the receiver or the sensor to what the app shows; one frame from the driver to the receiver | the seven above |
| `MCBleServer`, `MCBringup`, `MCReadings`, `MCSentences` | finite instances | the module of the name |
| `BleServerProofs`, `PublishingProofs`, `GpsSyncProofs`, `SetButtonProofs`, `BringupProofs`, `SentencesProofs`, `FixAssemblyProofs`, `ReadingsProofs` | theorems | the module of the name and those it extends |

### How state and actions correspond to the code

**BleServer.** A step is a stretch of code between two accesses to unprotected
shared state. `LinkUp`/`LinkDown` end with the write of `connected_`,
`RaiseEvent` is the write of `pendingEvent_` after it; `ReadEvent` and
`Dispatch` are the read and the clearing of that slot, which an event may fall
between; `Pop` is the critical section of one draining turn and `Apply` the
call made outside it; `Decide` is the pipeline's decision to publish (with the
first look at `connected_`) and `Notify` the second look and the transmission.
`connectionHandle_` is never read and is left out. Clocks are left to
chance: `Withhold` may always be taken. The variables under "History" record
what happened and influence nothing.

**CanFilter, Publishing.** The PID table is a function from PID to entry, a
refused interval standing for "not listed" (the array's order is never
observed). `Turn` reads the clock; `OnMotionSample` and `Tick` take their rate
limiter, then ask the filter. The transport's answer is left out because
nothing depends on it except counters. Connection events reach the loop with
any delay, so `OnConnect` and `OnDisconnect` may happen whenever the queue is
drained, a superset of what `BleServer` allows. `resetSession` comes from the
button, between motion and tick, or from the console after tick.

**GpsSync.** `OnGnssFix` ends where `encode` has committed the hour and the sync
bits; `NotifyMain` and `NotifyTime` are the two notifications, and `LinkChange`
may come between any two of the three. The app is external: it reads 0x0004 when
it likes, may miss a notification, and uses time data only for main packets with
the same sync bits. `dated` is the assembler's date, which a long press drops.

**SetButton.** One action per branch of `update`: `Press`, `Release`,
`StartCandidate`, `KeepLevel`; the last two fall through to `ReportHold`.

**Calibration.** A reading is a number standing for all axes; the two checks of
`finish` become a spread and a mean. `LongPress` and `RetryImu` choose whether
the sensor answers. `mixed` is history: the window has readings from before the
last reset of the sensor.

**GpsLink, Bringup.** A call of the GPS driver blocks the loop; `todo` is what it
has still to do, one `OpenPort` or `SendUbx` at a time, and `Looping` says that
none is under way. `receiver` is external: its rate and the settings it has
taken; it hears a frame only at its own rate, may miss one (`LoseUbx`), and may
be power cycled at any moment. `Probe` is `Mpu6050::begin`, which gives up at
the first register that does not answer: how far it came is `written`.
`SensorRestart` and `DeviceRestart` come at any moment, the latter with the
receiver keeping its settings. `fix` and `late` are what `isGnssStale` and
`statusFlags` read of the last fix. A long press opens the capture before its
frames are sent; in the code it is the other way about, with nobody looking in
between.

**Sentences.** A byte is a set of bits and exclusive or the symmetric difference;
`InBody`, `HighDigit` and `LowDigit` are the cases of `push`, `Checksum` the
definition that the running sum must agree with. `out` is what `poll` has got,
which it reads as soon as `push` returns true. The line may lose or garble one
byte of a sentence, or damage it beyond any bound. One thing is outside the
model: a byte that turns into `$` or `*` (the `.` of a field is one bit away
from `*`), with which the rest of a sentence may be a sentence of its own with
probability 1/256. `EmittedAsSent` and `IntactIsAccepted` together are what
`FixAssembly` builds on: a sentence comes through as sent, or is lost.

**FixAssembly.** A sentence carries a stamp, the epoch it speaks of, in place of
its values, so that each part of a fix shows where it came from; a time of day
comes back every `Day` epochs. `BeginEpoch`, `WithRmc`, `WithGga`, `WithGsa` and
`Consume` are the branches of `consume`, `Taken` is `takeCompletedFix`;
`StartPoll`, `ReadSentence` and `EndPoll` are `poll` and the hand-over in
`serviceGps`, and the receiver may send between any two sentences read. The
receiver is external: the order of a burst is the one `nmea.h` recommends, and
sentences are lost from a full buffer or to a bad checksum. The byte budget of a
poll is left out: a poll may end after any sentence.

**Readings and the modules under it.** Pure functions, as operators. A float is
the rational it stands for, so that a value is exact up to the rounding the code
asks for; a field of a sentence is a numeral, sign, digits and decimals. Gravity
is an integer vector of integer length, so that Rodrigues' formula has rational
entries, and yaw is in quarter turns. Each action of `Readings` takes one
measurement through every conversion between its source and the app (`Position`,
`Time`, `Altitude`, `Speed`, `Bearing`, `Dilution`, `Quality`, `Status`,
`SampleRate`, `Motion`) and keeps what was given and what is shown; `Altitude`
and `Speed` may follow each other, so that an action property can compare two. A
field may also be empty, or hold an altitude without a fix: the value given is then
`Unknown`, a constant that is no number, the parser's answer reaches the encoder as
its `valid`, and the app shows `Unknown` for the field's sentinel
(`rc_protocol.h:44`), whatever it was that was sent as one;
`Characterize` feeds `AccelCharacterizer` one reading after another. `Messages` is
what `begin`, `applyConfiguration` and `requestHotStart` send, each with what it is
meant to set; `Configure` and `Damage` send one whole or with one byte wrong. The app and the
receiver's side are external.

## 3. What the runs check

| Run | Instance | Shows |
| --- | --- | --- |
| `ble` | two connections, three writes, queue of two, table of one PID | `NoUnwrittenSlot`, `IsFifo` (the ring refines a bounded FIFO within the whole system), `WritesAccounted`, `PublishesUnderOwnSubscription`, `PromptDenyAll` (deny all until asked, while the link changes only when the loop has caught up with it), `EveryWriteApplied` |
| `publishing` | two channels, intervals 0 and 3, rates 2 and 4, clock of 7 | `FilterKeepsPermissions`, `MotionCeiling`, `AppIntervalHonoured`, `ListedChannelFlows` |
| `status_starved` | allow-all with interval 3 | finding: `StatusFlows` fails |
| `gps_sync` | five hours, sync counter of three | `ShownHourIsRight`, `TimeDataIsThere` |
| `set_button` | debounce 2, long press 4, samples 1 or 3 apart, clock of 9 | `OneActionPerPress`, `EdgesAreDebounced`, `LongPressIsHeld`, `HoldIsReported` |
| `calibration` | four readings, window of three | `FlagsTellTheState`, `ZeroFromStillWindow`, `WindowFromOneSensorState`, `QuietLedMeansZeroed`, `CaptureEnds` |
| `bringup` | three readings, window of two, two messages, two register writes | `LedAgreesWithStatus`, `PresentMeansConfigured`, `LinkConfigured` |
| `power_cycled` | as `bringup`, one reading | finding: `LongPressRecovers` fails |
| `sentences` | buffer of two bytes, four bodies, one too long | `EmittedAsSent`, `AcceptedOnce`, `IntactIsAccepted` |
| `fix_assembly` | five epochs, three to a day, buffer of four sentences | `FixOfOneEpoch`, `DateIsOfTheEpoch`, `WholeEpochHandedOut`, `HandedOutOnce` |
| `readings` | values around every change of form, carry, sign and limit | `PositionIsRead`, `TimeIsRead`, `ValuesWithinResolution`, `OrderIsKept`, `StatusIsRead`, `LevelledByZero`, `FacesAreSettled`, `FramesHeardAsSent` |
| `handedness` | a flat box that faces forward | finding: `RightHandCornerReadsPositive` fails |

Every property of a passing run has a faulty variant of the code with which TLC
refutes it; the variants stand next to the definitions they change and say what
the fault is.

### Bounds, and why they are enough

- Queue depth 2 and three writes (code: 8): the ring wraps, fills and refuses;
  the proofs hold for every depth.
- One place in the PID table and two PIDs (code: 8): the second PID overflows
  it.
- Two connections: an old one and a new one; the proofs hold for any number.
- Clocks of 7 to 9 values (code: 2^32): every run wraps many times. An idle gap
  of one less than a wrap makes old timestamps look recent. The history ages
  that the timing properties compare with are real time, saturated at `MaxAge`,
  which is at least every interval.
- Sync counter of three values and five hours (code: eight values): it wraps
  with hours to spare. `ShownHourIsRight` speaks of time data less than one
  round old and of the same session; older data is outside what the protocol can
  tell.
- Window of three readings out of four, with pairs both inside and outside of
  the spread and means both inside and outside of the range for gravity; the
  device's window of two has both outcomes too.
- Two messages for the nine of `applyConfiguration` and two register writes for
  the driver's: a call can be cut off before, between and after. The proofs hold
  for every sequence and number.
- Bytes of four bits and digits of two (code: 8 and 4), a sentence buffer of two
  bytes (code: 127): sentences shorter than the buffer, exactly as long and
  longer, one whose checksum is zero, and digits in both cases.
- Five epochs of three a day: midnight is crossed, and a time of day comes back.
  Four sentences of buffer are more than one burst and less than two, so that a
  poll can find two epochs, or be left with a part of one. The line is never
  silent for a whole day (`Lose`): after exactly one day the time of day alone
  would not tell the epochs apart. Epochs run out, so this run does not look for
  deadlock.
- Measurements are sampled (`MCReadings`): every value next to the change from
  the fine to the coarse form of altitude and speed, minutes that carry into the
  next degree, times next to an hour's end and the leap second, dates at the ends
  of months and of the century, every altitude from a metre below the lowest one sent
  as the sentinel to the highest coarse one and past it, counts of satellites and
  dilutions either side of the largest that can be sent, empty fields, all 24
  mountings of the box on a face, with and without a trim that saturates, and the
  tilted mountings with rational directions among vectors of ones and twos.

`Item`, the set of queued writes, is given by `MCBleServer`; the other values
are in the configurations. No symmetry is used: PIDs are told apart by the
channels, connections by their order.

### Fairness

- `BleServer!Fairness`: the loop never blocks for good, because no call in
  `loop()` waits without a bound, and a callback that started returns.
- `Publishing!Fairness`: the loop keeps turning. Liveness of a channel is
  claimed only when the link stays up, the app leaves the channel listed,
  samples come on every turn and nobody presses SET for ever.
- `SetButton!FairSpec`: the loop keeps sampling.
- `Calibration!FairSpec`: a sensor that is present keeps answering. The code
  does not ensure it: when `mpu.read` fails for good the capture never ends
  (hazard at `main.cpp:217`).

Nothing is assumed about the phone, the person pressing SET, or the link. The
other runs check safety only and state no fairness.

## 4. What is proved

Checked by TLAPS, for every value of the constants that meets the modules'
assumptions.

- **BleServerProofs**, of the ring alone: `RingIsFifo`, that it implements a
  bounded FIFO under the mapping `Contents` (the writes in use, oldest first), and
  `OnlyWrittenSlots`, from the inductive invariant `QueueTypeOK /\
  NoUnwrittenSlot`. The argument is modular arithmetic: `LapDistinct` (positions
  less than one lap apart are different slots), hence `FreshSlot` (an accepted
  write overwrites none in use), and `LapShift` for the consumer.
- **BleServerProofs**, of both threads: `TypeCorrect`; `BleQueueIsFifo`, by mapping every step
  of the two threads to a step of the queue or a stutter; `AllWritesAccounted`;
  `PromptDenyAllHolds`, whose strengthening `PromptInv` says, for as long as
  `prompt` is true (`PromptStep`), that the ring, the loop's hand and the filter
  hold grants of the current connection only, that nothing is on its way to the
  filter while the link is down, and that a packet decided on is still allowed;
  and `OwnSubscription`, from `Replayed`: the write in the loop's hand and those
  in the ring lead, one after the other, from the filter to what the connection
  asked for.
- **PublishingProofs**: `PermissionsKept`, `MotionCeilingHolds`,
  `AppIntervalHolds`, `OnlyPermitted`, from `PubInv`, which adds to the types
  that a limiter never seems idle for longer than it was: the unsigned difference
  the code computes is at most the real time since the limiter was acquired
  (`RateSound`), which a turn of the loop keeps (`ElapsedGrows`). It shows the
  unsigned differences safe for every clock: a stale timestamp can delay a
  packet, never hasten one.
- **SetButtonProofs**: `ActsOnce`, `HoldsAreLong`, `DebouncedEdges`, by the same
  argument: `CandidateSound` and `HoldSound` bound the code's differences by the
  real time of the candidate and of the press.
- **BringupProofs**, of zeroing alone: `FlagsAgree`, `ZeroIsTrustworthy`, `WindowsAreWhole`,
  `QuietLedIsZeroed`, from `CalibrationInv`, whose key part `WindowSummary`
  says that minimum, maximum, sum and count describe the window: the still
  check is made on them, and the property is about the readings.
- **BringupProofs**, of the device: `DeviceZeroIsTrustworthy` and `LedAgrees`, carrying
  `CalibrationInv` through the device's restarts; `SensorIsConfigured`;
  and `BeginConfigures`, from `LinkProgress`: a `begin` that nothing has spoilt
  has one, two or three of its steps behind it, or is sending the configuration
  at the receiver's rate with every earlier message taken (`Sending`).
- **GpsSyncProofs**: `HourIsRight`, from `TimeSound` (time data of this session
  lags `k` announcements behind the counter, and at least `k` hours), so that
  equal bits within a round mean equal hours (`NoFullTurn`); `TimeDataKept`, from
  `Announced` (between two time packets, 0x0004 holds what was counted last).
- **FixAssemblyProofs**: `FixesAreWhole`, `DatesAreRight`, `WholeEpochs` and
  `HandsOutOnce` from one invariant. Sentences wait in the order they were sent
  (`InOrder`), all of them after what the assembler has (`Ahead`); each sentence
  with a time is less than a day after the one before it, which waits too or was
  the last the assembler took (`Chain`), so that an equal time of day means the
  same epoch (`TimeOfDayTells`) and anything older than the key has gone; a date
  once known stays known (`Dates`); a fix handed out is of an epoch that is over
  (`Behind`); and the flags say what was consumed (`Shape`, `Consumed`).

- **SentencesProofs**: `OnlyWhatWasSent`, `OnceOnly`, `IntactAccepted` and
  `TypeCorrect` from `SentenceInv`, which is about where the assembler stands in
  the sentence on the wire. `Whole`: while a sentence comes in undamaged and fits,
  the buffer is what was sent so far and the running sum its checksum. `Hurt`: after
  one byte has been lost or garbled the running sum is not that of the body, and
  what follows cannot mend it, since exclusive or with the same byte keeps
  different sums different; a damaged digit is the wrong half of the right sum.
  `Ended`: the end of a sentence leaves the assembler idle.
- **ReadingsProofs**: one theorem for each property of `Readings`.
  `PositionKept`, `TimeKept` and `StatusKept` are about numerals: a numeral written
  with so many digits reads back as its number (`WrittenField`, `NumberRead`), its
  two parts as quotient and remainder (`WholeAndPart`), and the rest is linear
  arithmetic with the quotients named. `ResolutionKept` and `OrderKept` rest on
  `roundClamp`, which is within half a unit of its argument, and monotone, and on
  which numbers are sentinels: `AltitudeIsRead` says that exactly the altitudes
  outside of `SentAltitudes` show as unknown, `SpeedStep` that no speed the receiver
  can write leaves `SentSpeeds`, and `InvalidIsUnknown` with `EmptyIsRefused` that what
  is not valid shows as unknown. Order is proved of values that the app has; a value
  that it does not have is neither higher nor lower than another.
  `FramesHeard` follows the Fletcher sums one byte at a time (`ChecksumSteps`): the
  first sums of two bodies that differ in one byte stay apart to the end
  (`SumsApart`), because adding the same byte keeps different bytes different; a
  wrong sync, length or checksum byte is found by its own test
  (`DamagedFrameIsNot`); a whole frame passes each (`WholeFrameIsValid`), and the
  words written into it are read back. `FacesSettled` has a history: its invariant
  `PosesTracked` (`Tracks`) says that the run of steady steps is the one the
  readings end in (`RunOf`), that as many readings were accepted as are settled,
  and that each extreme bounds all of these and is one of them (`ExtremesOf`).
  `ZeroLevels` is geometry over the integers. The turn of a zeroed box keeps lengths
  and angles and takes up to Z (`Upright`), in each of the three cases of
  `rotationAligningVector`: already upright (`UprightAlready`), upside down
  (`UprightFromBelow`, the half turn) and between (`UprightFromTilt`, Rodrigues'
  formula); the yaw setting leaves it so (`UprightTurned`). Hence gravity leaves
  exactly what the push was (`PushIsLeft`), what is at right angles to up has no Z
  (`LevelStaysLevel`), and X is what is along forward when forward is on X
  (`AlongForward`). What remains is rounding: whole counts show exactly
  (`WholePushShown`), and two components each within half a count keep their length
  to one count (`LengthShown`).

  Folds are inductions over data, for which the library's induction theorems cannot
  be used here, as they take an operator. `InductionUpTo` is induction over a set
  instead, by the least element outside of it (`LeastElement`, from `WFMin`), and
  `FoldExists`, which gives each fold its value after every element, is made from it.

Assumptions: positive depth, clock and window length; the two channels are
different PIDs; intervals, thresholds and gaps are natural numbers, the first two
no larger than the bound on history ages; readings are natural numbers; at least
two values of the sync counter, at least two epochs to a day, at least one
register write; the configuration is a sequence; a byte has two digits that name it.
`MeasurementAssumption` says what the receiver's fields can hold with the digits it
writes (an altitude of five digits and one decimal, minutes below sixty, a century
of dates, the leap second) and what the sensor's registers can; `UnknownAssumption`
that an unknown value is not a number; and
`MessageAssumption` that the builders' arguments are bytes and words and that the
driver's buffer takes the longest frame (`kUbxBufferSize`). `MountingAssumption` says
that up, forward and right are integer vectors of one integer length at right angles
(every face of the box, and the tilted mountings whose directions are rational), that
no axis reads more than a g too much, and that a push of the model, 1024 counts for
each unit of that length, stays within two g, so that only the strike comes to the
end of the range; it limits the length to 15. TLC evaluates each of them.

Only model-checked: the liveness properties (`EveryWriteApplied`,
`ListedChannelFlows`, `HoldIsReported`, `CaptureEnds`), which need ENABLED and
fairness.

## 5. Findings and observations

Each finding is a run that TLC refutes; `PROJECT.json` quotes the sentence it
contradicts.

1. `status_starved`: under allow-all the motion channel, served first, can take
   every slot of the shared limiter, and `tick` has by then used up its second.
2. `power_cycled`: a long press calls `applyConfiguration` without `begin`. After
   a power cycle the receiver is back at its boot rate, does not hear it, and
   stays unconfigured.
3. `handedness`: the axes are only ever rotated. With forward and up right, a
   corner to the right comes out negative, in lateral acceleration and in yaw
   rate, while the documents say positive. (`config.h:99` calls a yaw of the box
   to the right positive, which is the other sign again.)

Windows that the passing properties leave out by their conditions:

- `PromptDenyAll`: `connected_` is set before the loop has reset the filter, and
  writes of the previous connection may still be queued, so that a new
  connection can receive packets it never asked for. It needs a reconnect faster
  than a loop turn, which a long press, with seconds of delays, makes possible.
- `PublishesUnderOwnSubscription`: `drainEvents` reads the event slot before it
  drains the queue. An event raised in between lets the connection's own filter
  write be applied first and then wiped by `onConnect`; a write of the previous
  connection may be queued behind the reset; and an event raised between the read and
  the clearing of the slot is lost. `aligned` is false in each of the three.
- `ShownHourIsRight`: time data a full round of the sync counter old, or of another
  session (`resetSession` starts the counter over), may carry the bits of the hour.
- `TimeDataIsThere`: hour and sync bits are committed before delivery; a link that
  is down when the time packet is due (`undelivered`) leaves an old 0x0004 for
  the rest of the hour. Positions are not given a wrong hour within a session;
  they are given none.
- `PresentMeansConfigured`: a sensor that restarts by itself (`restarted`) goes on
  being read with the defaults of its registers.

Seen while modelling:

- A sensor lost during a capture leaves the LED and the flag showing the capture
  for ever: `startCalibration` returns before it would end it, and
  `currentPattern` looks at the calibrator before it looks at the sensor.
- `docs/hardware.md:135` calls the pattern for "no usable fix" a 1 Hz blink,
  `main.cpp:131` blinks at 2 Hz; `docs/hardware.md:134` says a solid LED means a
  live fix, but `currentPattern` (`main.cpp:153`) asks only that fixes keep
  coming, valid or not.
- The highest number of the coarse altitude is 0x7FFF with the coarse flag, which is
  `kInvalidAltitude` (`rc_protocol.h:44`). `encodeAltitude` clamps to it
  (`rc_protocol.cpp:93`), so that a valid altitude from 32266.5 m up, half a metre
  below the ceiling that `rc_protocol.cpp:13` calls representable, reads in the app as
  unknown, not as the ceiling. `ValuesWithinResolution` states it as it is: these
  altitudes and no others are lost. `encodeSpeed` has the same form from 3276.65 km/h
  up, which three digits of knots do not reach; `encodeDop` and the count of
  satellites keep clear of their sentinels.
- 49.7 days after the last fix it looks fresh again for three seconds
  (`pipeline.cpp:70`); LED and flags agree about it.

## 6. Not modelled

- What the 24 bits of a float's significand lose, the thresholds next to the
  special cases of the rotation, and yaw other than in quarter turns: TLC has no
  real numbers.
- A position without a fix (`positionValid`), and the hour when date or time are not
  valid: `Readings` gives the encoder positions and times that are. Altitude, speed,
  bearing, dilution and satellites are given both valid and not.
- The bytes of an integer in a packet, and characters that are not part of a
  numeral in a field whose checksum was right.
- Printing, diagnostics and bus probing, the raw echo, statistics counters: they
  change nothing the properties are about.
- Configuration constants and plain records: they are parameters of the modules.
- Operations the program does not call: `ButtonDebouncer::reset`,
  `SessionTimer::stop` and `clear`, `BiasCalibrator::abort`, the UBX messages the
  driver does not send.
- NimBLE beyond the three callbacks and the second look at `connected_`.

## 7. What could come next

1. `SetButton` composed with `Bringup`: presses made while a long press blocks
   the loop.
2. `BleServer` composed with `GpsSync`: a new connection meets the encoder as the
   previous one left it, since `onConnect` (`pipeline.cpp:23`) resets the filter and
   the limiters but not the encoder, under the delays of the event slot.
