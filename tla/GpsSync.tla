------------------------------ MODULE GpsSync ------------------------------
(***************************************************************************)
(* How a position and its hour reach the app: rc::GpsEncoder's sync        *)
(* counter, TelemetryPipeline::onGnssFix, which sends characteristic       *)
(* 0x0003 with every fix and 0x0004 when the hour changed, and the link,   *)
(* which NimBLE's task may take down between the two.  The app joins the   *)
(* two by the sync bits they carry: a main packet whose bits are not those *)
(* of the time data it holds is of no use to it.  The app is external,     *)
(* modelled from what src/ says of the sync bits.                          *)
(***************************************************************************)
EXTENDS Integers

CONSTANTS SyncMod,     \* values of the sync counter, 8
          Hours        \* bound: hours that pass in a run

ASSUME SyncAssumption == SyncMod \in Nat \ {0, 1} /\ Hours \in Nat \ {0}

Hour == 0 .. Hours - 1
NoHour == -1
Sync == 0 .. SyncMod - 1
NoSync == -1

\* Time data: sync bits, hour, and whether it was sent since the last reset.
NoTime == [sync |-> NoSync, hour |-> NoHour, current |-> FALSE]
TimeData == [sync : Sync, hour : Hour, current : BOOLEAN] \cup {NoTime}

VARIABLES
  connected,    \* connected_
  syncBits,     \* GpsEncoder::syncBits_
  lastHour,     \* lastDateAndHour_, NoHour when hasDateAndHour_ is false
  pc,           \* onGnssFix: "idle", about to send "main", about to send "time"
  timeChanged,  \* GpsPackets::timeChanged
  mainChar,     \* sync bits of characteristic 0x0003's value
  timeChar,     \* value of characteristic 0x0004
  hour,         \* the hour of the receiver's fixes
  dated,        \* FixAssembler knows the date
  app,          \* the time data the app holds
  undelivered   \* history: the link was down for the last time packet

vars == <<connected, syncBits, lastHour, pc, timeChanged, mainChar, timeChar, hour, dated,
          app, undelivered>>

TypeOK ==
  /\ connected \in BOOLEAN /\ dated \in BOOLEAN /\ timeChanged \in BOOLEAN
  /\ syncBits \in Sync
  /\ lastHour \in Hour \cup {NoHour}
  /\ pc \in {"idle", "main", "time"}
  /\ mainChar \in Sync \cup {NoSync}
  /\ timeChar \in TimeData /\ app \in TimeData
  /\ hour \in Hour
  /\ undelivered \in BOOLEAN

Init ==
  /\ connected = FALSE /\ dated = FALSE /\ timeChanged = FALSE
  /\ syncBits = 0 /\ lastHour = NoHour
  /\ pc = "idle"
  /\ mainChar = NoSync /\ timeChar = NoTime /\ app = NoTime
  /\ hour = 0 /\ undelivered = FALSE

-----------------------------------------------------------------------------
\* The link, in NimBLE's task: at any moment.
LinkChange ==
  /\ connected' = ~connected
  /\ app' = NoTime
  /\ UNCHANGED <<syncBits, lastHour, pc, timeChanged, mainChar, timeChar, hour, dated,
                 undelivered>>

\* The app reads characteristic 0x0004.
AppRead ==
  /\ connected
  /\ app' = timeChar
  /\ UNCHANGED <<connected, syncBits, lastHour, pc, timeChanged, mainChar, timeChar, hour,
                 dated, undelivered>>

\* Another hour of fixes begins; Hours bounds the run.
HourPasses ==
  /\ pc = "idle" /\ hour + 1 \in Hour
  /\ hour' = hour + 1
  /\ UNCHANGED <<connected, syncBits, lastHour, pc, timeChanged, mainChar, timeChar, dated,
                 app, undelivered>>

NewHour(h) == h # NoHour /\ h # lastHour

\* Faulty variant of Encode: the hour is announced without new sync bits.
EncodeSameSync(h) ==
  /\ timeChanged' = NewHour(h)
  /\ lastHour' = IF NewHour(h) THEN h ELSE lastHour
  /\ UNCHANGED syncBits

\* GpsEncoder::encode of a fix whose date-and-hour field is h.  The counter and
\* the hour are committed here, before anything has been delivered.
Encode(h) ==
  /\ timeChanged' = NewHour(h)
  /\ lastHour' = IF NewHour(h) THEN h ELSE lastHour
  /\ syncBits' = IF NewHour(h) THEN (syncBits + 1) % SyncMod ELSE syncBits

\* onGnssFix up to the encoding.  FixAssembler keeps a date once it has one; a
\* fix without a date has no date-and-hour field.
OnGnssFix ==
  /\ pc = "idle"
  /\ dated' \in {dated, TRUE}
  /\ IF connected
     THEN Encode(IF dated' THEN hour ELSE NoHour) /\ pc' = "main"
     ELSE UNCHANGED <<lastHour, syncBits, timeChanged, pc>>
  /\ UNCHANGED <<connected, mainChar, timeChar, hour, app, undelivered>>

\* notifyGpsMain: nothing is sent when the link has gone.
NotifyMain ==
  /\ pc = "main"
  /\ pc' = IF timeChanged THEN "time" ELSE "idle"
  /\ mainChar' = IF connected THEN syncBits ELSE mainChar
  /\ UNCHANGED <<connected, syncBits, lastHour, timeChanged, timeChar, hour, dated, app,
                 undelivered>>

TimePacket == [sync |-> syncBits, hour |-> lastHour, current |-> TRUE]

\* notifyGpsTime, likewise; the notification itself may be lost.
NotifyTime ==
  /\ pc = "time"
  /\ pc' = "idle" /\ undelivered' = ~connected
  /\ IF connected
     THEN timeChar' = TimePacket /\ app' \in {app, TimePacket}
     ELSE UNCHANGED <<timeChar, app>>
  /\ UNCHANGED <<connected, syncBits, lastHour, timeChanged, mainChar, hour, dated>>

\* Faulty variant of ResetSession: the counter restarts, the hour stays.
ResetSessionAlone ==
  /\ pc = "idle"
  /\ syncBits' = 0
  /\ dated' \in {dated, FALSE}
  /\ timeChar' = [timeChar EXCEPT !.current = FALSE]
  /\ app' = [app EXCEPT !.current = FALSE]
  /\ UNCHANGED <<lastHour, connected, pc, timeChanged, mainChar, hour, undelivered>>

\* A press of SET: resetSession drops the encoder's state; a long press also
\* restarts the receiver and drops the date it had assembled.
ResetSession ==
  /\ pc = "idle"
  /\ syncBits' = 0 /\ lastHour' = NoHour
  /\ dated' \in {dated, FALSE}
  /\ timeChar' = [timeChar EXCEPT !.current = FALSE]
  /\ app' = [app EXCEPT !.current = FALSE]
  /\ UNCHANGED <<connected, pc, timeChanged, mainChar, hour, undelivered>>

Next == \/ LinkChange \/ AppRead \/ HourPasses
        \/ OnGnssFix \/ NotifyMain \/ NotifyTime \/ ResetSession

Spec == Init /\ [][Next]_vars

-----------------------------------------------------------------------------
\* A position is never given the wrong hour: as long as the app's time data is of
\* this session and fewer hours old than the counter has values, a main packet
\* sent with the same sync bits belongs to that hour, whatever was lost on the
\* way and whenever the link went (GpsEncoder::encode, onGnssFix).
ShownHourIsRight ==
  /\ pc = "main" /\ dated /\ app.current /\ app.sync = syncBits
  /\ hour - app.hour < SyncMod
  => app.hour = hour

\* 0x0004 "only has to be notified when this is set" (GpsPackets::timeChanged): a
\* main packet that comes without a time packet finds the time data of its sync
\* bits and its hour in 0x0004, through reconnects and resets of the session,
\* unless the link was down at the moment the last time packet was due.
TimeDataIsThere ==
  pc = "main" /\ dated /\ ~timeChanged /\ ~undelivered => timeChar = TimePacket
=============================================================================
