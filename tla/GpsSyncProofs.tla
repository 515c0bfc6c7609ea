--------------------------- MODULE GpsSyncProofs ---------------------------
(***************************************************************************)
(* Proofs about the sync counter, for every number of values it may have   *)
(* and every number of hours: a position is never joined to a wrong hour,  *)
(* and the hour of a position is there to be read.                         *)
(***************************************************************************)
EXTENDS GpsSync, TLAPS

\* Time data x of this session lags behind an encoder at (bits, last) by k
\* announcements, at least an hour each.
LagsBy(x, k, bits, last) ==
  /\ (x.sync + k) % SyncMod = bits
  /\ k <= last - x.hour
  /\ k = 0 => x.hour = last

Sound(x, bits, last) ==
  x.current => last # NoHour /\ \E k \in Nat : LagsBy(x, k, bits, last)

TimeSound == Sound(timeChar, syncBits, lastHour) /\ Sound(app, syncBits, lastHour)

\* The encoder's hour and the step onGnssFix is at.
HourKept ==
  /\ lastHour <= hour
  /\ pc # "idle" /\ dated => lastHour = hour
  /\ pc # "idle" /\ timeChanged => lastHour # NoHour
  /\ pc = "time" => timeChanged

\* Between two time packets, 0x0004 holds what the encoder counted last.
Announced ==
  /\ lastHour # NoHour /\ ~undelivered
  /\ ~(pc # "idle" /\ timeChanged)
  => timeChar = TimePacket

SyncInv == TypeOK /\ HourKept /\ TimeSound /\ Announced

-----------------------------------------------------------------------------
(* Counting modulo SyncMod. *)

LEMMA OneMore ==
  ASSUME NEW a \in Nat
  PROVE  ((a % SyncMod) + 1) % SyncMod = (a + 1) % SyncMod
<1> DEFINE q == a \div SyncMod
           r == a % SyncMod
<1>1. SyncMod \in Nat /\ SyncMod > 1
  BY SyncAssumption
<1>2. q \in Nat /\ r \in 0 .. SyncMod - 1 /\ a = SyncMod * q + r
  BY <1>1
<1> HIDE DEF q, r
<1>3. CASE r + 1 < SyncMod
  <2>1. (r + 1) % SyncMod = r + 1
    BY <1>1, <1>2, <1>3
  <2>2. a + 1 = SyncMod * q + (r + 1)
    BY <1>1, <1>2
  <2>3. (a + 1) % SyncMod = r + 1
    BY <1>1, <1>2, <1>3, <2>2
  <2> QED BY <2>1, <2>3 DEF r
<1>4. CASE r + 1 = SyncMod
  <2>1. (r + 1) % SyncMod = 0
    BY <1>1, <1>4
  <2>2. a + 1 = SyncMod * (q + 1)
    BY <1>1, <1>2, <1>4
  <2>3. (a + 1) % SyncMod = 0
    BY <1>1, <1>2, <2>2
  <2> QED BY <2>1, <2>3 DEF r
<1> QED BY <1>1, <1>2, <1>3, <1>4

\* Fewer steps than there are values do not lead back to the same one.
LEMMA NoFullTurn ==
  ASSUME NEW s \in Sync, NEW k \in Nat, k < SyncMod, (s + k) % SyncMod = s
  PROVE  k = 0
  BY SyncAssumption DEF Sync

LEMMA NextSync ==
  ASSUME NEW s \in Sync
  PROVE  (s + 1) % SyncMod \in Sync /\ s % SyncMod = s
  BY SyncAssumption DEF Sync

LEMMA HourTyped ==
  /\ NoHour \notin Hour /\ Hour \subseteq Int /\ 0 \in Hour /\ NoHour \in Int
  /\ \A h \in Hour : NoHour <= h
  BY SyncAssumption DEF Hour, NoHour

LEMMA SyncIsInt == SyncMod \in Int /\ Sync \subseteq Nat
  BY SyncAssumption DEF Sync

LEMMA CurrentTyped ==
  ASSUME NEW x \in TimeData, x.current
  PROVE  x.sync \in Sync /\ x.hour \in Hour
  BY DEF TimeData, NoTime

\* What the app reads when its bits match.
LEMMA SoundMatch ==
  ASSUME NEW x \in TimeData, syncBits \in Sync, lastHour \in Hour,
         Sound(x, syncBits, lastHour), x.current, x.sync = syncBits, lastHour - x.hour < SyncMod
  PROVE  x.hour = lastHour
<1>1. PICK k \in Nat : LagsBy(x, k, syncBits, lastHour)
  BY DEF Sound
<1>2. x.hour \in Hour /\ x.hour \in Int /\ lastHour \in Int /\ SyncMod \in Int
  BY CurrentTyped, HourTyped, SyncIsInt
<1>3. k < SyncMod
  BY <1>1, <1>2 DEF LagsBy
<1>4. (syncBits + k) % SyncMod = syncBits
  BY <1>1 DEF LagsBy
<1>5. k = 0
  BY <1>3, <1>4, NoFullTurn
<1> QED BY <1>1, <1>5 DEF LagsBy

\* Time data stays sound when another hour is announced.
LEMMA SoundAfterHour ==
  ASSUME TypeOK, NEW x \in TimeData, NEW h \in Hour, lastHour < h,
         Sound(x, syncBits, lastHour)
  PROVE  Sound(x, (syncBits + 1) % SyncMod, h)
<1> SUFFICES ASSUME x.current
             PROVE  h # NoHour
                    /\ \E k \in Nat : LagsBy(x, k, (syncBits + 1) % SyncMod, h)
  BY DEF Sound
<1>1. PICK k \in Nat : LagsBy(x, k, syncBits, lastHour)
  BY DEF Sound
<1>2. x.sync \in Sync /\ x.hour \in Hour
  BY CurrentTyped
<1>3. x.sync \in Nat /\ x.hour \in Int /\ lastHour \in Int /\ h \in Int
  BY <1>2, HourTyped, SyncIsInt DEF TypeOK
<1>4. (x.sync + (k + 1)) % SyncMod = (syncBits + 1) % SyncMod
  <2>1. (((x.sync + k) % SyncMod) + 1) % SyncMod = (x.sync + k + 1) % SyncMod
    BY <1>3, OneMore
  <2> QED BY <1>1, <1>3, <2>1 DEF LagsBy
<1>5. k + 1 <= h - x.hour /\ k + 1 \in Nat /\ k + 1 # 0
  BY <1>1, <1>3 DEF LagsBy
<1>6. h # NoHour
  BY HourTyped
<1> QED BY <1>4, <1>5, <1>6 DEF LagsBy

\* Time data that is not current asks for nothing.
LEMMA NoTimeTyped == NoTime \in TimeData /\ ~NoTime.current
  BY DEF NoTime, TimeData

LEMMA StaleTyped ==
  ASSUME NEW x \in TimeData
  PROVE  [x EXCEPT !.current = FALSE] \in TimeData /\ ~[x EXCEPT !.current = FALSE].current
<1>1. CASE x = NoTime
  <2>1. [NoTime EXCEPT !.current = FALSE] = NoTime
    <3>1. [NoTime EXCEPT !.current = NoTime.current] = NoTime
      BY DEF NoTime
    <3>2. NoTime.current = FALSE
      BY DEF NoTime
    <3> QED BY <3>1, <3>2
  <2> QED BY <1>1, <2>1, NoTimeTyped
<1>2. CASE x \in [sync : Sync, hour : Hour, current : BOOLEAN]
  BY <1>2 DEF TimeData
<1> QED BY <1>1, <1>2 DEF TimeData

-----------------------------------------------------------------------------
(* Every action. *)

LEMMA InitSyncInv == Init => SyncInv
<1> SUFFICES ASSUME Init PROVE SyncInv
  OBVIOUS
<1>1. TypeOK
  <2>1. 0 \in Sync
    BY SyncAssumption DEF Sync
  <2> QED BY <2>1, HourTyped, NoTimeTyped DEF Init, TypeOK
<1>2. HourKept
  BY HourTyped DEF Init, HourKept
<1> QED BY <1>1, <1>2, NoTimeTyped DEF Init, SyncInv, TimeSound, Sound, Announced

\* A fix with a new hour, with the hour known already, or without one.
LEMMA EncodeKeeps ==
  ASSUME SyncInv, NEW h \in Hour \cup {NoHour}, h # NoHour => h = hour,
         Encode(h), pc' = "main", hour' = hour, dated' => h # NoHour,
         UNCHANGED <<timeChar, app, undelivered, connected, mainChar>>, dated' \in BOOLEAN,
         pc = "idle"
  PROVE  SyncInv'
<1>1. lastHour \in Int /\ hour \in Hour /\ hour \in Int /\ lastHour <= hour
      /\ syncBits \in Sync /\ lastHour \in Hour \cup {NoHour}
      /\ timeChar \in TimeData /\ app \in TimeData
  BY HourTyped DEF SyncInv, TypeOK, HourKept
<1>2. CASE NewHour(h)
  <2>1. h = hour /\ h \in Hour /\ lastHour < h
    BY <1>1, <1>2 DEF NewHour
  <2>2. lastHour' = h /\ timeChanged' = TRUE /\ syncBits' = (syncBits + 1) % SyncMod
    BY <1>2 DEF Encode
  <2>3. TypeOK'
    BY <1>1, <2>1, <2>2, NextSync DEF SyncInv, TypeOK
  <2>4. HourKept'
    BY <1>1, <2>1, <2>2, HourTyped DEF HourKept
  <2>5. TimeSound'
    BY <1>1, <2>1, <2>2, SoundAfterHour DEF SyncInv, TimeSound
  <2>6. Announced'
    BY <2>2 DEF Announced
  <2> QED BY <2>3, <2>4, <2>5, <2>6 DEF SyncInv
<1>3. CASE ~NewHour(h)
  <2>1. lastHour' = lastHour /\ timeChanged' = FALSE /\ syncBits' = syncBits
    BY <1>3 DEF Encode
  <2>2. TypeOK'
    BY <1>1, <2>1 DEF SyncInv, TypeOK
  <2>3. HourKept'
    BY <1>1, <1>3, <2>1 DEF HourKept, NewHour
  <2>4. TimeSound'
    BY <2>1 DEF SyncInv, TimeSound
  <2>5. Announced'
    BY <2>1 DEF SyncInv, Announced, TimePacket
  <2> QED BY <2>2, <2>3, <2>4, <2>5 DEF SyncInv
<1> QED BY <1>2, <1>3

\* What a time packet says of itself.
LEMMA PacketSound ==
  ASSUME TypeOK, lastHour # NoHour
  PROVE  TimePacket \in TimeData /\ LagsBy(TimePacket, 0, syncBits, lastHour)
<1>1. syncBits \in Sync /\ lastHour \in Hour /\ lastHour \in Int
  BY HourTyped DEF TypeOK
<1>2. syncBits \in Int /\ syncBits + 0 = syncBits
  BY <1>1, SyncIsInt
<1> QED BY <1>1, <1>2, NextSync DEF TimePacket, TimeData, LagsBy

LEMMA NotifyTimeKeeps == SyncInv /\ NotifyTime => SyncInv'
<1> SUFFICES ASSUME SyncInv, NotifyTime PROVE SyncInv'
  OBVIOUS
<1>1. /\ pc = "time" /\ pc' = "idle" /\ undelivered' = ~connected
      /\ UNCHANGED <<connected, syncBits, lastHour, timeChanged, mainChar, hour, dated>>
  BY DEF NotifyTime
<1>2. lastHour # NoHour
  BY <1>1 DEF SyncInv, HourKept
<1>3. TimePacket \in TimeData /\ LagsBy(TimePacket, 0, syncBits, lastHour) /\ TimePacket' = TimePacket
  BY <1>1, <1>2, PacketSound DEF SyncInv, TimePacket
<1>4. HourKept'
  BY <1>1 DEF SyncInv, HourKept
<1>5. CASE connected
  <2>1. timeChar' = TimePacket /\ app' \in {app, TimePacket}
    BY <1>5 DEF NotifyTime
  <2>2. TypeOK'
    BY <1>1, <1>3, <1>5, <2>1 DEF SyncInv, TypeOK
  <2>3. Sound(TimePacket, syncBits, lastHour)
    BY <1>2, <1>3 DEF Sound
  <2>4. TimeSound'
    BY <1>1, <2>1, <2>3 DEF SyncInv, TimeSound
  <2>6. Announced'
    BY <1>3, <2>1 DEF Announced
  <2> QED BY <1>4, <2>2, <2>4, <2>6 DEF SyncInv
<1>6. CASE ~connected
  <2>1. UNCHANGED <<timeChar, app>>
    BY <1>6 DEF NotifyTime
  <2>2. TypeOK'
    BY <1>1, <1>6, <2>1 DEF SyncInv, TypeOK
  <2>3. TimeSound'
    BY <1>1, <2>1 DEF SyncInv, TimeSound
  <2>4. Announced'
    BY <1>1, <1>6 DEF Announced
  <2> QED BY <1>4, <2>2, <2>3, <2>4 DEF SyncInv
<1> QED BY <1>5, <1>6

LEMMA NextSyncInv == SyncInv /\ [Next]_vars => SyncInv'
<1> SUFFICES ASSUME SyncInv, [Next]_vars PROVE SyncInv'
  OBVIOUS
<1>0. /\ timeChar \in TimeData /\ app \in TimeData /\ hour \in Hour
      /\ hour \in Int /\ lastHour \in Int
  BY HourTyped DEF SyncInv, TypeOK
<1>1. CASE LinkChange
  <2>1. /\ app' = NoTime /\ connected' = ~connected
        /\ UNCHANGED <<syncBits, lastHour, pc, timeChanged, mainChar, timeChar, hour, dated,
                       undelivered>>
    BY <1>1 DEF LinkChange
  <2>2. TypeOK' /\ HourKept' /\ Announced'
    BY <2>1, NoTimeTyped DEF SyncInv, TypeOK, HourKept, Announced, TimePacket
  <2>3. TimeSound'
    BY <2>1, NoTimeTyped DEF SyncInv, TimeSound, Sound
  <2> QED BY <2>2, <2>3 DEF SyncInv
<1>2. CASE AppRead
  <2>1. /\ app' = timeChar
        /\ UNCHANGED <<connected, syncBits, lastHour, pc, timeChanged, mainChar, timeChar,
                       hour, dated, undelivered>>
    BY <1>2 DEF AppRead
  <2>2. TypeOK' /\ HourKept' /\ Announced'
    BY <2>1 DEF SyncInv, TypeOK, HourKept, Announced, TimePacket
  <2>3. TimeSound'
    BY <2>1 DEF SyncInv, TimeSound
  <2> QED BY <2>2, <2>3 DEF SyncInv
<1>3. CASE HourPasses
  <2>1. /\ pc = "idle" /\ hour' \in Hour /\ hour' = hour + 1
        /\ UNCHANGED <<connected, syncBits, lastHour, pc, timeChanged, mainChar, timeChar,
                       dated, app, undelivered>>
    BY <1>3 DEF HourPasses
  <2>2. TypeOK' /\ HourKept' /\ Announced'
    BY <1>0, <2>1 DEF SyncInv, TypeOK, HourKept, Announced, TimePacket
  <2>3. TimeSound'
    BY <2>1 DEF SyncInv, TimeSound
  <2> QED BY <2>2, <2>3 DEF SyncInv
<1>4. CASE OnGnssFix
  <2>1. /\ pc = "idle" /\ dated' \in {dated, TRUE}
        /\ UNCHANGED <<connected, mainChar, timeChar, hour, app, undelivered>>
    BY <1>4 DEF OnGnssFix
  <2>2. dated' \in BOOLEAN
    BY <2>1 DEF SyncInv, TypeOK
  <2>3. CASE connected
    <3> DEFINE h == IF dated' THEN hour ELSE NoHour
    <3>1. Encode(h) /\ pc' = "main"
      BY <1>4, <2>3 DEF OnGnssFix
    <3>2. h \in Hour \cup {NoHour} /\ (h # NoHour => h = hour) /\ (dated' => h # NoHour)
      BY <1>0, HourTyped
    <3> HIDE DEF h
    <3> QED BY <2>1, <2>2, <3>1, <3>2, EncodeKeeps
  <2>4. CASE ~connected
    <3>1. UNCHANGED <<lastHour, syncBits, timeChanged, pc>>
      BY <1>4, <2>4 DEF OnGnssFix
    <3>2. TypeOK' /\ HourKept' /\ Announced'
      BY <2>1, <2>2, <3>1 DEF SyncInv, TypeOK, HourKept, Announced, TimePacket
    <3>3. TimeSound'
      BY <2>1, <3>1 DEF SyncInv, TimeSound
    <3> QED BY <3>2, <3>3 DEF SyncInv
  <2> QED BY <2>3, <2>4
<1>5. CASE NotifyMain
  <2>1. /\ pc = "main" /\ pc' = (IF timeChanged THEN "time" ELSE "idle")
        /\ mainChar' \in {syncBits, mainChar}
        /\ UNCHANGED <<connected, syncBits, lastHour, timeChanged, timeChar, hour, dated,
                       app, undelivered>>
    BY <1>5 DEF NotifyMain
  <2>2. TypeOK' /\ HourKept' /\ Announced'
    BY <2>1 DEF SyncInv, TypeOK, HourKept, Announced, TimePacket
  <2>3. TimeSound'
    BY <2>1 DEF SyncInv, TimeSound
  <2> QED BY <2>2, <2>3 DEF SyncInv
<1>6. CASE NotifyTime
  BY <1>6, NotifyTimeKeeps
<1>7. CASE ResetSession
  <2>1. /\ pc = "idle" /\ syncBits' = 0 /\ lastHour' = NoHour /\ dated' \in {dated, FALSE}
        /\ timeChar' = [timeChar EXCEPT !.current = FALSE]
        /\ app' = [app EXCEPT !.current = FALSE]
        /\ UNCHANGED <<connected, pc, timeChanged, mainChar, hour, undelivered>>
    BY <1>7 DEF ResetSession
  <2>2. 0 \in Sync
    BY SyncAssumption DEF Sync
  <2>3. /\ timeChar' \in TimeData /\ ~timeChar'.current
        /\ app' \in TimeData /\ ~app'.current
    BY <1>0, <2>1, StaleTyped
  <2>4. TypeOK'
    BY <2>1, <2>2, <2>3 DEF SyncInv, TypeOK
  <2>5. HourKept'
    <3>1. lastHour' <= hour'
      BY <1>0, <2>1, HourTyped
    <3> QED BY <2>1, <3>1 DEF HourKept
  <2>6. TimeSound' /\ Announced'
    BY <2>1, <2>3 DEF TimeSound, Sound, Announced
  <2> QED BY <2>4, <2>5, <2>6 DEF SyncInv
<1>8. CASE UNCHANGED vars
  <2>1. TypeOK' /\ HourKept' /\ Announced'
    BY <1>8 DEF vars, SyncInv, TypeOK, HourKept, Announced, TimePacket
  <2>2. TimeSound'
    BY <1>8 DEF vars, SyncInv, TimeSound
  <2> QED BY <2>1, <2>2 DEF SyncInv
<1> QED BY <1>1, <1>2, <1>3, <1>4, <1>5, <1>6, <1>7, <1>8 DEF Next

-----------------------------------------------------------------------------
(* The theorems. *)

\* Types (GpsEncoder's counter and hour, the two characteristics).
THEOREM TypeCorrect == Spec => []TypeOK
<1>1. SyncInv => TypeOK
  BY DEF SyncInv
<1> QED BY <1>1, InitSyncInv, NextSyncInv, PTL DEF Spec

\* A position is never given the wrong hour, for a counter of any width: lost
\* packets and dropped links can only leave the app's bits behind, never make
\* them match (GpsEncoder::encode, onGnssFix).
THEOREM HourIsRight == Spec => []ShownHourIsRight
<1>1. SyncInv => ShownHourIsRight
  <2> SUFFICES ASSUME SyncInv, pc = "main", dated, app.current, app.sync = syncBits,
                      hour - app.hour < SyncMod
               PROVE  app.hour = hour
    BY DEF ShownHourIsRight
  <2>1. lastHour = hour /\ hour \in Hour /\ app \in TimeData /\ syncBits \in Sync
    BY DEF SyncInv, TypeOK, HourKept
  <2> QED BY <2>1, SoundMatch DEF SyncInv, TimeSound
<1> QED BY <1>1, InitSyncInv, NextSyncInv, PTL DEF Spec

\* A main packet sent without a time packet finds its hour in 0x0004 (GpsPackets::
\* timeChanged).
THEOREM TimeDataKept == Spec => []TimeDataIsThere
<1>1. SyncInv => TimeDataIsThere
  <2> SUFFICES ASSUME SyncInv, pc = "main", dated, ~timeChanged, ~undelivered
               PROVE  timeChar = TimePacket
    BY DEF TimeDataIsThere
  <2>1. lastHour # NoHour
    BY HourTyped DEF SyncInv, TypeOK, HourKept
  <2> QED BY <2>1 DEF SyncInv, Announced
<1> QED BY <1>1, InitSyncInv, NextSyncInv, PTL DEF Spec
=============================================================================
