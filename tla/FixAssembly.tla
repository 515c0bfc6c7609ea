---------------------------- MODULE FixAssembly ----------------------------
(***************************************************************************)
(* From the receiver's sentences to one fix per navigation epoch:          *)
(* nmea::FixAssembler and hal::GpsReceiver::poll, reading a UART whose     *)
(* buffer may overflow and whose sentences may be damaged.  What a         *)
(* sentence says is a stamp, the number of the epoch it speaks of, so that *)
(* a fix shows where each of its parts came from.  Epochs are numbered     *)
(* through; a time of day comes back every Day epochs.  The receiver is    *)
(* external, modelled from what nmea.h says of it.                         *)
(***************************************************************************)
EXTENDS Integers, Sequences

CONSTANTS Day,          \* epochs in a day
          MaxEpoch,     \* bound: epochs in a run
          Buffer        \* sentences the receive buffer holds, kRxBufferSize

ASSUME FixAssumption ==
  Day \in Nat \ {0, 1} /\ MaxEpoch \in Nat \ {0} /\ Buffer \in Nat \ {0}

Epoch == 1 .. MaxEpoch
None == -1                       \* a part of a fix that no sentence has filled
Stamp == Epoch \cup {None}

\* "With the recommended message set the order is GGA, GSA, RMC."
Burst == <<"GGA", "GSA", "RMC">>

\* A sentence; time and date say whether those fields are filled in.
Sentence == [type : {"GGA", "GSA", "RMC"}, epoch : Epoch, time : BOOLEAN, date : BOOLEAN]

TimeOfDay(n) == n % Day
DateOf(n) == n \div Day

\* A fix, part by part: the time (RMC and GGA), what only RMC, GGA or GSA fills,
\* and the date.
Fixes == [time : Stamp, rmc : Stamp, gga : Stamp, gsa : Stamp, date : Int]
NoFix == [time |-> None, rmc |-> None, gga |-> None, gsa |-> None, date |-> None]

VARIABLES
  \* The receiver and the UART.
  epoch, sent,      \* the current epoch, and how much of its burst is out
  clock,            \* what the receiver knows: "nothing", "time" or "date"
  uart,             \* sentences received and not read yet
  assembler,        \* the FixAssembler
  \* GpsReceiver and TelemetryPipeline.
  polling,          \* inside poll's loop
  completed,        \* poll's local
  latest,           \* GpsReceiver's fix_
  lastFix,          \* the pipeline's lastFix_
  \* History.
  heard,            \* epoch of the last sentence with a time that got through
  got               \* sentences with a time of epoch got.epoch that were consumed

receiverVars == <<epoch, sent, clock, heard>>
fixVars == <<completed, latest, lastFix>>
vars == <<receiverVars, uart, assembler, got, polling, fixVars>>

Assemblers == [fix : Fixes, timeKey : 0 .. Day - 1, hasTimeKey : BOOLEAN,
               seenRmc : BOOLEAN, seenGga : BOOLEAN, taken : BOOLEAN]

\* FixAssembler::reset.
Clean == [fix |-> NoFix, timeKey |-> 0, hasTimeKey |-> FALSE,
          seenRmc |-> FALSE, seenGga |-> FALSE, taken |-> FALSE]

TypeOK ==
  /\ epoch \in Epoch /\ sent \in 0 .. Len(Burst) /\ heard \in Epoch \cup {0}
  /\ clock \in {"nothing", "time", "date"}
  /\ uart \in Seq(Sentence) /\ Len(uart) <= Buffer
  /\ assembler \in Assemblers /\ latest \in Fixes /\ lastFix \in Fixes
  /\ polling \in BOOLEAN /\ completed \in BOOLEAN
  /\ got.epoch \in Epoch \cup {0} /\ got.types \subseteq {"GGA", "RMC"}

NothingGot == [epoch |-> 0, types |-> {}]

Init ==
  /\ epoch = 1 /\ sent = 0 /\ clock = "nothing" /\ heard = 0
  /\ uart = <<>>
  /\ assembler = Clean /\ got = NothingGot
  /\ polling = FALSE /\ completed = FALSE /\ latest = NoFix /\ lastFix = NoFix

-----------------------------------------------------------------------------
(* The receiver sends one burst per epoch; a sentence arrives, or is lost    *)
(* because the buffer is full or because damage fails its checksum.          *)

\* A receiver that knows the date keeps it until it is restarted.
NextEpoch ==
  /\ sent = Len(Burst) /\ epoch + 1 \in Epoch
  /\ epoch' = epoch + 1 /\ sent' = 0
  /\ clock' \in (CASE clock = "nothing" -> {"nothing", "time", "date"}
                   [] clock = "time"    -> {"time", "date"}
                   [] clock = "date"    -> {"date"})
  /\ UNCHANGED <<heard, uart, assembler, got, polling, fixVars>>

Outgoing == [type |-> Burst[sent + 1], epoch |-> epoch, time |-> clock # "nothing",
             date |-> clock = "date"]

Timed(s) == s.type # "GSA" /\ s.time

Room == Len(uart) < Buffer

Arrive ==
  /\ sent < Len(Burst) /\ Room
  /\ uart' = Append(uart, Outgoing)
  /\ sent' = sent + 1
  /\ heard' = IF Timed(Outgoing) THEN epoch ELSE heard
  /\ UNCHANGED <<epoch, clock, assembler, got, polling, fixVars>>

\* Bound: the line is never silent for a day, after which a time of day could be
\* taken for that of the day before.
Lose ==
  /\ sent < Len(Burst)
  /\ epoch - heard < Day - 1
  /\ sent' = sent + 1
  /\ UNCHANGED <<epoch, clock, heard, uart, assembler, got, polling, fixVars>>

-----------------------------------------------------------------------------
(* FixAssembler: operators on its state a.                                   *)

\* Faulty variant of BeginEpoch: the sentences seen are not forgotten.
BeginEpochSeen(a, n) ==
  IF a.hasTimeKey /\ a.timeKey = TimeOfDay(n) THEN a
  ELSE [a EXCEPT !.fix = [NoFix EXCEPT !.date = a.fix.date], !.timeKey = TimeOfDay(n),
                 !.hasTimeKey = TRUE, !.taken = FALSE]

\* Faulty variant of BeginEpoch: a new epoch counts as handed out.
BeginEpochTaken(a, n) ==
  IF a.hasTimeKey /\ a.timeKey = TimeOfDay(n) THEN a
  ELSE [Clean EXCEPT !.fix.date = a.fix.date, !.timeKey = TimeOfDay(n), !.hasTimeKey = TRUE,
                     !.taken = a.taken]

\* beginEpochIfTimeChanged: of the previous epoch's fix the date alone remains.
BeginEpoch(a, n) ==
  IF a.hasTimeKey /\ a.timeKey = TimeOfDay(n) THEN a
  ELSE [Clean EXCEPT !.fix.date = a.fix.date, !.timeKey = TimeOfDay(n), !.hasTimeKey = TRUE]

\* Faulty variant of WithRmc: a date once known is not looked at again.
WithRmcDatedOnce(a, s) ==
  [a EXCEPT !.fix.time = s.epoch, !.fix.rmc = s.epoch, !.seenRmc = TRUE,
            !.fix.date = IF s.date /\ @ = None THEN DateOf(s.epoch) ELSE @]

\* consume, what an RMC adds: time, position, speed and course, and the date when
\* the receiver knows it.
WithRmc(a, s) ==
  [a EXCEPT !.fix.time = s.epoch, !.fix.rmc = s.epoch, !.seenRmc = TRUE,
            !.fix.date = IF s.date THEN DateOf(s.epoch) ELSE @]

\* consume, what a GGA adds: time, quality, satellites, dilution and altitude.
WithGga(a, s) == [a EXCEPT !.fix.time = s.epoch, !.fix.gga = s.epoch, !.seenGga = TRUE]

\* consume, what a GSA adds: it has no time, and goes to whatever epoch is current.
WithGsa(a, s) == [a EXCEPT !.fix.gsa = s.epoch]

\* consume.  An RMC or GGA without a time is malformed and changes nothing.
Consume(a, s) ==
  CASE s.type = "RMC" /\ s.time -> WithRmc(BeginEpoch(a, s.epoch), s)
    [] s.type = "GGA" /\ s.time -> WithGga(BeginEpoch(a, s.epoch), s)
    [] s.type = "GSA"           -> WithGsa(a, s)
    [] OTHER                    -> a

HasCompleteFix(a) == a.seenRmc /\ a.seenGga /\ ~a.taken

\* Faulty variant of Taken: the fix may be taken again.
TakenAgain(a) == a

\* takeCompletedFix, the assembler after it.
Taken(a) == IF HasCompleteFix(a) THEN [a EXCEPT !.taken = TRUE] ELSE a

-----------------------------------------------------------------------------
(* The loop.                                                                 *)

StartPoll ==
  /\ ~polling
  /\ polling' = TRUE
  /\ completed' = FALSE
  /\ UNCHANGED <<receiverVars, uart, assembler, got, latest, lastFix>>

\* poll's loop as far as the end of a sentence: it is consumed, and a fix that
\* it completes replaces the one completed before, in this poll or an earlier.
ReadSentence ==
  /\ polling /\ uart # <<>>
  /\ LET s == Head(uart)
         a == Consume(assembler, s)
     IN  /\ assembler' = Taken(a)
         /\ latest' = IF HasCompleteFix(a) THEN a.fix ELSE latest
         /\ completed' = (completed \/ HasCompleteFix(a))
         /\ got' = IF ~Timed(s) THEN got
                   ELSE IF got.epoch = s.epoch THEN [got EXCEPT !.types = @ \cup {s.type}]
                   ELSE [epoch |-> s.epoch, types |-> {s.type}]
  /\ uart' = Tail(uart)
  /\ UNCHANGED <<receiverVars, polling, lastFix>>

\* poll returns, its budget used up or the rest not there yet; serviceGps passes
\* on the last of the fixes it completed.
EndPoll ==
  /\ polling
  /\ polling' = FALSE
  /\ lastFix' = IF completed THEN latest ELSE lastFix
  /\ UNCHANGED <<receiverVars, uart, assembler, got, completed, latest>>

\* handleLongPress: a hot restart, then applyConfiguration empties the buffer and
\* resets the assembler.  The receiver may have lost what it knew of the time.
LongPress ==
  /\ ~polling
  /\ uart' = <<>>
  /\ assembler' = Clean /\ got' = NothingGot
  /\ clock' \in {clock, "nothing"}
  /\ UNCHANGED <<epoch, sent, heard, polling, fixVars>>

Next == \/ NextEpoch \/ Arrive \/ Lose
        \/ StartPoll \/ ReadSentence \/ EndPoll \/ LongPress

Spec == Init /\ [][Next]_vars

-----------------------------------------------------------------------------
\* "Merges the sentences of one epoch into a single GnssFix": whatever was lost or
\* came late, a fix handed out has nothing of another epoch in it, GSA included,
\* which does not say what epoch it is of (FixAssembler::consume).
FixOfOneEpoch ==
  latest # NoFix => /\ latest.rmc = latest.time /\ latest.gga = latest.time
                    /\ latest.gsa \in {None, latest.time}

\* The date carried over from earlier epochs is never yesterday's: a fix that has
\* a date has that of its own epoch (beginEpochIfTimeChanged, consume).
DateIsOfTheEpoch == latest.date # None => latest.date = DateOf(latest.time)

\* An epoch is handed out once, and epochs go up: a fix that the pipeline gets is
\* newer than the last (takeCompletedFix, poll).  The assembler may have been
\* reset in between.
HandedOutOnce ==
  [][/\ latest' # latest => latest'.time > latest.time
     /\ lastFix' # lastFix => lastFix'.time > lastFix.time]_vars

\* "With no artificial one-epoch delay": once RMC and GGA of an epoch have been
\* consumed, its fix has been handed out.
WholeEpochHandedOut == got.types = {"GGA", "RMC"} => latest.time = got.epoch
=============================================================================
