------------------------- MODULE FixAssemblyProofs -------------------------
(***************************************************************************)
(* Proofs about fix assembly, for every length of a day, number of epochs  *)
(* and size of the receive buffer: whatever sentences are lost, a fix is   *)
(* of one epoch and of its date, and every epoch is handed out once.       *)
(***************************************************************************)
EXTENDS FixAssembly, TLAPS

\* The place of a sentence on the line, and of the receiver.
Rank(type) == CASE type = "GGA" -> 1 [] type = "GSA" -> 2 [] type = "RMC" -> 3
Order(s) == 3 * s.epoch + Rank(s.type)
Line == 3 * epoch + sent

Waiting == 1 .. Len(uart)
Key == assembler.fix.time

\* Sentences wait in the order in which they were sent.
InOrder ==
  /\ \A i, j \in Waiting : i < j => Order(uart[i]) < Order(uart[j])
  /\ \A i \in Waiting : Order(uart[i]) <= Line

\* What the flags of assembler a say of its fix.
Shape(a) ==
  /\ a.hasTimeKey => /\ a.fix.time \in Epoch /\ a.timeKey = TimeOfDay(a.fix.time)
                     /\ a.fix.rmc = (IF a.seenRmc THEN a.fix.time ELSE None)
                     /\ a.fix.gga = (IF a.seenGga THEN a.fix.time ELSE None)
  /\ ~a.hasTimeKey => ~a.seenRmc /\ ~a.seenGga
  /\ a.taken <=> a.seenRmc /\ a.seenGga

\* What waits comes after what the assembler's fix was made of; a GSA it has taken
\* is of its epoch or of one that began since.
Ahead ==
  assembler.hasTimeKey =>
    /\ Line >= 3 * Key + 1
    /\ \A i \in Waiting : Order(uart[i]) > 3 * Key + 1
    /\ assembler.fix.gsa # None =>
         /\ Key <= assembler.fix.gsa /\ assembler.fix.gsa <= epoch
         /\ \A i \in Waiting : assembler.fix.gsa <= uart[i].epoch

\* A sentence with a time is less than a day after the one before it, which waits
\* too or was the last the assembler took.
Linked(j) ==
  \/ \E i \in Waiting : i < j /\ Timed(uart[i]) /\ uart[j].epoch - uart[i].epoch < Day
  \/ assembler.hasTimeKey /\ uart[j].epoch - Key < Day
  \/ ~assembler.hasTimeKey /\ \A i \in Waiting : i < j => ~Timed(uart[i])

NoneTimed == \A i \in Waiting : ~Timed(uart[i])

\* Where the last sentence with a time is, and how long ago it was sent.
Chain ==
  /\ \A j \in Waiting : Timed(uart[j]) => Linked(j) /\ uart[j].epoch <= heard
  /\ \/ \E i \in Waiting : Timed(uart[i]) /\ uart[i].epoch = heard
     \/ NoneTimed /\ (assembler.hasTimeKey => Key = heard)
  /\ clock = "nothing" => ~assembler.hasTimeKey /\ NoneTimed
  /\ assembler.hasTimeKey \/ ~NoneTimed =>
       /\ epoch - heard < Day
       /\ epoch - heard = Day - 1 => sent = 0

\* A date once known stays known until a restart.
Dates ==
  /\ assembler.fix.date # None => clock = "date" /\ \A i \in Waiting : uart[i].date
  /\ \A i \in Waiting : uart[i].date => clock = "date"
  /\ \A i, j \in Waiting : i < j /\ uart[i].date => uart[j].date

\* The fix handed out last is of an epoch that is over.
Behind ==
  /\ Line >= 3 * latest.time + 3
  /\ \A i \in Waiting : latest.time < uart[i].epoch
  /\ lastFix = latest \/ lastFix.time < latest.time

\* The history of what was consumed is that of the assembler.
Consumed ==
  /\ got \in [epoch : Epoch \cup {0}, types : SUBSET {"GGA", "RMC"}]
  /\ assembler.hasTimeKey => /\ got.epoch = Key
                             /\ "RMC" \in got.types <=> assembler.seenRmc
                             /\ "GGA" \in got.types <=> assembler.seenGga
  /\ ~assembler.hasTimeKey => got.types = {}
  /\ assembler.seenRmc /\ assembler.seenGga => latest.time = Key

FixInv ==
  /\ TypeOK /\ InOrder /\ Shape(assembler) /\ Ahead /\ Chain /\ Dates /\ Behind /\ Consumed
  /\ FixOfOneEpoch /\ DateIsOfTheEpoch

-----------------------------------------------------------------------------
(* Numbers and records. *)

LEMMA EpochNat == Epoch \subseteq Nat \ {0} /\ None \notin Epoch /\ None = -1 /\ 1 \in Epoch
  BY FixAssumption DEF Epoch, None

\* Less than a day apart, a time of day tells the epoch.
LEMMA TimeOfDayTells ==
  ASSUME NEW m \in Nat, NEW n \in Nat, m <= n, n - m < Day, TimeOfDay(m) = TimeOfDay(n)
  PROVE  m = n
<1> DEFINE qm == m \div Day
           qn == n \div Day
           r == m % Day
<1>1. Day \in Nat /\ Day > 1
  BY FixAssumption
<1>2. qm \in Nat /\ qn \in Nat /\ r \in 0 .. Day - 1 /\ m = Day * qm + r
  BY <1>1
<1>3. n = Day * qn + r
  BY <1>1 DEF TimeOfDay
<1> HIDE DEF qm, qn, r
<1>4. qn - qm \in Int /\ n - m = Day * (qn - qm)
  BY <1>1, <1>2, <1>3
<1>5. qn - qm >= 1 => Day * (qn - qm) >= Day
  BY <1>1, <1>4
<1>6. qn - qm <= -1 => Day * (qn - qm) <= -Day
  BY <1>1, <1>4
<1>7. qn - qm = 0
  BY <1>1, <1>4, <1>5, <1>6
<1>8. Day * (qn - qm) = 0
  BY <1>1, <1>7
<1> QED BY <1>4, <1>8

LEMMA DayNumbers ==
  ASSUME NEW n \in Epoch
  PROVE  TimeOfDay(n) \in 0 .. Day - 1 /\ DateOf(n) \in Nat
  BY EpochNat, FixAssumption DEF TimeOfDay, DateOf

LEMMA CleanTyped ==
  /\ Clean \in Assemblers /\ NoFix \in Fixes
  /\ ~Clean.hasTimeKey /\ ~Clean.seenRmc /\ ~Clean.seenGga /\ Clean.fix.date = None
  /\ NoFix.time = None /\ NoFix.date = None
  BY FixAssumption DEF Clean, Assemblers, NoFix, Fixes, Stamp, None

\* beginEpochIfTimeChanged, field by field.
LEMMA BeginFields ==
  ASSUME NEW a \in Assemblers, NEW n \in Epoch,
         ~(a.hasTimeKey /\ a.timeKey = TimeOfDay(n))
  PROVE  LET b == BeginEpoch(a, n)
         IN  /\ b \in Assemblers
             /\ b.fix.rmc = None /\ b.fix.gga = None /\ b.fix.gsa = None
             /\ b.fix.date = a.fix.date
             /\ b.timeKey = TimeOfDay(n) /\ b.hasTimeKey
             /\ ~b.seenRmc /\ ~b.seenGga /\ ~b.taken
<1> DEFINE f == [NoFix EXCEPT !.date = a.fix.date]
           k == TimeOfDay(n)
           b == [fix |-> f, timeKey |-> k, hasTimeKey |-> TRUE,
                 seenRmc |-> FALSE, seenGga |-> FALSE, taken |-> FALSE]
<1>1. /\ f \in Fixes /\ f.rmc = None /\ f.gga = None /\ f.gsa = None
      /\ f.date = a.fix.date
  BY DEF NoFix, Fixes, Stamp, Assemblers
<1>2. k \in 0 .. Day - 1
  BY DayNumbers
<1>3. BeginEpoch(a, n) = b
  BY DEF BeginEpoch, Clean
<1> HIDE DEF f, k
<1>4. b \in Assemblers
  BY <1>1, <1>2 DEF Assemblers
<1> QED BY <1>1, <1>3, <1>4 DEF k

\* What reading an RMC sentence makes of an assembler.
RmcTaken(a, s, r) ==
  /\ r \in Assemblers
  /\ r.fix.time = s.epoch /\ r.fix.rmc = s.epoch
  /\ r.fix.gga = a.fix.gga /\ r.fix.gsa = a.fix.gsa
  /\ r.fix.date = (IF s.date THEN DateOf(s.epoch) ELSE a.fix.date)
  /\ r.timeKey = a.timeKey /\ r.hasTimeKey = a.hasTimeKey
  /\ r.seenRmc = TRUE /\ r.seenGga = a.seenGga /\ r.taken = a.taken

LEMMA RmcFields ==
  ASSUME NEW a \in Assemblers, NEW s \in Sentence
  PROVE  RmcTaken(a, s, WithRmc(a, s))
<1> DEFINE d == IF s.date THEN DateOf(s.epoch) ELSE a.fix.date
           f == [a.fix EXCEPT !.time = s.epoch, !.rmc = s.epoch, !.date = d]
           r == [a EXCEPT !.fix = f, !.seenRmc = TRUE]
<1>1. s.epoch \in Epoch /\ s.epoch \in Stamp
  BY DEF Sentence, Stamp
<1>2. d \in Int
  BY <1>1, DayNumbers DEF Assemblers, Fixes
<1>3. WithRmc(a, s) = r
  BY DEF WithRmc, Assemblers, Fixes
<1> HIDE DEF d
<1>4. /\ f \in Fixes /\ f.time = s.epoch /\ f.rmc = s.epoch
      /\ f.gga = a.fix.gga /\ f.gsa = a.fix.gsa /\ f.date = d
  BY <1>1, <1>2 DEF Assemblers, Fixes
<1> HIDE DEF f
<1>5. /\ r \in Assemblers /\ r.fix = f
      /\ r.timeKey = a.timeKey /\ r.hasTimeKey = a.hasTimeKey
      /\ r.seenRmc = TRUE /\ r.seenGga = a.seenGga /\ r.taken = a.taken
  BY <1>4 DEF Assemblers
<1> QED BY <1>3, <1>4, <1>5 DEF d, RmcTaken

\* What reading a GGA sentence makes of an assembler.
GgaTaken(a, s, r) ==
  /\ r \in Assemblers
  /\ r.fix.time = s.epoch /\ r.fix.gga = s.epoch
  /\ r.fix.rmc = a.fix.rmc /\ r.fix.gsa = a.fix.gsa /\ r.fix.date = a.fix.date
  /\ r.timeKey = a.timeKey /\ r.hasTimeKey = a.hasTimeKey
  /\ r.seenGga = TRUE /\ r.seenRmc = a.seenRmc /\ r.taken = a.taken

LEMMA GgaFields ==
  ASSUME NEW a \in Assemblers, NEW s \in Sentence
  PROVE  GgaTaken(a, s, WithGga(a, s))
<1> DEFINE f == [a.fix EXCEPT !.time = s.epoch, !.gga = s.epoch]
           r == [a EXCEPT !.fix = f, !.seenGga = TRUE]
<1>1. s.epoch \in Epoch /\ s.epoch \in Stamp
  BY DEF Sentence, Stamp
<1>2. WithGga(a, s) = r
  BY DEF WithGga, Assemblers, Fixes
<1>3. /\ f \in Fixes /\ f.time = s.epoch /\ f.gga = s.epoch
      /\ f.rmc = a.fix.rmc /\ f.gsa = a.fix.gsa /\ f.date = a.fix.date
  BY <1>1 DEF Assemblers, Fixes
<1> HIDE DEF f
<1>4. /\ r \in Assemblers /\ r.fix = f
      /\ r.timeKey = a.timeKey /\ r.hasTimeKey = a.hasTimeKey
      /\ r.seenGga = TRUE /\ r.seenRmc = a.seenRmc /\ r.taken = a.taken
  BY <1>3 DEF Assemblers
<1> QED BY <1>2, <1>3, <1>4 DEF GgaTaken

LEMMA GsaFields ==
  ASSUME NEW a \in Assemblers, NEW s \in Sentence
  PROVE  LET r == WithGsa(a, s)
         IN  /\ r \in Assemblers
             /\ r.fix.gsa = s.epoch /\ r.fix.time = a.fix.time
             /\ r.fix.rmc = a.fix.rmc /\ r.fix.gga = a.fix.gga /\ r.fix.date = a.fix.date
             /\ r.timeKey = a.timeKey /\ r.hasTimeKey = a.hasTimeKey
             /\ r.seenGga = a.seenGga /\ r.seenRmc = a.seenRmc /\ r.taken = a.taken
<1> DEFINE f == [a.fix EXCEPT !.gsa = s.epoch]
           r == [a EXCEPT !.fix = f]
<1>1. s.epoch \in Epoch /\ s.epoch \in Stamp
  BY DEF Sentence, Stamp
<1>2. WithGsa(a, s) = r
  BY DEF WithGsa, Assemblers, Fixes
<1>3. /\ f \in Fixes /\ f.gsa = s.epoch /\ f.time = a.fix.time
      /\ f.rmc = a.fix.rmc /\ f.gga = a.fix.gga /\ f.date = a.fix.date
  BY <1>1 DEF Assemblers, Fixes
<1> HIDE DEF f
<1>4. /\ r \in Assemblers /\ r.fix = f
      /\ r.timeKey = a.timeKey /\ r.hasTimeKey = a.hasTimeKey
      /\ r.seenGga = a.seenGga /\ r.seenRmc = a.seenRmc /\ r.taken = a.taken
  BY <1>3 DEF Assemblers
<1> QED BY <1>2, <1>3, <1>4

\* takeCompletedFix, field by field.
LEMMA TakenFields ==
  ASSUME NEW a \in Assemblers
  PROVE  LET r == Taken(a)
         IN  /\ r \in Assemblers /\ r.fix = a.fix
             /\ r.timeKey = a.timeKey /\ r.hasTimeKey = a.hasTimeKey
             /\ r.seenGga = a.seenGga /\ r.seenRmc = a.seenRmc
             /\ r.taken <=> a.taken \/ (a.seenRmc /\ a.seenGga)
<1>1. CASE HasCompleteFix(a)
  <2> DEFINE r == [a EXCEPT !.taken = TRUE]
  <2>1. /\ r \in Assemblers /\ r.fix = a.fix
        /\ r.timeKey = a.timeKey /\ r.hasTimeKey = a.hasTimeKey
        /\ r.seenGga = a.seenGga /\ r.seenRmc = a.seenRmc /\ r.taken
    BY DEF Assemblers
  <2>2. a.seenRmc /\ a.seenGga
    BY <1>1 DEF HasCompleteFix
  <2>3. Taken(a) = r
    BY <1>1 DEF Taken
  <2> HIDE DEF r
  <2> QED BY <2>1, <2>2, <2>3
<1>2. CASE ~HasCompleteFix(a)
  <2>1. Taken(a) = a /\ (a.seenRmc /\ a.seenGga => a.taken)
    BY <1>2 DEF Taken, HasCompleteFix
  <2>2. a.taken <=> a.taken \/ (a.seenRmc /\ a.seenGga)
    BY <2>1
  <2> QED BY <2>1, <2>2
<1> QED BY <1>1, <1>2

LEMMA SentenceFacts ==
  ASSUME NEW s \in Sentence
  PROVE  /\ s.epoch \in Epoch /\ s.epoch \in Nat \ {0}
         /\ s.type \in {"GGA", "GSA", "RMC"} /\ s.date \in BOOLEAN /\ s.time \in BOOLEAN
         /\ Rank(s.type) \in 1 .. 3 /\ Order(s) = 3 * s.epoch + Rank(s.type)
         /\ Order(s) \in Int
         /\ s.type = "GGA" => Rank(s.type) = 1
         /\ s.type = "RMC" => Rank(s.type) = 3
<1>1. s.epoch \in Epoch /\ s.type \in {"GGA", "GSA", "RMC"}
      /\ s.date \in BOOLEAN /\ s.time \in BOOLEAN
  BY DEF Sentence
<1>2. s.epoch \in Nat \ {0}
  BY <1>1, EpochNat
<1>3. /\ Rank(s.type) \in 1 .. 3
      /\ s.type = "GGA" => Rank(s.type) = 1
      /\ s.type = "RMC" => Rank(s.type) = 3
  BY <1>1 DEF Rank
<1> QED BY <1>1, <1>2, <1>3 DEF Order

\* Numbers of a state of the right type.
LEMMA StateFacts ==
  ASSUME TypeOK
  PROVE  /\ Len(uart) \in Nat /\ \A i \in Waiting : uart[i] \in Sentence
         /\ epoch \in Nat \ {0} /\ epoch \in Epoch /\ sent \in 0 .. 3 /\ heard \in Nat
         /\ Line = 3 * epoch + sent /\ Line \in Int
         /\ Day \in Nat /\ Day > 1
         /\ assembler \in Assemblers
         /\ latest.time \in Stamp /\ latest.time \in Int
         /\ lastFix.time \in Stamp /\ lastFix.time \in Int
         /\ assembler.fix.time \in Int /\ assembler.fix.gsa \in Stamp
         /\ assembler.fix.gsa \in Int
<1>1. Len(uart) \in Nat /\ \A i \in Waiting : uart[i] \in Sentence
  BY DEF TypeOK, Waiting
<1>2. epoch \in Nat \ {0} /\ heard \in Nat /\ epoch \in Epoch
  BY EpochNat DEF TypeOK
<1>3. sent \in 0 .. 3
  BY DEF TypeOK, Burst
<1>4. Stamp \subseteq Int
  BY EpochNat DEF Stamp
<1>5. latest.time \in Stamp /\ lastFix.time \in Stamp
  BY DEF TypeOK, Fixes
<1>6. assembler \in Assemblers /\ assembler.fix.time \in Stamp
      /\ assembler.fix.gsa \in Stamp
  BY DEF TypeOK, Assemblers, Fixes
<1>7. Day \in Nat /\ Day > 1
  BY FixAssumption
<1>8. Line = 3 * epoch + sent /\ Line \in Int
  BY <1>2, <1>3 DEF Line
<1> QED BY <1>1, <1>2, <1>3, <1>4, <1>5, <1>6, <1>7, <1>8

\* What waits was sent in this epoch or before.
LEMMA WaitingIsPast ==
  ASSUME TypeOK, InOrder, NEW i \in Waiting
  PROVE  uart[i].epoch <= epoch
<1>1. uart[i] \in Sentence /\ epoch \in Nat /\ sent \in 0 .. 3 /\ Line = 3 * epoch + sent
  BY StateFacts
<1>2. /\ uart[i].epoch \in Nat /\ Rank(uart[i].type) \in 1 .. 3
      /\ Order(uart[i]) = 3 * uart[i].epoch + Rank(uart[i].type)
  BY <1>1, SentenceFacts
<1>3. Order(uart[i]) <= Line
  BY DEF InOrder
<1> DEFINE e == uart[i].epoch
           r == Rank(uart[i].type)
<1>4. 3 * e + r <= 3 * epoch + sent /\ e \in Nat /\ r \in 1 .. 3
  BY <1>1, <1>2, <1>3
<1> HIDE DEF e, r
<1>5. e <= epoch
  BY <1>1, <1>4
<1> QED BY <1>5 DEF e

-----------------------------------------------------------------------------
(* Parts of the invariant that a step leaves alone.                          *)

LEMMA InOrderLater ==
  ASSUME TypeOK, InOrder, UNCHANGED uart, Line' \in Int, Line' >= Line
  PROVE  InOrder'
<1>1. Waiting' = Waiting
  BY DEF Waiting
<1>2. \A i \in Waiting : Order(uart[i]) \in Int /\ Order(uart[i])' = Order(uart[i])
  BY StateFacts, SentenceFacts DEF Order, Rank
<1>3. Line \in Int
  BY StateFacts
<1>4. \A i \in Waiting : Order(uart[i]) <= Line'
  BY <1>2, <1>3 DEF InOrder
<1> QED BY <1>1, <1>2, <1>4 DEF InOrder

LEMMA AheadLater ==
  ASSUME TypeOK, Ahead, UNCHANGED <<uart, assembler>>, Line' \in Int, Line' >= Line,
         epoch' \in Int, epoch' >= epoch
  PROVE  Ahead'
<1> SUFFICES ASSUME assembler.hasTimeKey
             PROVE  /\ Line' >= 3 * Key + 1
                    /\ \A i \in Waiting : Order(uart[i]) > 3 * Key + 1
                    /\ assembler.fix.gsa # None =>
                         /\ Key <= assembler.fix.gsa /\ assembler.fix.gsa <= epoch'
                         /\ \A i \in Waiting : assembler.fix.gsa <= uart[i].epoch
  <2>1. Waiting' = Waiting /\ Key' = Key
    BY DEF Waiting, Key
  <2> QED BY <2>1 DEF Ahead, Order, Rank
<1>1. /\ Line \in Int /\ Key \in Int /\ epoch \in Int /\ assembler.fix.gsa \in Int
  BY StateFacts DEF Key
<1> QED BY <1>1 DEF Ahead

LEMMA ShapeLater ==
  ASSUME Shape(assembler), UNCHANGED assembler
  PROVE  Shape(assembler)'
  BY DEF Shape

LEMMA DatesLater ==
  ASSUME Dates, UNCHANGED <<uart, assembler>>, clock = "date" => clock' = "date"
  PROVE  Dates'
  BY DEF Dates, Waiting

LEMMA BehindLater ==
  ASSUME TypeOK, Behind, UNCHANGED <<uart, latest>>, lastFix' \in {latest, lastFix},
         Line' \in Int, Line' >= Line
  PROVE  Behind'
<1>1. Line \in Int /\ latest.time \in Int
  BY StateFacts
<1>2. Line' >= 3 * latest.time + 3
  BY <1>1 DEF Behind
<1> QED BY <1>2 DEF Behind, Waiting

LEMMA ConsumedLater ==
  ASSUME Consumed, UNCHANGED <<assembler, got, latest>>
  PROVE  Consumed'
  BY DEF Consumed, Key

LEMMA ChainLater ==
  ASSUME Chain, UNCHANGED <<uart, assembler, heard>>, clock' = "nothing" => clock = "nothing",
         assembler.hasTimeKey \/ ~NoneTimed =>
           epoch' - heard < Day /\ (epoch' - heard = Day - 1 => sent' = 0)
  PROVE  Chain'
<1>1. Waiting' = Waiting
  BY DEF Waiting
<1>2. \A j : Linked(j) <=> Linked(j)'
  BY <1>1 DEF Linked, Timed, Key
<1>3. NoneTimed' <=> NoneTimed
  BY <1>1 DEF NoneTimed, Timed
<1> QED BY <1>1, <1>2, <1>3 DEF Chain, Timed, Key

LEMMA FixLater ==
  ASSUME FixOfOneEpoch, DateIsOfTheEpoch, UNCHANGED latest
  PROVE  FixOfOneEpoch' /\ DateIsOfTheEpoch'
  BY DEF FixOfOneEpoch, DateIsOfTheEpoch

-----------------------------------------------------------------------------
(* The line. *)

LEMMA InitFixInv == Init => FixInv
<1> SUFFICES ASSUME Init PROVE FixInv
  OBVIOUS
<1>1. /\ epoch = 1 /\ sent = 0 /\ clock = "nothing" /\ heard = 0 /\ uart = <<>>
      /\ assembler = Clean /\ got = NothingGot
      /\ polling = FALSE /\ completed = FALSE /\ latest = NoFix /\ lastFix = NoFix
  BY DEF Init
<1>2. Waiting = {} /\ Len(uart) = 0 /\ uart \in Seq(Sentence)
  BY <1>1 DEF Waiting
<1>3. TypeOK
  <2>1. Len(uart) <= Buffer /\ sent \in 0 .. Len(Burst)
    BY <1>1, <1>2, FixAssumption DEF Burst
  <2>2. got.epoch \in Epoch \cup {0} /\ got.types \subseteq {"GGA", "RMC"}
    BY <1>1 DEF NothingGot
  <2> QED BY <1>1, <1>2, <2>1, <2>2, CleanTyped, EpochNat DEF TypeOK
<1>4. InOrder /\ Ahead /\ Dates
  BY <1>1, <1>2, CleanTyped DEF InOrder, Ahead, Dates
<1>5. Shape(assembler)
  BY <1>1, CleanTyped DEF Shape, Clean
<1>6. Chain
  BY <1>1, <1>2, CleanTyped DEF Chain, NoneTimed
<1>7. Behind
  BY <1>1, <1>2, CleanTyped, EpochNat DEF Behind, Line
<1>8. Consumed
  BY <1>1, CleanTyped DEF Consumed, NothingGot
<1>9. FixOfOneEpoch /\ DateIsOfTheEpoch
  BY <1>1, CleanTyped DEF FixOfOneEpoch, DateIsOfTheEpoch
<1> QED BY <1>3, <1>4, <1>5, <1>6, <1>7, <1>8, <1>9 DEF FixInv

LEMMA NextEpochKeeps == FixInv /\ NextEpoch => FixInv'
<1> SUFFICES ASSUME FixInv, NextEpoch PROVE FixInv'
  OBVIOUS
<1>1. /\ sent = 3 /\ epoch' = epoch + 1 /\ epoch' \in Epoch /\ sent' = 0
      /\ clock' \in {"nothing", "time", "date"}
      /\ clock' = "nothing" => clock = "nothing"
      /\ clock = "date" => clock' = "date"
      /\ UNCHANGED <<heard, uart, assembler, got, polling, fixVars>>
  <2>1. clock \in {"nothing", "time", "date"}
    BY DEF FixInv, TypeOK
  <2> QED BY <2>1 DEF NextEpoch, Burst
<1>2. epoch \in Nat /\ heard \in Nat /\ Day \in Nat /\ Line' = Line /\ Waiting' = Waiting
  BY <1>1, StateFacts DEF FixInv, Line, Waiting
<1>3. TypeOK'
  <2>1. sent' \in 0 .. Len(Burst)
    BY <1>1 DEF Burst
  <2> QED BY <1>1, <2>1 DEF FixInv, TypeOK, fixVars
<1>4. Line' \in Int /\ Line' >= Line /\ epoch' \in Int /\ epoch' >= epoch
  BY <1>1, <1>2, StateFacts DEF FixInv
<1>5. InOrder' /\ Ahead' /\ Shape(assembler)' /\ Dates' /\ Behind' /\ Consumed'
  BY <1>1, <1>4, InOrderLater, AheadLater, ShapeLater, DatesLater, BehindLater, ConsumedLater
     DEF FixInv, fixVars
<1>6. Chain'
  <2>1. assembler.hasTimeKey \/ ~NoneTimed => epoch' - heard < Day
    BY <1>1, <1>2 DEF FixInv, Chain
  <2> QED BY <1>1, <2>1, ChainLater DEF FixInv
<1>7. FixOfOneEpoch' /\ DateIsOfTheEpoch'
  BY <1>1, FixLater DEF FixInv, fixVars
<1> QED BY <1>3, <1>5, <1>6, <1>7 DEF FixInv

LEMMA LoseKeeps == FixInv /\ Lose => FixInv'
<1> SUFFICES ASSUME FixInv, Lose PROVE FixInv'
  OBVIOUS
<1>1. /\ sent < 3 /\ epoch - heard < Day - 1 /\ sent' = sent + 1
      /\ UNCHANGED <<epoch, clock, heard, uart, assembler, got, polling, fixVars>>
  BY DEF Lose, Burst
<1>2. /\ epoch \in Nat /\ heard \in Nat /\ Day \in Nat /\ sent \in 0 .. 3
      /\ Line \in Int /\ Line' = Line + 1
  <2>1. TypeOK
    BY DEF FixInv
  <2>2. /\ epoch \in Nat /\ heard \in Nat /\ Day \in Nat /\ sent \in 0 .. 3
        /\ Line \in Int /\ Line = 3 * epoch + sent
    BY <2>1, StateFacts
  <2>3. Line' = 3 * epoch + (sent + 1)
    BY <1>1 DEF Line
  <2> QED BY <2>2, <2>3
<1>3. TypeOK'
  <2>1. sent' \in 0 .. Len(Burst)
    BY <1>1, <1>2 DEF Burst
  <2> QED BY <1>1, <2>1 DEF FixInv, TypeOK, fixVars
<1>4. InOrder' /\ Ahead' /\ Shape(assembler)' /\ Dates' /\ Behind' /\ Consumed'
  <2>1. Line' \in Int /\ Line' >= Line
    BY <1>2
  <2> QED BY <1>1, <1>2, <2>1, InOrderLater, AheadLater, ShapeLater, DatesLater, BehindLater,
             ConsumedLater
          DEF FixInv, fixVars
<1>5. Chain'
  <2>1. epoch' - heard < Day /\ (epoch' - heard = Day - 1 => sent' = 0)
    BY <1>1, <1>2
  <2> QED BY <1>1, <2>1, ChainLater DEF FixInv
<1>6. FixOfOneEpoch' /\ DateIsOfTheEpoch'
  BY <1>1, FixLater DEF FixInv, fixVars
<1> QED BY <1>3, <1>4, <1>5, <1>6 DEF FixInv

LEMMA PollKeeps == FixInv /\ (StartPoll \/ EndPoll) => FixInv'
<1> SUFFICES ASSUME FixInv, StartPoll \/ EndPoll PROVE FixInv'
  OBVIOUS
<1>1. /\ polling' \in BOOLEAN /\ completed' \in BOOLEAN /\ lastFix' \in {latest, lastFix}
      /\ UNCHANGED <<receiverVars, uart, assembler, got, latest>>
  BY DEF StartPoll, EndPoll, FixInv, TypeOK
<1>2. Line' = Line /\ Waiting' = Waiting
  BY <1>1 DEF Line, Waiting, receiverVars
<1>3. TypeOK'
  BY <1>1 DEF FixInv, TypeOK, receiverVars
<1>4. Line \in Int /\ epoch \in Int
  BY StateFacts DEF FixInv
<1>5. InOrder' /\ Ahead' /\ Shape(assembler)' /\ Dates' /\ Behind' /\ Consumed'
  <2>1. Line' \in Int /\ Line' >= Line /\ epoch' \in Int /\ epoch' >= epoch
    BY <1>1, <1>2, <1>4 DEF receiverVars
  <2> QED BY <1>1, <2>1, InOrderLater, AheadLater, ShapeLater, DatesLater, BehindLater,
             ConsumedLater
          DEF FixInv, receiverVars
<1>6. Chain'
  BY <1>1, ChainLater DEF FixInv, Chain, receiverVars
<1>7. FixOfOneEpoch' /\ DateIsOfTheEpoch'
  BY <1>1, FixLater DEF FixInv
<1> QED BY <1>3, <1>5, <1>6, <1>7 DEF FixInv

LEMMA LongPressKeeps == FixInv /\ LongPress => FixInv'
<1> SUFFICES ASSUME FixInv, LongPress PROVE FixInv'
  OBVIOUS
<1>1. /\ uart' = <<>> /\ assembler' = Clean /\ got' = NothingGot
      /\ clock' \in {clock, "nothing"}
      /\ UNCHANGED <<epoch, sent, heard, polling, fixVars>>
  BY DEF LongPress
<1>2. Waiting' = {} /\ Len(uart') = 0 /\ uart' \in Seq(Sentence) /\ Line' = Line
  BY <1>1 DEF Waiting, Line
<1>3. TypeOK'
  <2>1. Len(uart') <= Buffer
    BY <1>2, FixAssumption
  <2>2. got'.epoch \in Epoch \cup {0} /\ got'.types \subseteq {"GGA", "RMC"}
    BY <1>1 DEF NothingGot
  <2>3. clock' \in {"nothing", "time", "date"}
    BY <1>1 DEF FixInv, TypeOK
  <2> QED BY <1>1, <1>2, <2>1, <2>2, <2>3, CleanTyped DEF FixInv, TypeOK, fixVars
<1>4. InOrder' /\ Ahead' /\ Dates'
  BY <1>1, <1>2, CleanTyped DEF InOrder, Ahead, Dates
<1>5. Shape(assembler)'
  BY <1>1, CleanTyped DEF Shape, Clean
<1>6. Chain'
  BY <1>1, <1>2, CleanTyped DEF Chain, NoneTimed
<1>7. Behind'
  BY <1>1, <1>2 DEF FixInv, Behind, fixVars
<1>8. Consumed'
  BY <1>1, CleanTyped DEF Consumed, NothingGot
<1>9. FixOfOneEpoch' /\ DateIsOfTheEpoch'
  BY <1>1 DEF FixInv, FixOfOneEpoch, DateIsOfTheEpoch, fixVars
<1> QED BY <1>3, <1>4, <1>5, <1>6, <1>7, <1>8, <1>9 DEF FixInv

\* What the receiver sends next.
LEMMA OutgoingFacts ==
  ASSUME TypeOK, sent < 3
  PROVE  /\ Outgoing \in Sentence /\ Outgoing.epoch = epoch
         /\ Order(Outgoing) = Line + 1 /\ (sent = 0 => Outgoing.type = "GGA")
         /\ Outgoing.date <=> clock = "date"
         /\ Outgoing.time <=> clock # "nothing"
<1>1. sent \in 0 .. 2 /\ epoch \in Epoch /\ epoch \in Nat
  BY StateFacts
<1>2. /\ Burst[sent + 1] \in {"GGA", "GSA", "RMC"}
      /\ Rank(Burst[sent + 1]) = sent + 1 /\ (sent = 0 => Burst[sent + 1] = "GGA")
  <2>1. Burst[1] = "GGA" /\ Burst[2] = "GSA" /\ Burst[3] = "RMC"
    BY DEF Burst
  <2>2. sent = 0 \/ sent = 1 \/ sent = 2
    BY <1>1
  <2> QED BY <2>1, <2>2 DEF Rank
<1>3. /\ Outgoing.type = Burst[sent + 1] /\ Outgoing.epoch = epoch
      /\ Outgoing.time = (clock # "nothing") /\ Outgoing.date = (clock = "date")
  BY DEF Outgoing
<1>4. Outgoing \in Sentence
  BY <1>1, <1>2 DEF Outgoing, Sentence
<1>5. Order(Outgoing) = Line + 1
  BY <1>1, <1>2, <1>3 DEF Order, Line
<1> QED BY <1>2, <1>3, <1>4, <1>5

LEMMA ArriveKeeps == FixInv /\ Arrive => FixInv'
<1> SUFFICES ASSUME FixInv, Arrive PROVE FixInv'
  OBVIOUS
<1> DEFINE n == Len(uart) + 1
           o == Outgoing
<1>1. /\ sent < 3 /\ Len(uart) < Buffer
      /\ uart' = Append(uart, o) /\ sent' = sent + 1
      /\ heard' = (IF Timed(o) THEN epoch ELSE heard)
      /\ UNCHANGED <<epoch, clock, assembler, got, polling, fixVars>>
  BY DEF Arrive, Room, Burst
<1>2. /\ TypeOK /\ InOrder /\ Ahead /\ Chain /\ Dates /\ Behind
      /\ Len(uart) \in Nat /\ epoch \in Nat /\ epoch \in Epoch /\ heard \in Nat
      /\ sent \in 0 .. 2 /\ Line \in Int /\ Line = 3 * epoch + sent
      /\ Day \in Nat /\ Day > 1 /\ uart \in Seq(Sentence)
      /\ latest.time \in Int /\ Key \in Int /\ assembler.fix.gsa \in Int
  BY <1>1, StateFacts DEF FixInv, Key, TypeOK
<1>3. /\ o \in Sentence /\ o.epoch = epoch
      /\ Order(o) = Line + 1 /\ (sent = 0 => o.type = "GGA")
      /\ o.date <=> clock = "date"
      /\ o.time <=> clock # "nothing"
  BY <1>1, <1>2, OutgoingFacts
<1> HIDE DEF o
<1>4. /\ Line' = Line + 1 /\ Waiting' = 1 .. n /\ n \in Nat /\ Waiting = 1 .. n - 1
      /\ \A i \in Waiting : uart'[i] = uart[i] /\ i \in Waiting' /\ i < n /\ i \in Int
      /\ uart'[n] = o /\ n \in Waiting'
      /\ \A i \in Waiting' : i \in Waiting \/ i = n
      /\ uart' \in Seq(Sentence) /\ Len(uart') = n
  <2>1. Len(uart') = n /\ uart' \in Seq(Sentence) /\ n \in Nat
    BY <1>1, <1>2, <1>3
  <2>2. uart'[n] = o /\ \A i \in Waiting : uart'[i] = uart[i]
    BY <1>1, <1>2, <1>3 DEF Waiting
  <2>3. Line' = Line + 1
    BY <1>1, <1>2 DEF Line
  <2>4. Waiting' = 1 .. n /\ Waiting = 1 .. n - 1
    BY <1>2, <2>1 DEF Waiting
  <2> HIDE DEF n
  <2>5. \A i \in Waiting' : i \in Waiting \/ i = n
    BY <2>1, <2>4
  <2>6. /\ \A i \in Waiting : i \in Waiting' /\ i < n /\ i \in Int
        /\ n \in Waiting'
    <3>1. n >= 1
      BY <1>2 DEF n
    <3> QED BY <2>1, <2>4, <3>1
  <2> QED BY <2>1, <2>2, <2>3, <2>4, <2>5, <2>6
<1>5. \A i \in Waiting : uart[i] \in Sentence /\ Order(uart[i]) \in Int
  BY <1>2, StateFacts, SentenceFacts
<1> HIDE DEF n
<1>6. TypeOK'
  <2>1. Len(uart') <= Buffer
    BY <1>1, <1>2, <1>4, FixAssumption DEF n
  <2>2. sent' \in 0 .. Len(Burst)
    BY <1>1, <1>2 DEF Burst
  <2>3. heard' \in Epoch \cup {0}
    BY <1>1, <1>2 DEF TypeOK
  <2> QED BY <1>1, <1>2, <1>4, <2>1, <2>2, <2>3 DEF TypeOK, fixVars
<1>7. InOrder'
  <2>1. ASSUME NEW i \in Waiting', NEW j \in Waiting', i < j
        PROVE  Order(uart'[i]) < Order(uart'[j])
    <3>1. CASE j \in Waiting /\ i \in Waiting
      BY <1>2, <1>4, <2>1, <3>1 DEF InOrder
    <3>2. CASE j = n /\ i \in Waiting
      BY <1>2, <1>3, <1>4, <1>5, <3>2 DEF InOrder
    <3>3. i # n
      BY <1>4, <2>1
    <3> QED BY <1>4, <3>1, <3>2, <3>3
  <2>2. ASSUME NEW i \in Waiting' PROVE Order(uart'[i]) <= Line'
    BY <1>2, <1>3, <1>4, <1>5 DEF InOrder
  <2> QED BY <2>1, <2>2 DEF InOrder, Order, Rank
<1>8. Ahead'
  <2> SUFFICES ASSUME assembler.hasTimeKey
               PROVE  /\ Line' >= 3 * Key + 1
                      /\ \A i \in Waiting' : Order(uart'[i]) > 3 * Key + 1
                      /\ assembler.fix.gsa # None =>
                           /\ Key <= assembler.fix.gsa /\ assembler.fix.gsa <= epoch
                           /\ \A i \in Waiting' : assembler.fix.gsa <= uart'[i].epoch
    BY <1>1 DEF Ahead, Order, Rank, Key
  <2>1. Line >= 3 * Key + 1
    BY <1>2 DEF Ahead
  <2>2. ASSUME NEW i \in Waiting' PROVE Order(uart'[i]) > 3 * Key + 1
    BY <1>2, <1>3, <1>4, <1>5, <2>1 DEF Ahead
  <2>3. ASSUME assembler.fix.gsa # None
        PROVE  /\ Key <= assembler.fix.gsa /\ assembler.fix.gsa <= epoch
               /\ \A i \in Waiting' : assembler.fix.gsa <= uart'[i].epoch
    BY <1>2, <1>3, <1>4, <2>3 DEF Ahead
  <2> QED BY <1>2, <1>4, <2>1, <2>2, <2>3
<1>9. Chain'
  <2>1. ASSUME NEW j \in Waiting', Timed(uart'[j])
        PROVE  Linked(j)' /\ uart'[j].epoch <= heard'
    <3>1. CASE j \in Waiting
      <4>1. Linked(j) /\ uart[j].epoch <= heard
        BY <1>2, <1>4, <2>1, <3>1 DEF Chain
      <4>2. uart[j].epoch <= heard'
        BY <1>1, <1>2, <3>1, <4>1, WaitingIsPast
      <4>3. CASE \E i \in Waiting : /\ i < j /\ Timed(uart[i])
                                    /\ uart[j].epoch - uart[i].epoch < Day
        BY <1>4, <3>1, <4>2, <4>3 DEF Linked, Timed
      <4>4. CASE assembler.hasTimeKey /\ uart[j].epoch - Key < Day
        BY <1>1, <1>4, <3>1, <4>2, <4>4 DEF Linked, Key
      <4>5. CASE ~assembler.hasTimeKey /\ \A i \in Waiting : i < j => ~Timed(uart[i])
        <5>1. \A i \in Waiting' : i < j => i \in Waiting
          BY <1>4, <3>1
        <5> QED BY <1>1, <1>4, <3>1, <4>2, <4>5, <5>1 DEF Linked, Timed
      <4> QED BY <4>1, <4>3, <4>4, <4>5 DEF Linked
    <3>2. CASE j = n
      <4>1. Timed(o) /\ heard' = epoch /\ uart'[j] = o
        BY <1>1, <1>4, <2>1, <3>2
      <4>2. CASE \E i \in Waiting : Timed(uart[i]) /\ uart[i].epoch = heard
        <5>1. PICK i \in Waiting : Timed(uart[i]) /\ uart[i].epoch = heard
          BY <4>2
        <5>2. epoch - heard < Day
          BY <1>2, <5>1 DEF Chain, NoneTimed
        <5>3. /\ i \in Waiting' /\ i < j /\ uart'[i] = uart[i]
              /\ uart'[j].epoch - uart'[i].epoch < Day
          BY <1>3, <1>4, <3>2, <4>1, <5>1, <5>2
        <5> QED BY <1>2, <1>3, <4>1, <5>1, <5>3 DEF Linked, Timed
      <4>3. CASE NoneTimed /\ (assembler.hasTimeKey => Key = heard)
        <5>1. assembler.hasTimeKey => epoch - Key < Day
          BY <1>2, <4>3 DEF Chain
        <5>2. \A i \in Waiting' : i < j => ~Timed(uart'[i])
          BY <1>4, <3>2, <4>3 DEF NoneTimed
        <5>3. uart'[j].epoch <= heard'
          BY <1>2, <1>3, <4>1
        <5>4. assembler' = assembler /\ Key' = Key /\ uart'[j].epoch = epoch
          BY <1>1, <1>3, <4>1 DEF Key
        <5>5. CASE assembler.hasTimeKey
          BY <5>1, <5>3, <5>4, <5>5 DEF Linked
        <5>6. CASE ~assembler.hasTimeKey
          BY <5>2, <5>3, <5>4, <5>6 DEF Linked, Timed
        <5> QED BY <5>3, <5>5, <5>6
      <4> QED BY <1>2, <4>2, <4>3 DEF Chain
    <3> QED BY <1>4, <3>1, <3>2
  <2>2. CASE Timed(o)
    <3>1. heard' = epoch /\ uart'[n] = o
      BY <1>1, <1>4, <2>2
    <3>2. \E i \in Waiting' : Timed(uart'[i]) /\ uart'[i].epoch = heard'
      BY <1>3, <1>4, <2>2, <3>1
    <3>3. clock # "nothing"
      BY <1>3, <2>2 DEF Timed
    <3>4. epoch - heard' < Day /\ epoch - heard' # Day - 1
      BY <1>2, <3>1
    <3> QED BY <1>1, <2>1, <3>2, <3>3, <3>4 DEF Chain, Timed
  <2>3. CASE ~Timed(o)
    <3>1. heard' = heard
      BY <1>1, <2>3
    <3>2. NoneTimed' <=> NoneTimed
      BY <1>4, <2>3 DEF NoneTimed, Timed
    <3>3. \/ \E i \in Waiting' : Timed(uart'[i]) /\ uart'[i].epoch = heard'
          \/ NoneTimed' /\ (assembler.hasTimeKey => Key = heard')
      BY <1>2, <1>4, <3>1, <3>2 DEF Chain
    <3>4. clock = "nothing" => ~assembler.hasTimeKey /\ NoneTimed'
      BY <1>2, <3>2 DEF Chain
    <3>5. ASSUME assembler.hasTimeKey \/ ~NoneTimed'
          PROVE  epoch - heard' < Day /\ epoch - heard' # Day - 1
      <4>1. epoch - heard < Day /\ (epoch - heard = Day - 1 => sent = 0)
        BY <1>2, <3>2, <3>5 DEF Chain
      <4>2. clock # "nothing"
        BY <1>2, <3>2, <3>5 DEF Chain
      <4>3. sent # 0
        BY <1>3, <2>3, <4>2 DEF Timed
      <4> QED BY <3>1, <4>1, <4>3
    <3> QED BY <1>1, <2>1, <3>3, <3>4, <3>5 DEF Chain, Timed, Key
  <2> QED BY <2>2, <2>3
<1>10. Dates'
  <2>1. \A i \in Waiting' : uart'[i].date => clock = "date"
    BY <1>2, <1>3, <1>4 DEF Dates
  <2>2. \A i, j \in Waiting' : i < j /\ uart'[i].date => uart'[j].date
    <3> SUFFICES ASSUME NEW i \in Waiting', NEW j \in Waiting', i < j, uart'[i].date
                 PROVE  uart'[j].date
      OBVIOUS
    <3>1. CASE j = n
      BY <1>3, <1>4, <2>1, <3>1
    <3>2. CASE j \in Waiting
      <4>1. i \in Waiting
        BY <1>4, <3>2
      <4> QED BY <1>2, <1>4, <3>2, <4>1 DEF Dates
    <3> QED BY <1>4, <3>1, <3>2
  <2>3. assembler.fix.date # None => clock = "date" /\ \A i \in Waiting' : uart'[i].date
    BY <1>2, <1>3, <1>4 DEF Dates
  <2> QED BY <1>1, <2>1, <2>2, <2>3 DEF Dates
<1>11. Behind'
  <2>1. Line >= 3 * latest.time + 3 /\ (lastFix = latest \/ lastFix.time < latest.time)
    BY <1>2 DEF Behind
  <2>2. latest.time < epoch
    BY <1>2, <2>1
  <2>3. \A i \in Waiting' : latest.time < uart'[i].epoch
    BY <1>2, <1>3, <1>4, <2>2 DEF Behind
  <2>4. Line' >= 3 * latest.time + 3
    BY <1>2, <1>4, <2>1
  <2> QED BY <1>1, <2>1, <2>3, <2>4 DEF Behind, fixVars
<1>12. Shape(assembler)' /\ Consumed' /\ FixOfOneEpoch' /\ DateIsOfTheEpoch'
  BY <1>1, ShapeLater, ConsumedLater, FixLater DEF FixInv, fixVars
<1> QED BY <1>6, <1>7, <1>8, <1>9, <1>10, <1>11, <1>12 DEF FixInv

-----------------------------------------------------------------------------
(* Reading a sentence. *)

\* What is left of the buffer when its first sentence is gone.
LEMMA TailFacts ==
  ASSUME FixInv, ReadSentence
  PROVE  /\ 1 \in Waiting /\ uart[1] \in Sentence /\ uart' \in Seq(Sentence)
         /\ Len(uart') <= Buffer
         /\ \A i \in Waiting' : i \in Int /\ i + 1 \in Waiting /\ uart'[i] = uart[i + 1] /\ 1 < i + 1
         /\ \A i \in Waiting : i = 1 \/ (i \in Int /\ i - 1 \in Waiting' /\ uart'[i - 1] = uart[i])
         /\ UNCHANGED <<receiverVars, polling, lastFix>> /\ Line' = Line
<1>1. /\ uart # <<>> /\ uart' = Tail(uart) /\ UNCHANGED <<receiverVars, polling, lastFix>>
      /\ uart \in Seq(Sentence) /\ Len(uart) <= Buffer
  BY DEF FixInv, TypeOK, ReadSentence
<1>2. Line' = Line
  BY <1>1 DEF Line, receiverVars
<1> DEFINE n == Len(uart)
           m == Len(uart')
<1>3. n \in Nat \ {0} /\ uart' \in Seq(Sentence) /\ m = n - 1 /\ Buffer \in Nat
  BY <1>1, FixAssumption
<1>4. \A i \in 1 .. n - 1 : uart'[i] = uart[i + 1]
  BY <1>1
<1>5. \A i \in 1 .. n : uart[i] \in Sentence
  BY <1>1
<1>6. Waiting = 1 .. n /\ Waiting' = 1 .. m /\ n <= Buffer
  BY <1>1 DEF Waiting
<1> HIDE DEF n, m
<1>7. /\ \A i \in Waiting' : i \in Int /\ i + 1 \in Waiting /\ uart'[i] = uart[i + 1] /\ 1 < i + 1
      /\ \A i \in Waiting : i = 1 \/ (i \in Int /\ i - 1 \in Waiting' /\ uart'[i - 1] = uart[i])
  BY <1>3, <1>4, <1>6
<1>8. 1 \in Waiting /\ uart[1] \in Sentence /\ m <= Buffer
  BY <1>3, <1>5, <1>6
<1> QED BY <1>1, <1>2, <1>3, <1>7, <1>8 DEF m

\* What follows the first sentence was sent after it.
LEMMA TailOrder ==
  ASSUME FixInv, ReadSentence
  PROVE  /\ InOrder'
         /\ \A i \in Waiting' :
              /\ uart'[i] \in Sentence
              /\ Order(uart'[i]) > Order(uart[1]) /\ uart'[i].epoch >= uart[1].epoch
              /\ uart[1].type = "RMC" => uart'[i].epoch > uart[1].epoch
         /\ \A i \in Waiting' : latest.time < uart'[i].epoch
         /\ Order(uart[1]) <= Line /\ uart[1].epoch <= epoch
<1>1. TypeOK /\ InOrder /\ Behind
  BY DEF FixInv
<1>2. \A i \in Waiting : uart[i] \in Sentence
  BY <1>1, StateFacts
<1>3. ASSUME NEW i \in Waiting'
      PROVE  /\ uart'[i] \in Sentence
             /\ Order(uart'[i]) > Order(uart[1]) /\ uart'[i].epoch >= uart[1].epoch
             /\ uart[1].type = "RMC" => uart'[i].epoch > uart[1].epoch
  <2> DEFINE e == uart[1].epoch
             q == Rank(uart[1].type)
             f == uart[i + 1].epoch
             r == Rank(uart[i + 1].type)
  <2>1. uart'[i] = uart[i + 1] /\ i + 1 \in Waiting /\ 1 \in Waiting /\ 1 < i + 1
    BY TailFacts
  <2>2. Order(uart[i + 1]) > Order(uart[1])
    <3>1. Order(uart[i + 1]) \in Int /\ Order(uart[1]) \in Int
      BY <1>2, <2>1, SentenceFacts
    <3>2. Order(uart[1]) < Order(uart[i + 1])
      BY <1>1, <2>1 DEF InOrder
    <3> QED BY <3>1, <3>2
  <2>3. /\ e \in Nat /\ f \in Nat /\ q \in 1 .. 3 /\ r \in 1 .. 3
        /\ Order(uart[i + 1]) = 3 * f + r /\ Order(uart[1]) = 3 * e + q
        /\ uart[1].type = "RMC" => q = 3
    BY <1>2, <2>1, SentenceFacts
  <2>4. 3 * f + r > 3 * e + q
    BY <2>2, <2>3
  <2> HIDE DEF e, f, q, r
  <2>5. f >= e /\ (q = 3 => f > e)
    BY <2>3, <2>4
  <2> QED BY <1>2, <2>1, <2>2, <2>3, <2>5 DEF e, f
<1>4. InOrder'
  <2>1. ASSUME NEW i \in Waiting', NEW j \in Waiting', i < j
        PROVE  Order(uart'[i]) < Order(uart'[j])
    <3>1. /\ i + 1 \in Waiting /\ j + 1 \in Waiting /\ i + 1 < j + 1
          /\ uart'[i] = uart[i + 1] /\ uart'[j] = uart[j + 1]
      BY <2>1, TailFacts
    <3> QED BY <1>1, <3>1 DEF InOrder
  <2>2. \A i \in Waiting' : Order(uart'[i]) <= Line
    BY <1>1, TailFacts DEF InOrder
  <2> QED BY <2>1, <2>2, TailFacts DEF InOrder, Order, Rank
<1>5. \A i \in Waiting' : latest.time < uart'[i].epoch
  BY <1>1, TailFacts DEF Behind
<1>6. Order(uart[1]) <= Line /\ uart[1].epoch <= epoch
  BY <1>1, TailFacts, WaitingIsPast DEF InOrder
<1> QED BY <1>3, <1>4, <1>5, <1>6

\* A GSA, or a sentence without a time, changes the assembler in its GSA part alone.
LEMMA ConsumeUntimed ==
  ASSUME NEW a \in Assemblers, NEW s \in Sentence, ~Timed(s)
  PROVE  LET c == Consume(a, s)
         IN  /\ c \in Assemblers
             /\ c.fix.gsa \in {a.fix.gsa, s.epoch} /\ c.fix.time = a.fix.time
             /\ c.fix.rmc = a.fix.rmc /\ c.fix.gga = a.fix.gga /\ c.fix.date = a.fix.date
             /\ c.timeKey = a.timeKey /\ c.hasTimeKey = a.hasTimeKey
             /\ c.seenGga = a.seenGga /\ c.seenRmc = a.seenRmc /\ c.taken = a.taken
<1>1. CASE s.type = "GSA"
  <2>1. Consume(a, s) = WithGsa(a, s)
    BY <1>1 DEF Consume
  <2> QED BY <2>1, GsaFields
<1>2. CASE s.type # "GSA"
  <2>1. ~s.time
    BY <1>2 DEF Timed
  <2>2. Consume(a, s) = a
    BY <1>2, <2>1 DEF Consume
  <2> QED BY <2>2
<1> QED BY <1>1, <1>2

LEMMA ReadUntimed ==
  ASSUME FixInv, ReadSentence, ~Timed(uart[1])
  PROVE  FixInv'
<1> DEFINE s == uart[1]
           c == Consume(assembler, s)
<1>1. /\ TypeOK /\ InOrder /\ Shape(assembler) /\ Ahead /\ Chain /\ Dates /\ Behind /\ Consumed
      /\ assembler \in Assemblers /\ s \in Sentence /\ 1 \in Waiting
      /\ epoch \in Nat /\ Line \in Int /\ Key \in Int /\ assembler.fix.gsa \in Int
  BY StateFacts, TailFacts DEF FixInv, Key
<1>2. Head(uart) = s
  BY DEF ReadSentence
<1>3. /\ c \in Assemblers
      /\ c.fix.gsa \in {assembler.fix.gsa, s.epoch} /\ c.fix.time = assembler.fix.time
      /\ c.fix.rmc = assembler.fix.rmc /\ c.fix.gga = assembler.fix.gga
      /\ c.fix.date = assembler.fix.date
      /\ c.timeKey = assembler.timeKey /\ c.hasTimeKey = assembler.hasTimeKey
      /\ c.seenGga = assembler.seenGga /\ c.seenRmc = assembler.seenRmc
      /\ c.taken = assembler.taken
  BY <1>1, ConsumeUntimed
<1>4. ~HasCompleteFix(c)
  BY <1>1, <1>3 DEF HasCompleteFix, Shape
<1>5. assembler' = c /\ latest' = latest /\ got' = got /\ completed' = completed
  BY <1>2, <1>4 DEF ReadSentence, Taken, FixInv, TypeOK
<1>6. UNCHANGED <<receiverVars, polling, lastFix>> /\ Line' = Line
  BY TailFacts
<1> HIDE DEF c
<1>7. Key' = Key /\ assembler'.hasTimeKey = assembler.hasTimeKey
  BY <1>3, <1>5 DEF Key
<1>8. TypeOK'
  BY <1>1, <1>3, <1>5, <1>6, TailFacts DEF TypeOK, receiverVars
<1>9. InOrder'
  BY TailOrder
<1>10. Shape(assembler)'
  BY <1>1, <1>3, <1>5 DEF Shape
<1>11. Ahead'
  <2> SUFFICES ASSUME assembler.hasTimeKey
               PROVE  /\ Line >= 3 * Key + 1
                      /\ \A i \in Waiting' : Order(uart'[i]) > 3 * Key + 1
                      /\ c.fix.gsa # None =>
                           /\ Key <= c.fix.gsa /\ c.fix.gsa <= epoch
                           /\ \A i \in Waiting' : c.fix.gsa <= uart'[i].epoch
    BY <1>5, <1>6, <1>7 DEF Ahead, Order, Rank, receiverVars
  <2>1. Line >= 3 * Key + 1
    BY <1>1 DEF Ahead
  <2>2. \A i \in Waiting' : Order(uart'[i]) > 3 * Key + 1
    BY <1>1, TailFacts DEF Ahead
  <2>3. Key <= s.epoch
    <3>1. Order(s) > 3 * Key + 1 /\ s.epoch \in Nat
          /\ Rank(s.type) \in 1 .. 3 /\ Order(s) = 3 * s.epoch + Rank(s.type)
      BY <1>1, SentenceFacts DEF Ahead
    <3> DEFINE e == s.epoch
               r == Rank(s.type)
    <3>2. 3 * e + r > 3 * Key + 1 /\ e \in Nat /\ r \in 1 .. 3
      BY <3>1
    <3> HIDE DEF e, r
    <3>3. Key <= e
      BY <1>1, <3>2
    <3> QED BY <3>3 DEF e
  <2>4. ASSUME c.fix.gsa # None
        PROVE  /\ Key <= c.fix.gsa /\ c.fix.gsa <= epoch
               /\ \A i \in Waiting' : c.fix.gsa <= uart'[i].epoch
    <3>1. CASE c.fix.gsa = s.epoch
      <4>1. s.epoch \in Int /\ \A i \in Waiting' : uart'[i].epoch \in Int
        BY <1>1, TailOrder, SentenceFacts
      <4>2. s.epoch <= epoch /\ \A i \in Waiting' : s.epoch <= uart'[i].epoch
        BY <4>1, TailOrder
      <4> QED BY <2>3, <3>1, <4>2
    <3>2. CASE c.fix.gsa = assembler.fix.gsa
      BY <1>1, <2>4, <3>2, TailFacts DEF Ahead
    <3> QED BY <1>3, <3>1, <3>2
  <2> QED BY <2>1, <2>2, <2>4
<1>12. Chain'
  <2>1. NoneTimed' <=> NoneTimed
    <3>1. NoneTimed => NoneTimed'
      BY TailFacts DEF NoneTimed, Timed
    <3>2. ASSUME NoneTimed', NEW i \in Waiting PROVE ~Timed(uart[i])
      <4>1. CASE i = 1
        BY <4>1
      <4>2. CASE i # 1
        BY <3>2, <4>2, TailFacts DEF NoneTimed, Timed
      <4> QED BY <4>1, <4>2
    <3> QED BY <3>1, <3>2 DEF NoneTimed
  <2>2. ASSUME NEW j \in Waiting', Timed(uart'[j])
        PROVE  Linked(j)' /\ uart'[j].epoch <= heard
    <3>1. j \in Int /\ j + 1 \in Waiting /\ uart'[j] = uart[j + 1] /\ 1 < j + 1
      BY TailFacts
    <3>2. Linked(j + 1) /\ uart[j + 1].epoch <= heard
      BY <1>1, <2>2, <3>1 DEF Chain
    <3>3. CASE \E i \in Waiting : /\ i < j + 1 /\ Timed(uart[i])
                                  /\ uart[j + 1].epoch - uart[i].epoch < Day
      <4>1. PICK i \in Waiting : /\ i < j + 1 /\ Timed(uart[i])
                                 /\ uart[j + 1].epoch - uart[i].epoch < Day
        BY <3>3
      <4>2. i # 1
        BY <4>1
      <4>3. i \in Int /\ i - 1 \in Waiting' /\ uart'[i - 1] = uart[i]
        BY <4>2, TailFacts
      <4>4. i - 1 < j
        BY <3>1, <4>1, <4>3
      <4>5. Linked(j)'
        BY <3>1, <4>1, <4>3, <4>4 DEF Linked, Timed
      <4> QED BY <3>1, <3>2, <4>5
    <3>4. CASE assembler.hasTimeKey /\ uart[j + 1].epoch - Key < Day
      <4>1. Linked(j)'
        BY <1>7, <3>1, <3>4 DEF Linked
      <4> QED BY <3>1, <3>2, <4>1
    <3>5. CASE ~assembler.hasTimeKey /\ \A i \in Waiting : i < j + 1 => ~Timed(uart[i])
      <4>1. \A i \in Waiting' : i < j => ~Timed(uart'[i])
        BY <3>1, <3>5, TailFacts
      <4>2. Linked(j)'
        BY <1>7, <3>5, <4>1 DEF Linked, Timed
      <4> QED BY <3>1, <3>2, <4>2
    <3> QED BY <3>2, <3>3, <3>4, <3>5 DEF Linked
  <2>3. \/ \E i \in Waiting' : Timed(uart'[i]) /\ uart'[i].epoch = heard
        \/ NoneTimed' /\ (assembler.hasTimeKey => Key = heard)
    <3>1. CASE NoneTimed
      BY <1>1, <2>1, <3>1 DEF Chain, NoneTimed
    <3>2. CASE ~NoneTimed
      <4>1. PICK i \in Waiting : Timed(uart[i]) /\ uart[i].epoch = heard
        BY <1>1, <3>2 DEF Chain
      <4>2. i # 1
        BY <4>1
      <4> QED BY <4>1, <4>2, TailFacts
    <3> QED BY <3>1, <3>2
  <2> QED BY <1>1, <1>6, <1>7, <2>1, <2>2, <2>3 DEF Chain, Timed, receiverVars
<1>13. Dates'
  <2>1. assembler'.fix.date = assembler.fix.date /\ clock' = clock
    BY <1>3, <1>5, <1>6 DEF receiverVars
  <2>2. \A i \in Waiting' : uart'[i].date => clock = "date"
    BY <1>1, TailFacts DEF Dates
  <2>3. \A i, j \in Waiting' : i < j /\ uart'[i].date => uart'[j].date
    <3> SUFFICES ASSUME NEW i \in Waiting', NEW j \in Waiting', i < j, uart'[i].date
                 PROVE  uart'[j].date
      OBVIOUS
    <3>1. /\ i + 1 \in Waiting /\ j + 1 \in Waiting /\ i + 1 < j + 1
          /\ uart'[i] = uart[i + 1] /\ uart'[j] = uart[j + 1]
      BY TailFacts
    <3> QED BY <1>1, <3>1 DEF Dates
  <2>4. assembler.fix.date # None => clock = "date" /\ \A i \in Waiting' : uart'[i].date
    BY <1>1, TailFacts DEF Dates
  <2> QED BY <2>1, <2>2, <2>3, <2>4 DEF Dates
<1>14. Behind'
  BY <1>1, <1>5, <1>6, TailOrder DEF Behind
<1>15. Consumed'
  <2>1. assembler'.seenRmc = assembler.seenRmc /\ assembler'.seenGga = assembler.seenGga
    BY <1>3, <1>5
  <2> QED BY <1>1, <1>5, <1>7, <2>1 DEF Consumed
<1>16. FixOfOneEpoch' /\ DateIsOfTheEpoch'
  BY <1>5, FixLater DEF FixInv
<1> QED BY <1>8, <1>9, <1>10, <1>11, <1>12, <1>13, <1>14, <1>15, <1>16 DEF FixInv

\* The assembler after a sentence with a time: everything in it is of that epoch.
LEMMA ConsumeTimed ==
  ASSUME FixInv, 1 \in Waiting, NEW s, s = uart[1], Timed(s)
  PROVE  LET a == assembler
             c == Consume(a, s)
         IN  /\ c \in Assemblers /\ c.hasTimeKey
             /\ c.fix.time = s.epoch /\ c.timeKey = TimeOfDay(s.epoch)
             /\ c.fix.gsa \in {None, s.epoch}
             /\ c.fix.rmc = (IF c.seenRmc THEN s.epoch ELSE None)
             /\ c.fix.gga = (IF c.seenGga THEN s.epoch ELSE None)
             /\ ~c.taken
             /\ a.hasTimeKey => Key <= s.epoch
             /\ s.type \in {"RMC", "GGA"}
             /\ s.type = "RMC" =>
                  /\ c.seenRmc
                  /\ c.seenGga <=> a.hasTimeKey /\ Key = s.epoch /\ a.seenGga
                  /\ c.fix.date = (IF s.date THEN DateOf(s.epoch) ELSE a.fix.date)
             /\ s.type = "GGA" =>
                  /\ c.seenGga /\ ~c.seenRmc /\ c.fix.date = a.fix.date
                  /\ a.hasTimeKey => Key # s.epoch
<1> DEFINE a == assembler
           n == s.epoch
           b == BeginEpoch(a, n)
           same == a.hasTimeKey /\ a.timeKey = TimeOfDay(n)
<1>1. /\ TypeOK /\ Shape(a) /\ Ahead /\ Chain /\ Behind /\ Consumed
      /\ s \in Sentence /\ a \in Assemblers /\ Key \in Int
      /\ Day \in Nat /\ latest.time \in Int
  BY StateFacts DEF FixInv, Key
<1>2. /\ n \in Nat /\ n \in Epoch /\ Order(s) = 3 * n + Rank(s.type)
      /\ s.type = "GGA" => Rank(s.type) = 1
      /\ s.type = "RMC" => Rank(s.type) = 3
      /\ s.type \in {"GGA", "RMC"} /\ s.time /\ s.date \in BOOLEAN
  BY <1>1, SentenceFacts DEF Timed
<1>3. ASSUME a.hasTimeKey
      PROVE  /\ Key \in Nat /\ Key <= n /\ n - Key < Day
             /\ a.timeKey = TimeOfDay(Key)
             /\ s.type = "GGA" => Key # n
  <2>1. Key \in Epoch /\ a.timeKey = TimeOfDay(Key)
    BY <1>1, <1>3 DEF Shape, Key
  <2>2. Order(s) > 3 * Key + 1
    BY <1>1, <1>3 DEF Ahead
  <2>3. Key <= n /\ (s.type = "GGA" => Key # n)
    <3> DEFINE k == Key
    <3>1. s.type = "GGA" => 3 * n + 1 > 3 * k + 1
      BY <1>2, <2>2
    <3>2. s.type = "RMC" => 3 * n + 3 > 3 * k + 1
      BY <1>2, <2>2
    <3>3. k \in Int /\ n \in Int
      BY <1>1, <1>2
    <3> HIDE DEF k, n
    <3>4. s.type = "GGA" => k < n
      BY <3>1, <3>3
    <3>5. s.type = "RMC" => k <= n
      BY <3>2, <3>3
    <3>6. s.type = "GGA" \/ s.type = "RMC"
      BY <1>2
    <3>7. k <= n /\ (s.type = "GGA" => k # n)
      BY <3>3, <3>4, <3>5, <3>6
    <3> QED BY <3>7 DEF k
  <2>4. Linked(1)
    BY <1>1 DEF Chain
  <2>5. \A i \in Waiting : ~(i < 1)
    BY <1>1, StateFacts DEF Waiting
  <2>6. n - Key < Day
    BY <1>3, <2>4, <2>5 DEF Linked
  <2> QED BY <2>1, <2>3, <2>6, EpochNat
<1>4. same => a.hasTimeKey /\ Key = n /\ s.type = "RMC"
  <2> SUFFICES ASSUME same PROVE Key = n
    BY <1>2, <1>3
  <2> QED BY <1>2, <1>3, TimeOfDayTells
<1>5. a.hasTimeKey /\ Key = n => same
  BY <1>3
<1>6. /\ b \in Assemblers /\ b.hasTimeKey /\ b.timeKey = TimeOfDay(n)
      /\ b.fix.gsa \in {None, n} /\ b.fix.date = a.fix.date
      /\ b.fix.rmc = (IF b.seenRmc THEN n ELSE None)
      /\ b.fix.gga = (IF b.seenGga THEN n ELSE None)
      /\ ~b.taken
      /\ b.seenGga <=> same /\ a.seenGga
      /\ b.seenRmc => same
  <2>1. CASE same
    <3>1. b = a
      BY <2>1 DEF BeginEpoch
    <3>2. a.hasTimeKey /\ Key = n
      BY <1>4, <2>1
    <3>3. /\ a.fix.rmc = (IF a.seenRmc THEN n ELSE None)
          /\ a.fix.gga = (IF a.seenGga THEN n ELSE None)
      BY <1>1, <3>2 DEF Shape, Key
    <3>4. a.fix.gsa \in {None, n}
      <4>1. a.fix.gsa # None => Key <= a.fix.gsa /\ a.fix.gsa <= n
        BY <1>1, <3>2 DEF Ahead
      <4>2. a.fix.gsa \in Int
        BY <1>1, StateFacts
      <4> QED BY <1>1, <1>2, <3>2, <4>1, <4>2
    <3>5. ~a.taken
      <4>1. a.taken => latest.time = n
        BY <1>1, <3>2 DEF Shape, Consumed
      <4>2. latest.time < n
        BY <1>1 DEF Behind
      <4> QED BY <1>1, <1>2, <4>1, <4>2
    <3> QED BY <1>1, <2>1, <3>1, <3>3, <3>4, <3>5
  <2>2. CASE ~same
    BY <1>1, <1>2, <2>2, BeginFields
  <2> QED BY <2>1, <2>2
<1>7. CASE s.type = "RMC"
  <2>1. Consume(a, s) = WithRmc(b, s)
    BY <1>2, <1>7 DEF Consume
  <2> HIDE DEF b, same
  <2> DEFINE c == WithRmc(b, s)
  <2>2. /\ c \in Assemblers
        /\ c.fix.time = n /\ c.fix.rmc = n
        /\ c.fix.gga = b.fix.gga /\ c.fix.gsa = b.fix.gsa
        /\ c.fix.date = (IF s.date THEN DateOf(n) ELSE b.fix.date)
        /\ c.timeKey = b.timeKey /\ c.hasTimeKey = b.hasTimeKey
        /\ c.seenRmc = TRUE /\ c.seenGga = b.seenGga /\ c.taken = b.taken
    <3>1. RmcTaken(b, s, c)
      BY <1>1, <1>6, RmcFields, Zenon DEF c
    <3> QED BY <3>1, Zenon DEF RmcTaken
  <2> HIDE DEF c
  <2>3. c.seenGga <=> a.hasTimeKey /\ Key = n /\ a.seenGga
    BY <1>4, <1>5, <1>6, <2>2
  <2>4. /\ c.hasTimeKey /\ c.timeKey = TimeOfDay(n) /\ c.fix.gsa \in {None, n}
        /\ c.fix.rmc = (IF c.seenRmc THEN n ELSE None)
        /\ c.fix.gga = (IF c.seenGga THEN n ELSE None)
        /\ ~c.taken /\ c.fix.date = (IF s.date THEN DateOf(n) ELSE a.fix.date)
    BY <1>6, <2>2
  <2> QED BY <1>3, <1>7, <2>1, <2>2, <2>3, <2>4 DEF c
<1>8. CASE s.type = "GGA"
  <2>1. Consume(a, s) = WithGga(b, s)
    BY <1>2, <1>8 DEF Consume
  <2>2. ~same
    BY <1>4, <1>8
  <2> HIDE DEF b, same
  <2> DEFINE c == WithGga(b, s)
  <2>3. /\ c \in Assemblers
        /\ c.fix.time = n /\ c.fix.gga = n
        /\ c.fix.rmc = b.fix.rmc /\ c.fix.gsa = b.fix.gsa /\ c.fix.date = b.fix.date
        /\ c.timeKey = b.timeKey /\ c.hasTimeKey = b.hasTimeKey
        /\ c.seenGga = TRUE /\ c.seenRmc = b.seenRmc /\ c.taken = b.taken
    <3>1. GgaTaken(b, s, c)
      BY <1>1, <1>6, GgaFields, Zenon DEF c
    <3> QED BY <3>1, Zenon DEF GgaTaken
  <2> HIDE DEF c
  <2>4. /\ c.hasTimeKey /\ c.timeKey = TimeOfDay(n) /\ c.fix.gsa \in {None, n}
        /\ ~c.seenRmc
        /\ c.fix.rmc = (IF c.seenRmc THEN n ELSE None)
        /\ c.fix.gga = (IF c.seenGga THEN n ELSE None)
        /\ ~c.taken /\ c.fix.date = a.fix.date
    BY <1>6, <2>2, <2>3
  <2> QED BY <1>3, <1>8, <2>1, <2>3, <2>4 DEF c
<1> QED BY <1>2, <1>7, <1>8

LEMMA ReadTimed ==
  ASSUME FixInv, ReadSentence, Timed(uart[1])
  PROVE  FixInv' /\ (latest' = latest \/ latest'.time > latest.time)
<1> DEFINE s == uart[1]
           n == s.epoch
           c == Consume(assembler, s)
           whole == HasCompleteFix(c)
<1>1. /\ TypeOK /\ InOrder /\ Shape(assembler) /\ Ahead /\ Chain /\ Dates /\ Behind /\ Consumed
      /\ assembler \in Assemblers /\ s \in Sentence /\ 1 \in Waiting
      /\ epoch \in Nat /\ Line \in Int /\ Key \in Int
      /\ latest.time \in Int /\ lastFix.time \in Int /\ heard \in Nat
  BY StateFacts, TailFacts DEF FixInv, Key
<1>2. /\ n \in Nat /\ n \in Epoch /\ Order(s) = 3 * n + Rank(s.type)
      /\ s.type = "GGA" => Rank(s.type) = 1
      /\ s.type = "RMC" => Rank(s.type) = 3
      /\ s.date \in BOOLEAN
  BY <1>1, SentenceFacts
<1>3. /\ c \in Assemblers /\ c.hasTimeKey
      /\ c.fix.time = n /\ c.timeKey = TimeOfDay(n)
      /\ c.fix.gsa \in {None, n}
      /\ c.fix.rmc = (IF c.seenRmc THEN n ELSE None)
      /\ c.fix.gga = (IF c.seenGga THEN n ELSE None)
      /\ ~c.taken
      /\ assembler.hasTimeKey => Key <= n
      /\ s.type \in {"RMC", "GGA"}
      /\ s.type = "RMC" =>
           /\ c.seenRmc
           /\ c.seenGga <=> assembler.hasTimeKey /\ Key = n /\ assembler.seenGga
           /\ c.fix.date = (IF s.date THEN DateOf(n) ELSE assembler.fix.date)
      /\ s.type = "GGA" =>
           /\ c.seenGga /\ ~c.seenRmc /\ c.fix.date = assembler.fix.date
           /\ assembler.hasTimeKey => Key # n
  BY <1>1, ConsumeTimed
<1>4. /\ Head(uart) = s
      /\ assembler' = Taken(c)
      /\ latest' = (IF whole THEN c.fix ELSE latest)
      /\ completed' \in BOOLEAN
      /\ got' = IF got.epoch = n THEN [got EXCEPT !.types = @ \cup {s.type}]
                ELSE [epoch |-> n, types |-> {s.type}]
  <2>1. Head(uart) = s
    OBVIOUS
  <2>2. /\ assembler' = Taken(c)
        /\ latest' = (IF whole THEN c.fix ELSE latest)
        /\ completed' = (completed \/ whole)
    BY <2>1 DEF ReadSentence
  <2>3. got' = IF got.epoch = n THEN [got EXCEPT !.types = @ \cup {s.type}]
               ELSE [epoch |-> n, types |-> {s.type}]
    BY <2>1 DEF ReadSentence
  <2>4. completed' \in BOOLEAN
    BY <1>1, <2>2 DEF TypeOK, HasCompleteFix
  <2> QED BY <2>1, <2>2, <2>3, <2>4
<1>5. UNCHANGED <<receiverVars, polling, lastFix>> /\ Line' = Line
      /\ epoch' = epoch /\ heard' = heard /\ clock' = clock
  BY TailFacts DEF receiverVars
<1>6. whole <=> c.seenRmc /\ c.seenGga
  BY <1>3 DEF HasCompleteFix
<1> HIDE DEF c, whole
<1>7. /\ assembler' \in Assemblers /\ assembler'.fix = c.fix
      /\ assembler'.timeKey = c.timeKey /\ assembler'.hasTimeKey = c.hasTimeKey
      /\ assembler'.seenGga = c.seenGga /\ assembler'.seenRmc = c.seenRmc
      /\ assembler'.taken <=> c.taken \/ (c.seenRmc /\ c.seenGga)
  BY <1>3, <1>4, TakenFields
<1>8. Key' = n /\ assembler'.hasTimeKey
  BY <1>3, <1>7 DEF Key
<1>9. whole => s.type = "RMC"
  BY <1>3, <1>6
\* The date, of this sentence or known before it.
<1>10. /\ c.fix.date # None => clock = "date" /\ \A i \in Waiting : i # 1 => uart[i].date
       /\ s.type = "RMC" /\ c.fix.date # None => c.fix.date = DateOf(n)
  <2>1. assembler.fix.date # None =>
          clock = "date" /\ s.date /\ \A i \in Waiting : uart[i].date
    BY <1>1 DEF Dates
  <2>2. ASSUME s.date PROVE clock = "date" /\ \A i \in Waiting : i # 1 => uart[i].date
    <3>1. \A i \in Waiting : i # 1 => 1 < i
      BY StateFacts DEF Waiting, FixInv
    <3> QED BY <1>1, <2>2, <3>1 DEF Dates
  <2> QED BY <1>3, <2>1, <2>2
<1>11. TypeOK'
  <2>1. latest' \in Fixes
    BY <1>1, <1>3, <1>4 DEF TypeOK, Assemblers
  <2>2. got'.epoch \in Epoch \cup {0} /\ got'.types \subseteq {"GGA", "RMC"}
        /\ got' \in [epoch : Epoch \cup {0}, types : SUBSET {"GGA", "RMC"}]
    <3>1. got \in [epoch : Epoch \cup {0}, types : SUBSET {"GGA", "RMC"}]
      BY <1>1 DEF Consumed
    <3> QED BY <1>2, <1>3, <1>4, <3>1
  <2> QED BY <1>1, <1>4, <1>5, <1>7, <2>1, <2>2, TailFacts DEF TypeOK, receiverVars
<1>12. InOrder'
  BY TailOrder
<1>13. Shape(assembler)'
  BY <1>2, <1>3, <1>7 DEF Shape
<1>14. Ahead'
  <2>1. Order(s) <= Line /\ n <= epoch
        /\ \A i \in Waiting' : uart'[i] \in Sentence /\ Order(uart'[i]) > Order(s)
                               /\ uart'[i].epoch >= n
    BY TailOrder
  <2>2. Order(s) >= 3 * n + 1 /\ Order(s) \in Int
    BY <1>2, <1>3
  <2>3. Line >= 3 * n + 1
    BY <1>1, <1>2, <2>1, <2>2
  <2>4. ASSUME NEW i \in Waiting'
        PROVE  Order(uart'[i]) > 3 * n + 1 /\ n <= uart'[i].epoch
    <3>1. Order(uart'[i]) \in Int /\ uart'[i].epoch \in Int
      BY <2>1, SentenceFacts
    <3> QED BY <1>2, <2>1, <2>2, <3>1
  <2>5. assembler'.fix.gsa # None => assembler'.fix.gsa = n
    BY <1>3, <1>7
  <2>6. \A i \in Waiting' : Order(uart[i])' > 3 * n + 1
    BY <2>4 DEF Order, Rank
  <2>7. /\ Line' >= 3 * Key' + 1
        /\ \A i \in Waiting' : Order(uart[i])' > 3 * Key' + 1
    BY <1>5, <1>8, <2>3, <2>6
  <2>8. assembler'.fix.gsa # None =>
          /\ Key' <= assembler'.fix.gsa /\ assembler'.fix.gsa <= epoch'
          /\ \A i \in Waiting' : assembler'.fix.gsa <= uart'[i].epoch
    BY <1>1, <1>2, <1>5, <1>8, <2>1, <2>4, <2>5
  <2> QED BY <2>7, <2>8 DEF Ahead
<1>15. Chain'
  <2>1. ~NoneTimed
    BY <1>1 DEF NoneTimed
  <2>2. ASSUME NEW j \in Waiting', Timed(uart'[j])
        PROVE  Linked(j)' /\ uart'[j].epoch <= heard
    <3>1. j \in Int /\ j + 1 \in Waiting /\ uart'[j] = uart[j + 1] /\ 1 < j + 1
      BY TailFacts
    <3>2. Linked(j + 1) /\ uart[j + 1].epoch <= heard
      BY <1>1, <2>2, <3>1 DEF Chain
    <3>3. /\ uart[j + 1].epoch \in Int /\ Day \in Int
      BY <1>1, <3>1, StateFacts, SentenceFacts
    <3>4. CASE uart[j + 1].epoch - n < Day
      <4>1. Linked(j)'
        BY <1>8, <3>1, <3>4 DEF Linked
      <4> QED BY <3>1, <3>2, <4>1
    <3>5. CASE \E i \in Waiting : /\ i < j + 1 /\ Timed(uart[i])
                                  /\ uart[j + 1].epoch - uart[i].epoch < Day
      <4>1. PICK i \in Waiting : /\ i < j + 1 /\ Timed(uart[i])
                                 /\ uart[j + 1].epoch - uart[i].epoch < Day
        BY <3>5
      <4>2. CASE i = 1
        BY <3>4, <4>1, <4>2
      <4>3. CASE i # 1
        <5>1. i \in Int /\ i - 1 \in Waiting' /\ uart'[i - 1] = uart[i]
          BY <4>3, TailFacts
        <5>2. i - 1 < j
          BY <3>1, <4>1, <5>1
        <5>3. Linked(j)'
          BY <3>1, <4>1, <5>1, <5>2 DEF Linked, Timed
        <5> QED BY <3>1, <3>2, <5>3
      <4> QED BY <4>2, <4>3
    <3>6. CASE assembler.hasTimeKey /\ uart[j + 1].epoch - Key < Day
      <4>1. uart[j + 1].epoch - n < Day
        BY <1>1, <1>2, <1>3, <3>3, <3>6
      <4> QED BY <3>4, <4>1
    <3>7. CASE ~assembler.hasTimeKey /\ \A i \in Waiting : i < j + 1 => ~Timed(uart[i])
      BY <1>1, <3>1, <3>7
    <3> QED BY <3>2, <3>5, <3>6, <3>7 DEF Linked
  <2>3. \/ \E i \in Waiting' : Timed(uart'[i]) /\ uart'[i].epoch = heard
        \/ NoneTimed' /\ n = heard
    <3>1. PICK i \in Waiting : Timed(uart[i]) /\ uart[i].epoch = heard
      BY <1>1, <2>1 DEF Chain
    <3>2. CASE i # 1
      BY <3>1, <3>2, TailFacts
    <3>3. CASE i = 1
      <4>1. n = heard
        BY <3>1, <3>3
      <4>2. CASE NoneTimed'
        BY <4>1, <4>2
      <4>3. CASE ~NoneTimed'
        <5>1. PICK j \in Waiting' : Timed(uart'[j])
          BY <4>3 DEF NoneTimed, Timed
        <5>2. uart'[j].epoch <= heard /\ uart'[j].epoch >= n /\ uart'[j].epoch \in Int
          BY <2>2, <5>1, TailOrder, SentenceFacts
        <5>3. uart'[j].epoch = heard
          BY <1>1, <4>1, <5>2
        <5> QED BY <5>1, <5>3
      <4> QED BY <4>2, <4>3
    <3> QED BY <3>2, <3>3
  <2>4. clock # "nothing" /\ epoch - heard < Day /\ (epoch - heard = Day - 1 => sent = 0)
    BY <1>1, <2>1 DEF Chain
  <2>5. sent' = sent
    BY <1>5 DEF receiverVars
  <2> QED BY <1>5, <1>8, <2>2, <2>3, <2>4, <2>5 DEF Chain, Timed
<1>16. Dates'
  <2>1. \A i \in Waiting' : uart'[i].date => clock = "date"
    BY <1>1, TailFacts DEF Dates
  <2>2. \A i, j \in Waiting' : i < j /\ uart'[i].date => uart'[j].date
    <3> SUFFICES ASSUME NEW i \in Waiting', NEW j \in Waiting', i < j, uart'[i].date
                 PROVE  uart'[j].date
      OBVIOUS
    <3>1. /\ i + 1 \in Waiting /\ j + 1 \in Waiting /\ i + 1 < j + 1
          /\ uart'[i] = uart[i + 1] /\ uart'[j] = uart[j + 1]
      BY TailFacts
    <3> QED BY <1>1, <3>1 DEF Dates
  <2>3. c.fix.date # None => clock = "date" /\ \A i \in Waiting' : uart'[i].date
    <3>1. \A i \in Waiting' : i + 1 # 1
      BY TailFacts
    <3> QED BY <1>10, <3>1, TailFacts
  <2> QED BY <1>5, <1>7, <2>1, <2>2, <2>3 DEF Dates
<1>17. ~whole => latest' = latest
  BY <1>4
<1>18. whole => /\ latest' = c.fix /\ latest'.time = n /\ latest.time < n
                /\ Line >= 3 * n + 3 /\ \A i \in Waiting' : n < uart'[i].epoch
  <2> SUFFICES ASSUME whole
               PROVE  /\ latest.time < n /\ Line >= 3 * n + 3
                      /\ \A i \in Waiting' : n < uart'[i].epoch
    BY <1>3, <1>4
  <2>1. latest.time < n
    BY <1>1 DEF Behind
  <2>2. Line >= 3 * n + 3
    BY <1>1, <1>2, <1>9, TailOrder
  <2>3. ASSUME NEW i \in Waiting' PROVE n < uart'[i].epoch
    BY <1>2, <1>9, TailOrder, SentenceFacts
  <2> QED BY <2>1, <2>2, <2>3
<1>19. Behind'
  <2>1. CASE ~whole
    BY <1>1, <1>5, <1>17, <2>1, TailOrder DEF Behind
  <2>2. CASE whole
    <3>1. lastFix.time < n
      BY <1>1, <1>2, <1>18, <2>2 DEF Behind
    <3> QED BY <1>5, <1>18, <2>2, <3>1 DEF Behind
  <2> QED BY <2>1, <2>2
<1>20. Consumed'
  <2>1. got \in [epoch : Epoch \cup {0}, types : SUBSET {"GGA", "RMC"}]
    BY <1>1 DEF Consumed
  <2>2. got' \in [epoch : Epoch \cup {0}, types : SUBSET {"GGA", "RMC"}] /\ got'.epoch = n
    BY <1>2, <1>3, <1>4, <2>1
  <2>3. CASE s.type = "GGA"
    <3>1. got'.types = {"GGA"}
      <4>1. CASE got.epoch = n
        BY <1>1, <1>3, <1>4, <2>1, <2>3, <4>1 DEF Consumed
      <4>2. CASE got.epoch # n
        BY <1>4, <2>3, <4>2
      <4> QED BY <4>1, <4>2
    <3>2. ~assembler'.seenRmc /\ assembler'.seenGga
      BY <1>3, <1>7, <2>3
    <3>3. /\ "RMC" \in got'.types <=> assembler'.seenRmc
          /\ "GGA" \in got'.types <=> assembler'.seenGga
      BY <3>1, <3>2
    <3> QED BY <1>8, <2>2, <3>2, <3>3 DEF Consumed
  <2>4. CASE s.type = "RMC"
    <3>1. "RMC" \in got'.types
      BY <1>4, <2>1, <2>4
    <3>2. "GGA" \in got'.types <=> assembler.hasTimeKey /\ Key = n /\ assembler.seenGga
      <4>1. CASE assembler.hasTimeKey /\ Key = n
        <5>1. got.epoch = n /\ ("GGA" \in got.types <=> assembler.seenGga)
          BY <1>1, <4>1 DEF Consumed
        <5>2. got'.types = got.types \cup {"RMC"}
          BY <1>4, <2>1, <2>4, <5>1
        <5> QED BY <4>1, <5>1, <5>2
      <4>2. CASE ~(assembler.hasTimeKey /\ Key = n)
        <5>1. got.epoch = n => got.types = {}
          BY <1>1, <4>2 DEF Consumed
        <5>2. "GGA" \notin got'.types
          BY <1>4, <2>1, <2>4, <5>1
        <5> QED BY <4>2, <5>2
      <4> QED BY <4>1, <4>2
    <3>3. assembler'.seenRmc /\ (assembler'.seenGga <=> "GGA" \in got'.types)
      BY <1>3, <1>7, <2>4, <3>2
    <3>4. assembler'.seenGga => latest'.time = n
      BY <1>6, <1>7, <1>18, <3>3
    <3>5. "RMC" \in got'.types <=> assembler'.seenRmc
      BY <3>1, <3>3
    <3> QED BY <1>8, <2>2, <3>3, <3>4, <3>5 DEF Consumed
  <2> QED BY <1>3, <2>3, <2>4
<1>21. FixOfOneEpoch'
  <2>1. CASE whole
    <3>1. latest'.rmc = n /\ latest'.gga = n /\ latest'.gsa \in {None, n} /\ latest'.time = n
      BY <1>3, <1>6, <1>18, <2>1
    <3> QED BY <3>1 DEF FixOfOneEpoch
  <2>2. CASE ~whole
    BY <1>17, <2>2 DEF FixInv, FixOfOneEpoch
  <2> QED BY <2>1, <2>2
<1>22. DateIsOfTheEpoch'
  <2>1. CASE whole
    BY <1>9, <1>10, <1>18, <2>1 DEF DateIsOfTheEpoch
  <2>2. CASE ~whole
    BY <1>17, <2>2 DEF FixInv, DateIsOfTheEpoch
  <2> QED BY <2>1, <2>2
<1>23. FixInv'
  BY <1>11, <1>12, <1>13, <1>14, <1>15, <1>16, <1>19, <1>20, <1>21, <1>22 DEF FixInv
<1>24. latest' = latest \/ latest'.time > latest.time
  BY <1>1, <1>2, <1>17, <1>18
<1> QED BY <1>23, <1>24

-----------------------------------------------------------------------------
(* The theorems. *)

LEMMA NextFixInv == FixInv /\ [Next]_vars => FixInv'
<1> SUFFICES ASSUME FixInv, [Next]_vars PROVE FixInv'
  OBVIOUS
<1>1. CASE NextEpoch
  BY <1>1, NextEpochKeeps
<1>2. CASE Arrive
  BY <1>2, ArriveKeeps
<1>3. CASE Lose
  BY <1>3, LoseKeeps
<1>4. CASE StartPoll \/ EndPoll
  BY <1>4, PollKeeps
<1>5. CASE ReadSentence
  BY <1>5, ReadUntimed, ReadTimed
<1>6. CASE LongPress
  BY <1>6, LongPressKeeps
<1>7. CASE UNCHANGED vars
  <2>1. /\ UNCHANGED <<receiverVars, uart, assembler, got, polling, fixVars>>
        /\ UNCHANGED <<epoch, sent, clock, heard, completed, latest, lastFix>>
    BY <1>7 DEF vars, receiverVars, fixVars
  <2>2. Line' = Line /\ Line \in Int /\ epoch \in Int
    BY <2>1, StateFacts DEF Line, FixInv
  <2>3. InOrder' /\ Ahead' /\ Shape(assembler)' /\ Dates' /\ Behind' /\ Consumed'
    <3>1. Line' >= Line /\ epoch' >= epoch /\ Line' \in Int /\ epoch' \in Int
      BY <2>1, <2>2
    <3> QED BY <2>1, <3>1, InOrderLater, AheadLater, ShapeLater, DatesLater, BehindLater,
               ConsumedLater
            DEF FixInv
  <2>4. Chain'
    BY <2>1, ChainLater DEF FixInv, Chain
  <2>5. TypeOK' /\ FixOfOneEpoch' /\ DateIsOfTheEpoch'
    BY <2>1, FixLater DEF FixInv, TypeOK
  <2> QED BY <2>3, <2>4, <2>5 DEF FixInv
<1> QED BY <1>1, <1>2, <1>3, <1>4, <1>5, <1>6, <1>7 DEF Next

LEMMA AlwaysFixInv == Spec => []FixInv
<1>1. Init => FixInv
  BY InitFixInv
<1>2. FixInv /\ [Next]_vars => FixInv'
  BY NextFixInv
<1> QED BY <1>1, <1>2, PTL DEF Spec

\* Type correctness of the receiver, the UART, the assembler and the poll
\* (nmea::FixAssembler, hal::GpsReceiver::poll).
THEOREM TypeCorrect == Spec => []TypeOK
<1>1. FixInv => TypeOK
  BY DEF FixInv
<1> QED BY <1>1, AlwaysFixInv, PTL

\* Whatever was lost, a fix handed out is of one epoch, GSA included
\* (FixAssembler::consume).
THEOREM FixesAreWhole == Spec => []FixOfOneEpoch
<1>1. FixInv => FixOfOneEpoch
  BY DEF FixInv
<1> QED BY <1>1, AlwaysFixInv, PTL

\* The date of a fix is that of its own epoch, although the assembler carries it
\* over from one epoch to the next (beginEpochIfTimeChanged).
THEOREM DatesAreRight == Spec => []DateIsOfTheEpoch
<1>1. FixInv => DateIsOfTheEpoch
  BY DEF FixInv
<1> QED BY <1>1, AlwaysFixInv, PTL

\* Once RMC and GGA of an epoch have been consumed, its fix has been handed out
\* (FixAssembler::consume, takeCompletedFix).
THEOREM WholeEpochs == Spec => []WholeEpochHandedOut
<1>1. FixInv => WholeEpochHandedOut
  <2> SUFFICES ASSUME FixInv, got.types = {"GGA", "RMC"} PROVE latest.time = got.epoch
    BY DEF WholeEpochHandedOut
  <2>1. Consumed
    BY DEF FixInv
  <2>2. assembler.hasTimeKey
    BY <2>1 DEF Consumed
  <2>3. assembler.seenRmc /\ assembler.seenGga /\ got.epoch = Key
    BY <2>1, <2>2 DEF Consumed
  <2> QED BY <2>1, <2>3 DEF Consumed
<1> QED BY <1>1, AlwaysFixInv, PTL

\* No epoch is handed out twice or after a later one, to the receiver's reader or
\* to the pipeline, resets of the assembler included (takeCompletedFix, poll).
THEOREM HandsOutOnce == Spec => HandedOutOnce
<1> DEFINE Once == /\ latest' # latest => latest'.time > latest.time
                   /\ lastFix' # lastFix => lastFix'.time > lastFix.time
<1>1. FixInv /\ [Next]_vars => [Once]_vars
  <2> SUFFICES ASSUME FixInv, Next PROVE Once
    OBVIOUS
  <2>1. CASE ReadSentence
    <3>1. latest' = latest \/ latest'.time > latest.time
      <4>1. CASE Timed(uart[1])
        BY <2>1, <4>1, ReadTimed
      <4>2. CASE ~Timed(uart[1])
        <5> DEFINE c == Consume(assembler, uart[1])
        <5>1. assembler \in Assemblers /\ uart[1] \in Sentence /\ Shape(assembler)
          BY <2>1, StateFacts, TailFacts DEF FixInv
        <5>2. ~HasCompleteFix(c)
          BY <4>2, <5>1, ConsumeUntimed DEF HasCompleteFix, Shape
        <5>3. Head(uart) = uart[1]
          OBVIOUS
        <5> QED BY <2>1, <5>2, <5>3 DEF ReadSentence
      <4> QED BY <4>1, <4>2
    <3>2. lastFix' = lastFix
      BY <2>1 DEF ReadSentence
    <3> QED BY <3>1, <3>2
  <2>2. CASE EndPoll
    <3>1. latest' = latest /\ lastFix' \in {latest, lastFix}
      BY <2>2 DEF EndPoll
    <3>2. lastFix = latest \/ lastFix.time < latest.time
      BY DEF FixInv, Behind
    <3>3. lastFix.time \in Int /\ latest.time \in Int
      BY StateFacts DEF FixInv
    <3> QED BY <3>1, <3>2, <3>3
  <2>3. CASE NextEpoch \/ Arrive \/ Lose \/ StartPoll \/ LongPress
    BY <2>3 DEF NextEpoch, Arrive, Lose, StartPoll, LongPress, fixVars
  <2> QED BY <2>1, <2>2, <2>3 DEF Next
<1> QED BY <1>1, AlwaysFixInv, PTL DEF Spec, HandedOutOnce
=============================================================================
