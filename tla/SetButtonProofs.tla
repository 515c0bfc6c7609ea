-------------------------- MODULE SetButtonProofs --------------------------
(***************************************************************************)
(* Proofs about the SET button, for every clock, every threshold and every *)
(* gap between two samples: edges are debounced and holds are long enough  *)
(* in real time, and a press is acted on once.                             *)
(***************************************************************************)
EXTENDS SetButton, TLAPS

\* The difference the code computes between a time t and since never exceeds the
\* real time age that has passed: a wrap of the clock only makes it smaller.
AgeSound(t, since, age) == age = MaxAge \/ Elapsed(t, since) <= age

\* A candidate is a level other than the stable one that the samples have shown
\* since it was first seen.
CandidateSound ==
  hasCandidate => /\ candidateLevel # stablePressed /\ candidateLevel = level
                  /\ AgeSound(now, candidateSinceMs, steadyFor)

HoldSound == stablePressed => AgeSound(now, pressedAtMs, heldFor)

ButtonInv ==
  /\ TypeOK /\ CandidateSound /\ HoldSound
  /\ OneActionPerPress /\ LongPressIsHeld

-----------------------------------------------------------------------------
(* Unsigned differences on a wrapping clock. *)

LEMMA AfterTyped ==
  ASSUME NEW t \in Instant, NEW d \in Nat
  PROVE  After(t, d) \in Instant
  BY ClockAssumption DEF After, Instant

LEMMA ElapsedTyped ==
  ASSUME NEW t \in Instant, NEW l \in Instant
  PROVE  Elapsed(t, l) \in Nat /\ Elapsed(t, t) = 0
  BY ClockAssumption DEF Elapsed, Instant

LEMMA ElapsedGrows ==
  ASSUME NEW t \in Instant, NEW l \in Instant, NEW d \in Nat
  PROVE  Elapsed(After(t, d), l) <= Elapsed(t, l) + d
<1> DEFINE M == ClockMod
           q == (t + d) \div M
           a == (t + d) % M
<1>1. M \in Nat \ {0} /\ t \in 0 .. M - 1 /\ l \in 0 .. M - 1
  BY ClockAssumption DEF Instant
<1>2. q \in Nat /\ a \in 0 .. M - 1 /\ t + d = M * q + a
  BY <1>1
<1>3. (t - l) % M = IF l <= t THEN t - l ELSE t - l + M
  BY <1>1
<1> HIDE DEF a
<1>4. (a - l) % M = IF l <= a THEN a - l ELSE a - l + M
  BY <1>1, <1>2
<1>5. M * q >= 0 /\ (q # 0 => M * q >= M)
  BY <1>1, <1>2
<1>6. (a - l) % M <= ((t - l) % M) + d
  <2>1. CASE q = 0
    <3>1. a = t + d
      BY <1>1, <1>2, <2>1
    <3> QED BY <3>1, <1>1, <1>2, <1>3, <1>4
  <2>2. CASE q # 0
    <3> DEFINE r == M * q
    <3>1. r \in Int /\ r >= M /\ t + d = r + a
      BY <1>1, <1>2, <1>5, <2>2
    <3> HIDE DEF r, q
    <3> QED BY <3>1, <1>1, <1>2, <1>3, <1>4
  <2> QED BY <2>1, <2>2
<1> QED BY <1>6 DEF Elapsed, After, a

LEMMA OlderTyped ==
  ASSUME NEW a \in 0 .. MaxAge, NEW d \in Nat
  PROVE  Older(a, d) \in 0 .. MaxAge
  BY ButtonAssumption DEF Older

LEMMA SoundLater ==
  ASSUME NEW t \in Instant, NEW l \in Instant, NEW age \in 0 .. MaxAge, NEW d \in Nat,
         AgeSound(t, l, age)
  PROVE  AgeSound(After(t, d), l, Older(age, d))
<1>1. Elapsed(t, l) \in Nat /\ Elapsed(After(t, d), l) \in Nat
  BY AfterTyped, ElapsedTyped
<1>2. Elapsed(After(t, d), l) <= Elapsed(t, l) + d
  BY ElapsedGrows
<1> QED BY <1>1, <1>2, ButtonAssumption DEF AgeSound, Older

LEMMA SoundNow ==
  ASSUME NEW t \in Instant, NEW age \in 0 .. MaxAge
  PROVE  AgeSound(t, t, age)
  BY ElapsedTyped DEF AgeSound

\* A threshold the code finds passed has passed in real time.
LEMMA SoundThreshold ==
  ASSUME NEW t \in Instant, NEW l \in Instant, NEW age \in 0 .. MaxAge, NEW n \in Nat,
         n <= MaxAge, AgeSound(t, l, age), Elapsed(t, l) >= n
  PROVE  age >= n
<1>1. Elapsed(t, l) \in Nat
  BY ElapsedTyped
<1> QED BY <1>1, ButtonAssumption DEF AgeSound

-----------------------------------------------------------------------------
(* One sample. *)

\* TypeOK in two parts, numbers and flags.
NumbersOK ==
  /\ now \in Instant /\ candidateSinceMs \in Instant /\ pressedAtMs \in Instant
  /\ steadyFor \in 0 .. MaxAge /\ heldFor \in 0 .. MaxAge
  /\ actions \in 0 .. 2

FlagsOK ==
  /\ stablePressed \in BOOLEAN /\ hasCandidate \in BOOLEAN /\ candidateLevel \in BOOLEAN
  /\ longPressReported \in BOOLEAN /\ level \in BOOLEAN
  /\ event \in {"kNone", "kPressed", "kReleased", "kShortPress", "kLongPress"}

LEMMA TypeParts == TypeOK <=> NumbersOK /\ FlagsOK
  BY DEF TypeOK, NumbersOK, FlagsOK

LEMMA TypePartsNext == NumbersOK' /\ FlagsOK' => TypeOK'
  BY DEF TypeOK, NumbersOK, FlagsOK

LEMMA InitButtonInv == Init => ButtonInv
<1> SUFFICES ASSUME Init PROVE ButtonInv
  OBVIOUS
<1>1. 0 \in Instant /\ 0 \in 0 .. MaxAge /\ MaxAge \in 0 .. MaxAge
  BY ClockAssumption, ButtonAssumption DEF Instant
<1>2. NumbersOK
  BY <1>1 DEF Init, NumbersOK
<1>3. FlagsOK
  BY DEF Init, FlagsOK
<1> QED BY <1>2, <1>3, TypeParts
        DEF Init, ButtonInv, CandidateSound, HoldSound, OneActionPerPress, LongPressIsHeld

\* The history of a sample: ages follow the clock.
LEMMA Observed ==
  ASSUME ButtonInv, NEW raw \in BOOLEAN, NEW d \in Nat, Observe(raw, d)
  PROVE  /\ now' = After(now, d) /\ now' \in Instant /\ level' = raw
         /\ steadyFor' \in 0 .. MaxAge /\ heldFor' \in 0 .. MaxAge
         /\ hasCandidate /\ raw = level => AgeSound(now', candidateSinceMs, steadyFor')
         /\ stablePressed /\ event' # "kPressed" => AgeSound(now', pressedAtMs, heldFor')
         /\ event' = "kPressed" => actions' = 0
         /\ event' \in {"kShortPress", "kLongPress"} => actions' = actions + 1
         /\ event' \in {"kNone", "kReleased"} => actions' = actions
<1>1. /\ now \in Instant /\ candidateSinceMs \in Instant /\ pressedAtMs \in Instant
      /\ steadyFor \in 0 .. MaxAge /\ heldFor \in 0 .. MaxAge
      /\ actions \in 0 .. 2 /\ actions <= 1
  BY DEF ButtonInv, TypeOK, OneActionPerPress
<1>2. /\ now' = After(now, d) /\ level' = raw
      /\ steadyFor' = (IF raw = level THEN Older(steadyFor, d) ELSE 0)
      /\ heldFor' = (IF event' = "kPressed" THEN 0 ELSE Older(heldFor, d))
  BY DEF Observe
<1>3. 0 \in 0 .. MaxAge
  BY ButtonAssumption
<1>4. /\ now' \in Instant /\ steadyFor' \in 0 .. MaxAge /\ heldFor' \in 0 .. MaxAge
  BY <1>1, <1>2, <1>3, AfterTyped, OlderTyped
<1>5. hasCandidate /\ raw = level => AgeSound(now', candidateSinceMs, steadyFor')
  BY <1>1, <1>2, SoundLater DEF ButtonInv, CandidateSound
<1>6. stablePressed /\ event' # "kPressed" => AgeSound(now', pressedAtMs, heldFor')
  BY <1>1, <1>2, SoundLater DEF ButtonInv, HoldSound
<1>7. /\ event' = "kPressed" => actions' = 0
      /\ event' \in {"kShortPress", "kLongPress"} => actions' = actions + 1
      /\ event' \in {"kNone", "kReleased"} => actions' = actions
  BY <1>1 DEF Observe
<1> QED BY <1>2, <1>4, <1>5, <1>6, <1>7

\* An edge is taken only of a level that has been there long enough, in real time.
LEMMA SettledLongEnough ==
  ASSUME ButtonInv, NEW raw \in BOOLEAN, NEW d \in Nat, Observe(raw, d),
         Settled(raw, After(now, d))
  PROVE  steadyFor' >= DebounceMs
<1>1. /\ hasCandidate /\ candidateLevel = raw
      /\ Elapsed(After(now, d), candidateSinceMs) >= DebounceMs
  BY DEF Settled
<1>2. raw = level /\ candidateSinceMs \in Instant
  BY <1>1 DEF ButtonInv, CandidateSound, TypeOK
<1>3. /\ now' = After(now, d) /\ now' \in Instant /\ steadyFor' \in 0 .. MaxAge
      /\ AgeSound(now', candidateSinceMs, steadyFor')
  BY <1>1, <1>2, Observed
<1> QED BY <1>1, <1>2, <1>3, SoundThreshold, ButtonAssumption

\* A press and a release: the stable level changes.
LEMMA EdgeKeeps ==
  ASSUME ButtonInv, NEW raw \in BOOLEAN, NEW d \in Nat, Observe(raw, d),
         Press(raw, After(now, d)) \/ Release(raw, After(now, d))
  PROVE  ButtonInv'
<1>1. /\ now' = After(now, d) /\ now' \in Instant /\ level' = raw
      /\ steadyFor' \in 0 .. MaxAge /\ heldFor' \in 0 .. MaxAge
      /\ event' = "kPressed" => actions' = 0
      /\ event' = "kShortPress" => actions' = actions + 1
      /\ event' = "kReleased" => actions' = actions
  BY Observed
<1>2. hasCandidate' = FALSE /\ UNCHANGED <<candidateLevel, candidateSinceMs>>
  BY DEF Press, Release
<1>3. actions \in 0 .. 2 /\ (stablePressed => actions = (IF longPressReported THEN 1 ELSE 0))
  BY DEF ButtonInv, TypeOK, OneActionPerPress
<1>4. NumbersOK /\ FlagsOK
  BY TypeParts DEF ButtonInv
<1>5. CASE Press(raw, After(now, d))
  <2>1. /\ stablePressed' = TRUE /\ pressedAtMs' = now' /\ longPressReported' = FALSE
        /\ event' = "kPressed" /\ actions' = 0
    BY <1>1, <1>5 DEF Press
  <2>2. NumbersOK'
    BY <1>1, <1>2, <1>4, <2>1 DEF NumbersOK
  <2>3. FlagsOK'
    BY <1>1, <1>2, <1>4, <2>1 DEF FlagsOK
  <2>4. HoldSound'
    BY <1>1, <2>1, SoundNow DEF HoldSound
  <2>5. OneActionPerPress'
    BY <2>1 DEF OneActionPerPress
  <2> QED BY <1>2, <2>1, <2>2, <2>3, <2>4, <2>5, TypePartsNext
          DEF ButtonInv, CandidateSound, LongPressIsHeld
<1>6. CASE Release(raw, After(now, d))
  <2>1. /\ stablePressed /\ stablePressed' = FALSE
        /\ event' = (IF longPressReported THEN "kReleased" ELSE "kShortPress")
        /\ UNCHANGED <<pressedAtMs, longPressReported>>
    BY <1>6 DEF Release
  <2>2. actions' = 1
    BY <1>1, <1>3, <2>1
  <2>3. NumbersOK'
    BY <1>1, <1>2, <1>4, <2>1, <2>2 DEF NumbersOK
  <2>4. FlagsOK'
    BY <1>1, <1>2, <1>4, <2>1 DEF FlagsOK
  <2>5. OneActionPerPress'
    BY <2>1, <2>2 DEF OneActionPerPress
  <2> QED BY <1>2, <2>1, <2>3, <2>4, <2>5, TypePartsNext
          DEF ButtonInv, CandidateSound, HoldSound, LongPressIsHeld
<1> QED BY <1>5, <1>6

\* A sample that changes no stable level, and may report a hold.
LEMMA HoldKeeps ==
  ASSUME ButtonInv, NEW raw \in BOOLEAN, NEW d \in Nat, Observe(raw, d),
         ReportHold(After(now, d)),
         StartCandidate(raw, After(now, d)) \/ KeepLevel(raw, After(now, d))
  PROVE  ButtonInv'
<1>1. /\ now' = After(now, d) /\ now' \in Instant /\ level' = raw
      /\ steadyFor' \in 0 .. MaxAge /\ heldFor' \in 0 .. MaxAge
      /\ hasCandidate /\ raw = level => AgeSound(now', candidateSinceMs, steadyFor')
      /\ stablePressed /\ event' # "kPressed" => AgeSound(now', pressedAtMs, heldFor')
      /\ event' = "kLongPress" => actions' = actions + 1
      /\ event' = "kNone" => actions' = actions
  BY Observed
<1>2. /\ stablePressed' = stablePressed /\ pressedAtMs' = pressedAtMs
      /\ event' = (IF LongDue(now') THEN "kLongPress" ELSE "kNone")
      /\ longPressReported' = (longPressReported \/ LongDue(now'))
  BY <1>1 DEF StartCandidate, KeepLevel, ReportHold
<1>3. actions \in 0 .. 2 /\ actions <= 1 /\ pressedAtMs \in Instant
      /\ (stablePressed => actions = (IF longPressReported THEN 1 ELSE 0))
  BY DEF ButtonInv, TypeOK, OneActionPerPress
<1>4. HoldSound'
  BY <1>1, <1>2 DEF HoldSound
<1>5. OneActionPerPress' /\ actions' \in 0 .. 2
  <2>1. CASE LongDue(now')
    <3>1. stablePressed /\ ~longPressReported
      BY <2>1 DEF LongDue
    <3>2. actions = 0 /\ actions' = 1 /\ event' = "kLongPress"
      BY <1>1, <1>2, <1>3, <2>1, <3>1
    <3>3. longPressReported' = TRUE
      BY <1>2, <2>1
    <3> QED BY <3>2, <3>3 DEF OneActionPerPress
  <2>2. CASE ~LongDue(now')
    <3>1. actions' = actions /\ event' = "kNone"
      BY <1>1, <1>2, <2>2
    <3>2. longPressReported' = longPressReported
      BY <1>2, <2>2 DEF ButtonInv, TypeOK
    <3> QED BY <1>2, <1>3, <3>1, <3>2 DEF OneActionPerPress
  <2> QED BY <2>1, <2>2
<1>6. LongPressIsHeld'
  <2> SUFFICES ASSUME LongDue(now') PROVE heldFor' >= LongPressMs
    BY <1>2 DEF LongPressIsHeld
  <2>1. stablePressed /\ Elapsed(now', pressedAtMs) >= LongPressMs
    BY DEF LongDue
  <2> QED BY <1>1, <1>2, <1>3, <2>1, SoundThreshold, ButtonAssumption
<1>7. CASE StartCandidate(raw, After(now, d))
  <2>1. /\ hasCandidate' = TRUE /\ candidateLevel' = raw /\ candidateSinceMs' = now'
        /\ raw # stablePressed
    BY <1>1, <1>7 DEF StartCandidate, NewCandidate
  <2>2. CandidateSound'
    BY <1>1, <1>2, <2>1, SoundNow DEF CandidateSound
  <2>3. TypeOK'
    BY <1>1, <1>2, <1>5, <2>1 DEF ButtonInv, TypeOK
  <2> QED BY <1>4, <1>5, <1>6, <2>2, <2>3 DEF ButtonInv
<1>8. CASE KeepLevel(raw, After(now, d))
  <2>1. /\ hasCandidate' = (hasCandidate /\ raw # stablePressed)
        /\ UNCHANGED <<candidateLevel, candidateSinceMs>>
        /\ raw # stablePressed => ~NewCandidate(raw)
    BY <1>8 DEF KeepLevel
  <2>2. TypeOK'
    <3>1. hasCandidate' \in BOOLEAN /\ longPressReported' \in BOOLEAN
      BY <1>2, <2>1
    <3> QED BY <1>1, <1>2, <1>5, <2>1, <3>1 DEF ButtonInv, TypeOK
  <2>3. CandidateSound'
    <3> SUFFICES ASSUME hasCandidate'
                 PROVE  /\ candidateLevel' # stablePressed' /\ candidateLevel' = level'
                        /\ AgeSound(now', candidateSinceMs', steadyFor')
      BY DEF CandidateSound
    <3>1. hasCandidate /\ raw # stablePressed /\ candidateLevel = raw
      BY <2>1 DEF NewCandidate
    <3>2. raw = level
      BY <3>1 DEF ButtonInv, CandidateSound
    <3> QED BY <1>1, <1>2, <2>1, <3>1, <3>2
  <2> QED BY <1>4, <1>5, <1>6, <2>2, <2>3 DEF ButtonInv
<1> QED BY <1>7, <1>8

LEMMA NextButtonInv == ButtonInv /\ [Next]_vars => ButtonInv'
<1> SUFFICES ASSUME ButtonInv, [Next]_vars PROVE ButtonInv'
  OBVIOUS
<1>1. ASSUME NEW raw \in BOOLEAN, NEW d \in Gaps, Update(raw, d)
      PROVE  ButtonInv'
  <2>1. d \in Nat
    BY ButtonAssumption
  <2> QED BY <1>1, <2>1, EdgeKeeps, HoldKeeps DEF Update
<1>2. CASE UNCHANGED vars
  BY <1>2 DEF vars, history, ButtonInv, TypeOK, CandidateSound, HoldSound,
              OneActionPerPress, LongPressIsHeld
<1> QED BY <1>1, <1>2 DEF Next

-----------------------------------------------------------------------------
(* The theorems. *)

\* Types (ButtonDebouncer's fields, on a clock of any width).
THEOREM TypeCorrect == Spec => []TypeOK
<1>1. ButtonInv => TypeOK
  BY DEF ButtonInv
<1> QED BY <1>1, InitButtonInv, NextButtonInv, PTL DEF Spec

\* A press leads to one action, however the contact bounces (update).
THEOREM ActsOnce == Spec => []OneActionPerPress
<1>1. ButtonInv => OneActionPerPress
  BY DEF ButtonInv
<1> QED BY <1>1, InitButtonInv, NextButtonInv, PTL DEF Spec

\* No long press is reported before the threshold has passed in real time,
\* wherever the clock wraps.
THEOREM HoldsAreLong == Spec => []LongPressIsHeld
<1>1. ButtonInv => LongPressIsHeld
  BY DEF ButtonInv
<1> QED BY <1>1, InitButtonInv, NextButtonInv, PTL DEF Spec

\* No edge is reported of a level that has not been there for the debounce time.
THEOREM DebouncedEdges == Spec => EdgesAreDebounced
<1>1. ButtonInv /\ [Next]_vars
        => [event' \in {"kPressed", "kReleased", "kShortPress"}
            /\ stablePressed' # stablePressed => steadyFor' >= DebounceMs]_vars
  <2> SUFFICES ASSUME ButtonInv, NEW raw \in BOOLEAN, NEW d \in Gaps, Update(raw, d),
                      stablePressed' # stablePressed
               PROVE  steadyFor' >= DebounceMs
    BY DEF Next
  <2>1. d \in Nat
    BY ButtonAssumption
  <2>2. Observe(raw, d) /\ Settled(raw, After(now, d))
    BY DEF Update, Press, Release, StartCandidate, KeepLevel
  <2> QED BY <2>1, <2>2, SettledLongEnough
<1> QED BY <1>1, InitButtonInv, NextButtonInv, PTL DEF Spec, EdgesAreDebounced
=============================================================================
