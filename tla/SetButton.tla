----------------------------- MODULE SetButton -----------------------------
(***************************************************************************)
(* kart::ButtonDebouncer on the wrapping clock: bounces and glitches of    *)
(* the contact, presses long and short, loop turns of uneven length.       *)
(***************************************************************************)
EXTENDS Millis

CONSTANTS DebounceMs, LongPressMs,
          Gaps,        \* how far apart two samples of the button may be
          MaxAge       \* bound: history ages saturate here

ASSUME ButtonAssumption ==
  /\ DebounceMs \in Nat /\ LongPressMs \in Nat /\ Gaps \subseteq Nat
  /\ MaxAge \in Nat /\ DebounceMs <= MaxAge /\ LongPressMs <= MaxAge

VARIABLES
  now,               \* nowMs of the last sample
  stablePressed, hasCandidate, candidateLevel, candidateSinceMs, pressedAtMs,
  longPressReported,
  event,             \* what the last update returned
  \* History.
  level,             \* the level last sampled
  steadyFor,         \* real time for which every sample has had that level
  heldFor,           \* real time since the debounced press
  actions            \* actions reported for that press

history == <<level, steadyFor, heldFor, actions>>
vars == <<now, stablePressed, hasCandidate, candidateLevel, candidateSinceMs, pressedAtMs,
          longPressReported, event, history>>

TypeOK ==
  /\ now \in Instant /\ candidateSinceMs \in Instant /\ pressedAtMs \in Instant
  /\ stablePressed \in BOOLEAN /\ hasCandidate \in BOOLEAN /\ candidateLevel \in BOOLEAN
  /\ longPressReported \in BOOLEAN /\ level \in BOOLEAN
  /\ event \in {"kNone", "kPressed", "kReleased", "kShortPress", "kLongPress"}
  /\ steadyFor \in 0 .. MaxAge /\ heldFor \in 0 .. MaxAge
  /\ actions \in 0 .. 2

Init ==
  /\ now = 0
  /\ stablePressed = FALSE /\ hasCandidate = FALSE /\ candidateLevel = FALSE
  /\ candidateSinceMs = 0 /\ pressedAtMs = 0 /\ longPressReported = FALSE
  /\ event = "kNone"
  /\ level = FALSE /\ steadyFor = 0 /\ heldFor = MaxAge /\ actions = 0

-----------------------------------------------------------------------------
Older(age, d) == IF age + d < MaxAge THEN age + d ELSE MaxAge

\* A sample raw, d milliseconds after the last: the history's share.
Observe(raw, d) ==
  /\ now' = After(now, d)
  /\ level' = raw
  /\ steadyFor' = IF raw = level THEN Older(steadyFor, d) ELSE 0
  /\ heldFor' = IF event' = "kPressed" THEN 0 ELSE Older(heldFor, d)
  /\ actions' = CASE event' = "kPressed" -> 0
                  [] event' \in {"kShortPress", "kLongPress"} /\ actions < 2 -> actions + 1
                  [] OTHER -> actions

\* The candidate level has been there for the debounce time.
Settled(raw, t) ==
  /\ hasCandidate /\ candidateLevel = raw
  /\ Elapsed(t, candidateSinceMs) >= DebounceMs

\* Faulty variant of NewCandidate: the candidate is timed anew on every sample.
NewCandidateAlways(raw) == raw # stablePressed

NewCandidate(raw) ==
  raw # stablePressed /\ (~hasCandidate \/ candidateLevel # raw)

\* update, a level other than the stable one appeared: it is timed.
StartCandidate(raw, t) ==
  /\ NewCandidate(raw)
  /\ hasCandidate' = TRUE /\ candidateLevel' = raw /\ candidateSinceMs' = t
  /\ UNCHANGED <<stablePressed, pressedAtMs>>

\* Faulty variant of KeepLevel: a glitch leaves its candidate behind.
KeepLevelAndCandidate(raw, t) ==
  /\ raw # stablePressed => ~NewCandidate(raw) /\ ~Settled(raw, t)
  /\ UNCHANGED <<hasCandidate, stablePressed, candidateLevel, candidateSinceMs, pressedAtMs>>

\* update, a level back at the stable one, or still being timed.
KeepLevel(raw, t) ==
  /\ raw # stablePressed => ~NewCandidate(raw) /\ ~Settled(raw, t)
  /\ hasCandidate' = (hasCandidate /\ raw # stablePressed)
  /\ UNCHANGED <<stablePressed, candidateLevel, candidateSinceMs, pressedAtMs>>

LongDue(t) ==
  stablePressed /\ ~longPressReported /\ Elapsed(t, pressedAtMs) >= LongPressMs

\* The end of update, reached unless an edge has returned.
ReportHold(t) ==
  /\ event' = IF LongDue(t) THEN "kLongPress" ELSE "kNone"
  /\ longPressReported' = (longPressReported \/ LongDue(t))

\* Faulty variant of Press: the time of the press is not taken.
PressUntimed(raw, t) ==
  /\ raw /\ ~stablePressed /\ ~NewCandidate(raw) /\ Settled(raw, t)
  /\ stablePressed' = TRUE /\ hasCandidate' = FALSE
  /\ longPressReported' = FALSE
  /\ event' = "kPressed"
  /\ UNCHANGED <<candidateLevel, candidateSinceMs, pressedAtMs>>

Press(raw, t) ==
  /\ raw /\ ~stablePressed /\ ~NewCandidate(raw) /\ Settled(raw, t)
  /\ stablePressed' = TRUE /\ hasCandidate' = FALSE
  /\ pressedAtMs' = t /\ longPressReported' = FALSE
  /\ event' = "kPressed"
  /\ UNCHANGED <<candidateLevel, candidateSinceMs>>

\* Faulty variant of Release: a hold reports a short press as well.
ReleaseShort(raw, t) ==
  /\ ~raw /\ stablePressed /\ ~NewCandidate(raw) /\ Settled(raw, t)
  /\ stablePressed' = FALSE /\ hasCandidate' = FALSE
  /\ event' = "kShortPress"
  /\ UNCHANGED <<candidateLevel, candidateSinceMs, pressedAtMs, longPressReported>>

Release(raw, t) ==
  /\ ~raw /\ stablePressed /\ ~NewCandidate(raw) /\ Settled(raw, t)
  /\ stablePressed' = FALSE /\ hasCandidate' = FALSE
  /\ event' = IF longPressReported THEN "kReleased" ELSE "kShortPress"
  /\ UNCHANGED <<candidateLevel, candidateSinceMs, pressedAtMs, longPressReported>>

\* ButtonDebouncer::update on a sample raw taken d after the last one.
Update(raw, d) ==
  LET t == After(now, d)
  IN  /\ \/ Press(raw, t)
         \/ Release(raw, t)
         \/ StartCandidate(raw, t) /\ ReportHold(t)
         \/ KeepLevel(raw, t) /\ ReportHold(t)
      /\ Observe(raw, d)

Next == \E raw \in BOOLEAN, d \in Gaps : Update(raw, d)

Spec == Init /\ [][Next]_vars

\* The loop keeps sampling.
FairSpec == Spec /\ WF_vars(Next)

-----------------------------------------------------------------------------
\* "Otherwise a single hold triggers two actions": a press, however the contact
\* bounces and whatever the clock does, leads to one action at most, and once
\* it is over to exactly one (update).
OneActionPerPress ==
  /\ actions <= 1
  /\ stablePressed => actions = (IF longPressReported THEN 1 ELSE 0)
  /\ event \in {"kReleased", "kShortPress"} => actions = 1

\* An edge is reported only for a level that every sample of at least the
\* debounce time, in real time, has shown.
EdgesAreDebounced ==
  [][event' \in {"kPressed", "kReleased", "kShortPress"} /\ stablePressed' # stablePressed
       => steadyFor' >= DebounceMs]_vars

\* "Held past the threshold": no long press sooner than that in real time.
LongPressIsHeld == event = "kLongPress" => heldFor >= LongPressMs

\* "Reported without waiting for release": a button that stays down is reported
\* as a long press.
HoldIsReported == <>[]level => <>[](stablePressed /\ longPressReported)
=============================================================================
