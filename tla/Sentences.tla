----------------------------- MODULE Sentences -----------------------------
(***************************************************************************)
(* nmea::SentenceAssembler: from the bytes of a noisy UART to sentences    *)
(* whose checksum holds.  A byte is the set of its bits that are one, so   *)
(* that exclusive or is the symmetric difference.  The receiver and the    *)
(* line are external: a byte may be lost or garbled, once in a sentence,   *)
(* or a sentence may be damaged beyond any bound (a wrong baud rate, a     *)
(* full buffer, a plug being pulled).                                      *)
(***************************************************************************)
EXTENDS Integers, Sequences, FiniteSets

CONSTANTS DigitBits,          \* bits of a hexadecimal digit, four in the code
          Dollar, Star,       \* '$' and '*'
          Return,             \* '\r' and '\n', which push treats alike
          Digits,             \* the digits as they are sent, a set of bytes
          DigitValue,         \* hexValue: of those and of the lower-case ones
          MaxSentenceLength,  \* kMaxSentenceLength
          Body,               \* bodies the receiver sends
          Noise               \* bytes that a wild line makes up

Bit == 0 .. 2 * DigitBits - 1
Byte == SUBSET Bit
Nibble == SUBSET (0 .. DigitBits - 1)

ASSUME SentenceAssumption ==
  /\ DigitBits \in Nat \ {0} /\ MaxSentenceLength \in Nat
  /\ {Dollar, Star, Return} \subseteq Byte /\ Cardinality({Dollar, Star, Return}) = 3
  /\ Digits \subseteq DOMAIN DigitValue
  /\ DOMAIN DigitValue \subseteq Byte \ {Dollar, Star, Return, {}}
  /\ DigitValue \in [DOMAIN DigitValue -> Nibble]
  /\ \A v \in Nibble : \E d \in Digits : DigitValue[d] = v
  /\ Body \subseteq Seq(Byte \ {Dollar, Star, Return, {}}) /\ Noise \subseteq Byte

Xor(a, b) == (a \ b) \cup (b \ a)

\* computeChecksum: the bits that an odd number of bytes have.
Checksum(b) == {k \in Bit : Cardinality({i \in DOMAIN b : k \in b[i]}) % 2 = 1}

High(v) == {k + DigitBits : k \in v}        \* a digit's place, nibble << 4
DigitFor(v) == CHOOSE d \in Digits : DigitValue[d] = v

\* What the receiver sends for a body.
Frame(b) ==
  LET sum == Checksum(b)
      low == sum \cap (0 .. DigitBits - 1)
      high == {k - DigitBits : k \in sum \ low}
  IN  <<Dollar>> \o b \o <<Star, DigitFor(high), DigitFor(low), Return>>

VARIABLES
  \* The receiver and the line.
  body, pos,          \* the sentence being sent, and how much of its frame is
  damage, before,     \* damage to it, and to the sentence before
  \* SentenceAssembler.
  state, buffer, runningChecksum, expectedChecksum,
  \* History.
  out                 \* what poll has got from push since this sentence began

lineVars == <<body, pos, damage, before>>
assemblerVars == <<state, buffer, runningChecksum, expectedChecksum, out>>
vars == <<lineVars, assemblerVars>>

Damage == {"none", "once", "wild"}

TypeOK ==
  /\ body \in Body /\ pos \in 0 .. Len(Frame(body))
  /\ damage \in Damage /\ before \in Damage
  /\ state \in {"kIdle", "kBody", "kChecksumHigh", "kChecksumLow"}
  /\ buffer \in Seq(Byte) /\ Len(buffer) <= MaxSentenceLength
  /\ runningChecksum \in Byte /\ expectedChecksum \in Byte
  /\ out \in Seq(Seq(Byte)) /\ Len(out) <= 2

\* The program may start in the middle of a sentence.
Init ==
  /\ body \in Body /\ pos \in 0 .. Len(Frame(body))
  /\ damage = (IF pos = 0 THEN "none" ELSE "once") /\ before = "none"
  /\ state = "kIdle" /\ buffer = <<>>
  /\ runningChecksum = {} /\ expectedChecksum = {}
  /\ out = <<>>

-----------------------------------------------------------------------------
(* SentenceAssembler::push, by the state it is in.                           *)

\* Faulty variant of Begin: the checksum of the sentence cut off goes on.
BeginKeepingSum ==
  /\ state' = "kBody" /\ buffer' = <<>>
  /\ UNCHANGED <<runningChecksum, expectedChecksum, out>>

\* A '$', whatever came before.
Begin ==
  /\ state' = "kBody" /\ buffer' = <<>> /\ runningChecksum' = {}
  /\ UNCHANGED <<expectedChecksum, out>>

\* discard, with nothing delivered.
Discard == state' = "kIdle" /\ buffer' = <<>> /\ runningChecksum' = {}

Reject == Discard /\ UNCHANGED <<expectedChecksum, out>>

\* Faulty variant of InBody: one byte too many.
InBodyOverrun(c) ==
  \/ c = Star /\ state' = "kChecksumHigh" /\ UNCHANGED <<buffer, runningChecksum>>
  \/ c # Star /\ (c = Return \/ Len(buffer) > MaxSentenceLength) /\ Discard
  \/ /\ c \notin {Star, Return} /\ Len(buffer) <= MaxSentenceLength
     /\ buffer' = Append(buffer, c) /\ runningChecksum' = Xor(runningChecksum, c)
     /\ UNCHANGED state

\* kBody: no line end without a checksum, and no sentence longer than the buffer.
InBody(c) ==
  \/ c = Star /\ state' = "kChecksumHigh" /\ UNCHANGED <<buffer, runningChecksum>>
  \/ c # Star /\ (c = Return \/ Len(buffer) >= MaxSentenceLength) /\ Discard
  \/ /\ c \notin {Star, Return} /\ Len(buffer) < MaxSentenceLength
     /\ buffer' = Append(buffer, c) /\ runningChecksum' = Xor(runningChecksum, c)
     /\ UNCHANGED state

IsDigit(c) == c \in DOMAIN DigitValue

\* kChecksumHigh.
HighDigit(c) ==
  /\ IsDigit(c)
  /\ expectedChecksum' = High(DigitValue[c])
  /\ state' = "kChecksumLow"
  /\ UNCHANGED <<buffer, runningChecksum, out>>

\* Faulty variant of Accept: no discard after a sentence.
AcceptAndStay ==
  /\ out' = IF Len(out) < 2 THEN Append(out, buffer) ELSE out
  /\ UNCHANGED <<state, buffer, runningChecksum>>

\* The checksum holds: push returns true, and poll reads the sentence at once.
\* Bound: out keeps two.
Accept ==
  /\ out' = IF Len(out) < 2 THEN Append(out, buffer) ELSE out
  /\ Discard

\* Faulty variant of LowDigit: the low digit alone is compared.
LowDigitAlone(c) ==
  /\ IsDigit(c)
  /\ UNCHANGED expectedChecksum
  /\ IF runningChecksum \cap (0 .. DigitBits - 1) = DigitValue[c]
       THEN Accept ELSE Discard /\ UNCHANGED out

\* kChecksumLow.  The sum of both digits is not kept: nothing reads it again.
LowDigit(c) ==
  /\ IsDigit(c)
  /\ UNCHANGED expectedChecksum
  /\ IF runningChecksum = expectedChecksum \cup DigitValue[c]
       THEN Accept ELSE Discard /\ UNCHANGED out

Push(c) ==
  \/ c = Dollar /\ Begin
  \/ /\ c # Dollar
     /\ \/ state = "kIdle" /\ UNCHANGED assemblerVars
        \/ state = "kBody" /\ InBody(c) /\ UNCHANGED <<expectedChecksum, out>>
        \/ state = "kChecksumHigh" /\ HighDigit(c)
        \/ state = "kChecksumLow" /\ LowDigit(c)
        \/ state \in {"kChecksumHigh", "kChecksumLow"} /\ ~IsDigit(c) /\ Reject

-----------------------------------------------------------------------------
(* The line.                                                                 *)

Sending == pos < Len(Frame(body))
Sent == Frame(body)[pos + 1]

\* The next byte arrives as it was sent.
Arrive ==
  /\ Sending /\ Push(Sent)
  /\ pos' = pos + 1
  /\ UNCHANGED <<body, damage, before>>

\* The one byte of a sentence that is lost.
Lose ==
  /\ Sending /\ damage = "none"
  /\ pos' = pos + 1 /\ damage' = "once"
  /\ UNCHANGED <<body, before, assemblerVars>>

\* Or the one that arrives as another.  Bound: not as '$' or '*', with which what
\* is left of a sentence may happen to be a sentence of its own.
Garble ==
  /\ Sending /\ damage = "none"
  /\ \E c \in Byte \ {Dollar, Star, Sent} : Push(c)
  /\ pos' = pos + 1 /\ damage' = "once"
  /\ UNCHANGED <<body, before>>

\* Beyond any bound: bytes go missing and bytes come from nowhere.
GoWild ==
  /\ damage' = "wild"
  /\ \/ Sending /\ pos' = pos + 1 /\ UNCHANGED assemblerVars
     \/ UNCHANGED pos /\ \E c \in Noise : Push(c)
  /\ UNCHANGED <<body, before>>

NextSentence ==
  /\ ~Sending
  /\ body' \in Body /\ pos' = 0
  /\ damage' = "none" /\ before' = damage
  /\ out' = <<>>
  /\ UNCHANGED <<state, buffer, runningChecksum, expectedChecksum>>

Next == Arrive \/ Lose \/ Garble \/ GoWild \/ NextSentence

Spec == Init /\ [][Next]_vars

-----------------------------------------------------------------------------
\* The line is no worse than one byte in each of two successive sentences.
Mild == damage # "wild" /\ before # "wild"

\* "Losing a truncated sentence beats emitting a spliced one": on such a line what
\* push accepts is the sentence being sent, neither a part of it nor a splice with
\* the one before (SentenceAssembler::push).
EmittedAsSent == Mild => \A i \in DOMAIN out : out[i] = body

\* Nor is a sentence accepted twice (push's discard after it).
AcceptedOnce == Mild => Len(out) <= 1

\* A sentence that comes through whole and fits is accepted by the time its checksum
\* is in, whatever the line did before it: no garbage, unfinished sentence or
\* overflow can make the assembler miss the next '$'.
IntactIsAccepted ==
  damage = "none" /\ Len(body) <= MaxSentenceLength /\ pos >= Len(body) + 4
    => out = <<body>>
=============================================================================
