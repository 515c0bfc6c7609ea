-------------------------- MODULE SentencesProofs --------------------------
(***************************************************************************)
(* What push accepts, proved for every width of a byte, buffer length and  *)
(* set of bodies.  The running checksum is the checksum of the buffer, and *)
(* damage to one byte of a body leaves it different from the sum of what   *)
(* was sent, because exclusive or by a byte can be undone.                 *)
(***************************************************************************)
EXTENDS Sentences, TLAPS, FiniteSetTheorems, SequenceTheorems

-----------------------------------------------------------------------------
(* Bytes and checksums.                                                      *)

LEMMA BitsAndBytes ==
  /\ DigitBits \in Nat \ {0} /\ MaxSentenceLength \in Nat
  /\ Dollar \in Byte /\ Star \in Byte /\ Return \in Byte
  /\ Body \subseteq Seq(Byte \ {Dollar, Star, Return, {}}) /\ Noise \subseteq Byte
  /\ DOMAIN DigitValue \subseteq Byte \ {Dollar, Star, Return, {}}
  BY SentenceAssumption

LEMMA Distinct == Dollar # Star /\ Dollar # Return /\ Star # Return
<1>1. \A a, b : Cardinality({a, b}) <= 2
  <2> SUFFICES ASSUME NEW a, NEW b PROVE Cardinality({a, b}) <= 2
    OBVIOUS
  <2>1. IsFiniteSet({a}) /\ Cardinality({a}) = 1 /\ {a, b} = {a} \cup {b}
    BY FS_Singleton
  <2>2. Cardinality({a} \cup {b}) = IF b \in {a} THEN Cardinality({a}) ELSE Cardinality({a}) + 1
    BY <2>1, FS_AddElement
  <2> QED BY <2>1, <2>2
<1>2. Dollar = Star => {Dollar, Star, Return} = {Dollar, Return}
  OBVIOUS
<1>3. Dollar = Return => {Dollar, Star, Return} = {Dollar, Star}
  OBVIOUS
<1>4. Star = Return => {Dollar, Star, Return} = {Dollar, Star}
  OBVIOUS
<1>5. Cardinality({Dollar, Star, Return}) = 3
  BY SentenceAssumption
<1>6. ~ 3 <= 2
  OBVIOUS
<1> QED BY <1>1, <1>2, <1>3, <1>4, <1>5, <1>6

\* Exclusive or by a byte that is not zero changes a sum, and two different bytes
\* change it differently.
LEMMA XorCancels ==
  /\ \A a, b, c : Xor(a, b) = Xor(a, c) => b = c
  /\ \A a, b, c : Xor(a, c) = Xor(b, c) => a = b
  /\ \A a, b : Xor(a, b) = a => b = {}
  /\ \A a, b \in Byte : Xor(a, b) \in Byte
  BY DEF Xor, Byte

LEMMA ChecksumType == \A b : Checksum(b) \in Byte
  BY DEF Checksum, Byte

LEMMA ChecksumOfNothing == Checksum(<<>>) = {}
<1>1. \A k : {i \in DOMAIN <<>> : k \in <<>>[i]} = {}
  OBVIOUS
<1>2. Cardinality({}) % 2 # 1
  BY FS_EmptySet
<1> QED BY <1>1, <1>2 DEF Checksum

\* push keeps the checksum of the buffer.
LEMMA ChecksumOfAppend ==
  ASSUME NEW b \in Seq(Byte), NEW c \in Byte
  PROVE  Checksum(Append(b, c)) = Xor(Checksum(b), c)
<1> DEFINE With(k) == {i \in DOMAIN b : k \in b[i]}
           After(k) == {i \in DOMAIN Append(b, c) : k \in Append(b, c)[i]}
<1>1. DOMAIN b = 1 .. Len(b) /\ DOMAIN Append(b, c) = 1 .. Len(b) + 1 /\ Len(b) \in Nat
      /\ Append(b, c)[Len(b) + 1] = c /\ \A i \in 1 .. Len(b) : Append(b, c)[i] = b[i]
  OBVIOUS
<1>2. ASSUME NEW k \in Bit
      PROVE  Cardinality(After(k)) % 2 = 1 <=>
               ((Cardinality(With(k)) % 2 = 1) <=> k \notin c)
  <2>1. IsFiniteSet(With(k)) /\ Len(b) + 1 \notin With(k)
    <3>1. IsFiniteSet(1 .. Len(b)) /\ With(k) \in SUBSET (1 .. Len(b))
      BY <1>1, FS_Interval
    <3> QED BY <3>1, FS_Subset, <1>1
  <2>2. Cardinality(With(k)) \in Nat
    BY <2>1, FS_CardinalityType
  <2>3. CASE k \in c
    <3>1. After(k) = With(k) \cup {Len(b) + 1}
      BY <1>1, <2>3
    <3>2. Cardinality(With(k) \cup {Len(b) + 1}) = Cardinality(With(k)) + 1
      BY <2>1, FS_AddElement
    <3> HIDE DEF With, After
    <3> QED BY <3>1, <3>2, <2>2, <2>3
  <2>4. CASE k \notin c
    <3>1. After(k) = With(k)
      BY <1>1, <2>4
    <3> QED BY <3>1, <2>4
  <2> QED BY <2>3, <2>4
<1>3. Checksum(Append(b, c)) = {k \in Bit : Cardinality(After(k)) % 2 = 1}
      /\ Checksum(b) = {k \in Bit : Cardinality(With(k)) % 2 = 1}
  BY DEF Checksum
<1>4. c \subseteq Bit
  BY DEF Byte
<1> HIDE DEF With, After
<1> QED BY <1>2, <1>3, <1>4 DEF Xor

-----------------------------------------------------------------------------
(* The frame of a body.                                                      *)

HighDigitOf(b) == DigitFor({k - DigitBits : k \in Checksum(b) \ (0 .. DigitBits - 1)})
LowDigitOf(b) == DigitFor(Checksum(b) \cap (0 .. DigitBits - 1))

LEMMA DigitForEach ==
  ASSUME NEW v \in Nibble
  PROVE  DigitFor(v) \in Digits /\ DigitValue[DigitFor(v)] = v
<1>1. \E d \in Digits : DigitValue[d] = v
  BY SentenceAssumption
<1> QED BY <1>1 DEF DigitFor

\* The two digits of a frame say its checksum.
LEMMA DigitsSayChecksum ==
  ASSUME NEW b
  PROVE  /\ HighDigitOf(b) \in DOMAIN DigitValue /\ LowDigitOf(b) \in DOMAIN DigitValue
         /\ Checksum(b) = High(DigitValue[HighDigitOf(b)]) \cup DigitValue[LowDigitOf(b)]
<1> DEFINE sum == Checksum(b)
           high == {k - DigitBits : k \in sum \ (0 .. DigitBits - 1)}
           low == sum \cap (0 .. DigitBits - 1)
<1>1. sum \subseteq 0 .. 2 * DigitBits - 1 /\ DigitBits \in Nat \ {0}
  BY ChecksumType, BitsAndBytes DEF Byte, Bit
<1> HIDE DEF sum
<1>2. high \in Nibble /\ low \in Nibble
  BY <1>1 DEF Nibble
<1>3. sum = {k + DigitBits : k \in high} \cup low
  <2>1. \A k \in sum : k \in low \/ (k - DigitBits \in high /\ (k - DigitBits) + DigitBits = k)
    BY <1>1
  <2>2. \A k \in high : k + DigitBits \in sum
    BY <1>1
  <2>3. \A k \in sum : k \in {j + DigitBits : j \in high} \cup low
    BY <2>1
  <2> HIDE DEF high
  <2> QED BY <2>2, <2>3
<1>4. /\ DigitFor(high) \in Digits /\ DigitValue[DigitFor(high)] = high
      /\ DigitFor(low) \in Digits /\ DigitValue[DigitFor(low)] = low
  BY <1>2, DigitForEach
<1>5. HighDigitOf(b) = DigitFor(high) /\ LowDigitOf(b) = DigitFor(low)
  BY DEF HighDigitOf, LowDigitOf, sum
<1> HIDE DEF high, low
<1>6. Digits \subseteq DOMAIN DigitValue
  BY SentenceAssumption
<1> QED BY <1>3, <1>4, <1>5, <1>6 DEF High, sum

LEMMA ValueIsNibble ==
  ASSUME NEW c, IsDigit(c)
  PROVE  /\ DigitValue[c] \in Nibble /\ DigitValue[c] \in Byte /\ High(DigitValue[c]) \in Byte
         /\ c \in Byte /\ c \notin {Dollar, Star, Return, {}}
<1>1. DigitValue[c] \in Nibble
  BY SentenceAssumption DEF IsDigit
<1>2. DigitBits \in Nat \ {0}
  BY BitsAndBytes
<1>3. \A v \in Nibble : v \in Byte /\ High(v) \in Byte
  BY <1>2 DEF Nibble, Byte, Bit, High
<1> QED BY <1>1, <1>3, BitsAndBytes DEF IsDigit

LEMMA BodyFacts ==
  ASSUME NEW b \in Body
  PROVE  /\ b \in Seq(Byte) /\ Len(b) \in Nat
         /\ \A i \in 1 .. Len(b) : b[i] \in Byte /\ b[i] \notin {Dollar, Star, Return, {}}
  BY BitsAndBytes

LEMMA FrameFacts ==
  ASSUME NEW b \in Body
  PROVE  /\ Len(Frame(b)) = Len(b) + 5
         /\ Frame(b)[1] = Dollar
         /\ \A i \in 1 .. Len(b) : Frame(b)[i + 1] = b[i]
         /\ Frame(b)[Len(b) + 2] = Star
         /\ Frame(b)[Len(b) + 3] = HighDigitOf(b)
         /\ Frame(b)[Len(b) + 4] = LowDigitOf(b)
         /\ Frame(b)[Len(b) + 5] = Return
<1> DEFINE tail == <<Star, HighDigitOf(b), LowDigitOf(b), Return>>
           start == <<Dollar>> \o b
<1>1. b \in Seq(Byte) /\ Len(b) \in Nat /\ Dollar \in Byte
  BY BodyFacts, BitsAndBytes
<1>2. HighDigitOf(b) \in Byte /\ LowDigitOf(b) \in Byte /\ Star \in Byte /\ Return \in Byte
  BY DigitsSayChecksum, BitsAndBytes
<1>3. tail \in Seq(Byte) /\ Len(tail) = 4
      /\ tail[1] = Star /\ tail[2] = HighDigitOf(b) /\ tail[3] = LowDigitOf(b)
      /\ tail[4] = Return
  BY <1>2
<1>4. start \in Seq(Byte) /\ Len(start) = Len(b) + 1 /\ start[1] = Dollar
      /\ \A i \in 1 .. Len(b) : start[i + 1] = b[i]
  BY <1>1
<1>5. Frame(b) = start \o tail
  BY DEF Frame, HighDigitOf, LowDigitOf
<1> HIDE DEF start, tail
<1>6. /\ Len(start \o tail) = Len(b) + 5
      /\ \A i \in 1 .. Len(b) + 1 : (start \o tail)[i] = start[i]
      /\ \A i \in 1 .. 4 : (start \o tail)[Len(b) + 1 + i] = tail[i]
  <2>1. /\ Len(start \o tail) = Len(start) + Len(tail)
        /\ \A i \in 1 .. Len(start) + Len(tail) :
             (start \o tail)[i] = IF i <= Len(start) THEN start[i] ELSE tail[i - Len(start)]
    BY <1>3, <1>4, ConcatProperties
  <2>2. \A i \in 1 .. 4 : Len(b) + 1 + i \in 1 .. Len(b) + 5 /\ ~ (Len(b) + 1 + i <= Len(b) + 1)
                           /\ (Len(b) + 1 + i) - (Len(b) + 1) = i
    BY <1>1
  <2> QED BY <1>1, <1>3, <1>4, <2>1, <2>2
<1>7. /\ 1 \in 1 .. Len(b) + 1 /\ \A i \in 1 .. Len(b) : i + 1 \in 1 .. Len(b) + 1
      /\ Len(b) + 2 = Len(b) + 1 + 1 /\ Len(b) + 3 = Len(b) + 1 + 2
      /\ Len(b) + 4 = Len(b) + 1 + 3 /\ Len(b) + 5 = Len(b) + 1 + 4
  BY <1>1
<1> QED BY <1>3, <1>4, <1>5, <1>6, <1>7

\* What is left of the body after a byte more.
LEMMA PrefixFacts ==
  ASSUME NEW b \in Body, NEW n \in 1 .. Len(b)
  PROVE  /\ SubSeq(b, 1, n) = Append(SubSeq(b, 1, n - 1), b[n])
         /\ SubSeq(b, 1, n - 1) \in Seq(Byte) /\ Len(SubSeq(b, 1, n - 1)) = n - 1
         /\ Checksum(SubSeq(b, 1, n)) = Xor(Checksum(SubSeq(b, 1, n - 1)), b[n])
<1>1. b \in Seq(Byte) /\ Len(b) \in Nat /\ b[n] \in Byte
  BY BodyFacts
<1>2. SubSeq(b, 1, n - 1) \in Seq(Byte) /\ Len(SubSeq(b, 1, n - 1)) = n - 1
      /\ SubSeq(b, 1, n) \in Seq(Byte) /\ Len(SubSeq(b, 1, n)) = n
      /\ \A i \in 1 .. n : SubSeq(b, 1, n)[i] = b[i]
      /\ \A j \in 1 .. n - 1 : SubSeq(b, 1, n - 1)[j] = b[j]
  BY <1>1
<1>3. SubSeq(b, 1, n) = Append(SubSeq(b, 1, n - 1), b[n])
  <2> DEFINE s == SubSeq(b, 1, n - 1)
             t == SubSeq(b, 1, n)
  <2>1. \A i \in 1 .. n : t[i] = Append(s, b[n])[i]
    BY <1>1, <1>2
  <2>2. Append(s, b[n]) \in Seq(Byte) /\ Len(Append(s, b[n])) = n
    BY <1>1, <1>2
  <2>3. t \in Seq(Byte) /\ Len(t) = n
    BY <1>2
  <2> HIDE DEF s, t
  <2>4. t = Append(s, b[n])
    BY <2>1, <2>2, <2>3, SeqEqual
  <2> QED BY <2>4 DEF s, t
<1> QED BY <1>1, <1>2, <1>3, ChecksumOfAppend

LEMMA WholeBody ==
  ASSUME NEW b \in Body
  PROVE  SubSeq(b, 1, Len(b)) = b /\ SubSeq(b, 1, 0) = <<>>
  BY BodyFacts

-----------------------------------------------------------------------------
(* The inductive invariant.                                                  *)

Size == Len(body)

Holding(s, b) == state = s /\ buffer = b /\ runningChecksum = Checksum(b)

\* What the assembler holds while a sentence comes in whole.
Whole ==
  damage = "none" =>
    /\ pos = 0 => out = <<>> /\ (before # "wild" => state = "kIdle")
    /\ pos \in 1 .. Size + 1 =>
         /\ out = <<>>
         /\ IF pos - 1 <= MaxSentenceLength THEN Holding("kBody", SubSeq(body, 1, pos - 1))
            ELSE state = "kIdle"
    /\ pos \in Size + 2 .. Size + 3 =>
         /\ out = <<>>
         /\ IF Size <= MaxSentenceLength
            THEN Holding(IF pos = Size + 2 THEN "kChecksumHigh" ELSE "kChecksumLow", body)
            ELSE state = "kIdle"
    /\ pos = Size + 3 /\ Size <= MaxSentenceLength =>
         expectedChecksum = High(DigitValue[HighDigitOf(body)])
    /\ pos >= Size + 4 =>
         /\ state = "kIdle"
         /\ out = IF Size <= MaxSentenceLength THEN <<body>> ELSE <<>>

HurtBody == pos <= Size + 1 => runningChecksum # Checksum(SubSeq(body, 1, pos - 1))
HurtHigh == pos = Size + 3 \/ (pos = Size + 2 /\ runningChecksum # Checksum(body))
HurtLow ==
  \/ pos = Size + 4
  \/ /\ pos = Size + 3
     /\ \/ buffer = body
        \/ /\ runningChecksum # Checksum(body)
           /\ expectedChecksum = High(DigitValue[HighDigitOf(body)])

Hurt ==
  damage = "once" /\ before # "wild" =>
    /\ state = "kIdle" => out \in {<<>>, <<body>>}
    /\ state # "kIdle" => out = <<>>
    /\ state = "kBody" => HurtBody
    /\ state = "kChecksumHigh" => HurtHigh
    /\ state = "kChecksumLow" => HurtLow

Ended ==
  /\ damage = "once" => pos >= 1
  /\ damage # "wild" /\ pos = Len(Frame(body)) => state = "kIdle"
SentenceInv == TypeOK /\ Whole /\ Hurt /\ Ended

LEMMA StateFacts ==
  ASSUME TypeOK
  PROVE  /\ body \in Body /\ body \in Seq(Byte) /\ Size \in Nat
         /\ Len(Frame(body)) = Size + 5 /\ pos \in 0 .. Size + 5
         /\ buffer \in Seq(Byte) /\ MaxSentenceLength \in Nat
  BY FrameFacts, BodyFacts, BitsAndBytes DEF TypeOK, Size

\* Which byte is due, by how much of the frame has gone.
LEMMA DueFacts ==
  ASSUME TypeOK, Sending
  PROVE  /\ pos \in 0 .. Size + 4 /\ Sent \in Byte
         /\ pos = 0 => Sent = Dollar
         /\ pos \in 1 .. Size => Sent = body[pos]
         /\ pos = Size + 1 => Sent = Star
         /\ pos = Size + 2 => Sent = HighDigitOf(body)
         /\ pos = Size + 3 => Sent = LowDigitOf(body)
         /\ pos = Size + 4 => Sent = Return
<1>1. pos \in 0 .. Size + 4
  BY StateFacts DEF Sending
<1>2. /\ pos = 0 => Sent = Dollar
      /\ pos \in 1 .. Size => Sent = body[pos]
      /\ pos = Size + 1 => Sent = Star
      /\ pos = Size + 2 => Sent = HighDigitOf(body)
      /\ pos = Size + 3 => Sent = LowDigitOf(body)
      /\ pos = Size + 4 => Sent = Return
  <2>1. /\ pos = 0 => pos + 1 = 1
        /\ pos = Size + 1 => pos + 1 = Size + 2
        /\ pos = Size + 2 => pos + 1 = Size + 3
        /\ pos = Size + 3 => pos + 1 = Size + 4
        /\ pos = Size + 4 => pos + 1 = Size + 5
    BY StateFacts
  <2> QED BY <2>1, StateFacts, FrameFacts DEF Sent, Size
<1>3. Sent \in Byte
  <2>1. pos = 0 \/ pos \in 1 .. Size \/ pos = Size + 1 \/ pos = Size + 2 \/ pos = Size + 3
        \/ pos = Size + 4
    BY <1>1, StateFacts
  <2>2. HighDigitOf(body) \in Byte /\ LowDigitOf(body) \in Byte
    BY DigitsSayChecksum, BitsAndBytes
  <2>3. pos \in 1 .. Size => body[pos] \in Byte
    BY StateFacts, BodyFacts DEF Size
  <2> QED BY <1>2, <2>1, <2>2, <2>3, BitsAndBytes
<1> QED BY <1>1, <1>2, <1>3

\* What push does with a byte, by the state it is in.
LEMMA PushFacts ==
  ASSUME TypeOK, NEW c \in Byte, Push(c)
  PROVE  /\ c = Dollar =>
              state' = "kBody" /\ buffer' = <<>> /\ runningChecksum' = {} /\ out' = out
         /\ c # Dollar /\ state = "kIdle" => UNCHANGED assemblerVars
         /\ c # Dollar /\ state = "kBody" =>
              /\ out' = out
              /\ c = Star => state' = "kChecksumHigh" /\ UNCHANGED <<buffer, runningChecksum>>
              /\ c # Star /\ (c = Return \/ Len(buffer) >= MaxSentenceLength) => state' = "kIdle"
              /\ c \notin {Star, Return} /\ Len(buffer) < MaxSentenceLength =>
                   /\ state' = "kBody" /\ buffer' = Append(buffer, c)
                   /\ runningChecksum' = Xor(runningChecksum, c)
         /\ c # Dollar /\ state = "kChecksumHigh" =>
              /\ out' = out
              /\ ~IsDigit(c) => state' = "kIdle"
              /\ IsDigit(c) => /\ state' = "kChecksumLow" /\ UNCHANGED <<buffer, runningChecksum>>
                               /\ expectedChecksum' = High(DigitValue[c])
         /\ c # Dollar /\ state = "kChecksumLow" =>
              /\ state' = "kIdle"
              /\ \/ out' = out
                 \/ /\ IsDigit(c) /\ runningChecksum = expectedChecksum \cup DigitValue[c]
                    /\ out' = IF Len(out) < 2 THEN Append(out, buffer) ELSE out
<1>1. CASE c = Dollar /\ Begin
  BY <1>1 DEF Begin
<1>2. CASE c # Dollar /\ state = "kIdle" /\ UNCHANGED assemblerVars
  BY <1>2
<1>3. CASE c # Dollar /\ state = "kBody" /\ InBody(c) /\ UNCHANGED <<expectedChecksum, out>>
  <2>1. Len(buffer) \in Nat /\ MaxSentenceLength \in Nat
    BY StateFacts
  <2> QED BY <1>3, <2>1 DEF InBody, Discard
<1>4. CASE c # Dollar /\ state = "kChecksumHigh" /\ HighDigit(c)
  BY <1>4 DEF HighDigit
<1>5. CASE c # Dollar /\ state = "kChecksumLow" /\ LowDigit(c)
  BY <1>5 DEF LowDigit, Accept, Discard
<1>6. CASE c # Dollar /\ state \in {"kChecksumHigh", "kChecksumLow"} /\ ~IsDigit(c) /\ Reject
  BY <1>6 DEF Reject, Discard
<1> QED BY <1>1, <1>2, <1>3, <1>4, <1>5, <1>6 DEF Push

\* A low digit that the sum agrees with: one that is whole gives the sentence.
LEMMA DigitAccepted ==
  ASSUME TypeOK, NEW c \in Byte, Push(c), c # Dollar, state = "kChecksumLow", out = <<>>
  PROVE  /\ state' = "kIdle"
         /\ out' = <<>> \/ out' = <<buffer>>
         /\ out' # <<>> => IsDigit(c) /\ runningChecksum = expectedChecksum \cup DigitValue[c]
<1>1. Len(out) < 2 /\ Append(out, buffer) = <<buffer>>
  OBVIOUS
<1> QED BY <1>1, PushFacts

\* The assembler's variables keep their types.
AssemblerOK ==
  /\ state \in {"kIdle", "kBody", "kChecksumHigh", "kChecksumLow"}
  /\ buffer \in Seq(Byte) /\ Len(buffer) <= MaxSentenceLength
  /\ runningChecksum \in Byte /\ expectedChecksum \in Byte
  /\ out \in Seq(Seq(Byte)) /\ Len(out) <= 2

LEMMA PushTyped ==
  ASSUME TypeOK, NEW c \in Byte, Push(c)
  PROVE  AssemblerOK'
<1>1. AssemblerOK /\ MaxSentenceLength \in Nat
  BY StateFacts DEF TypeOK, AssemblerOK
<1>2. <<>> \in Seq(Byte) /\ Len(<<>>) = 0 /\ {} \in Byte
  BY DEF Byte
<1>3. CASE c = Dollar /\ Begin
  BY <1>1, <1>2, <1>3 DEF Begin, AssemblerOK
<1>4. CASE UNCHANGED assemblerVars
  BY <1>1, <1>4 DEF assemblerVars, AssemblerOK
<1>5. CASE InBody(c) /\ state = "kBody" /\ UNCHANGED <<expectedChecksum, out>>
  <2>1. Append(buffer, c) \in Seq(Byte) /\ Len(Append(buffer, c)) = Len(buffer) + 1
        /\ Len(buffer) \in Nat /\ Xor(runningChecksum, c) \in Byte
    BY <1>1, XorCancels DEF AssemblerOK
  <2>2. expectedChecksum' \in Byte /\ out' \in Seq(Seq(Byte)) /\ Len(out') <= 2
    BY <1>1, <1>5 DEF AssemblerOK
  <2>3. /\ state' \in {"kIdle", "kBody", "kChecksumHigh"}
        /\ buffer' \in Seq(Byte) /\ Len(buffer') <= MaxSentenceLength
        /\ runningChecksum' \in Byte
    <3>1. CASE c = Star /\ state' = "kChecksumHigh" /\ UNCHANGED <<buffer, runningChecksum>>
      BY <1>1, <3>1 DEF AssemblerOK
    <3>2. CASE Discard
      BY <1>1, <1>2, <3>2 DEF Discard
    <3>3. CASE /\ Len(buffer) < MaxSentenceLength
               /\ buffer' = Append(buffer, c) /\ runningChecksum' = Xor(runningChecksum, c)
               /\ UNCHANGED state
      BY <1>1, <1>5, <2>1, <3>3
    <3> QED BY <1>5, <3>1, <3>2, <3>3 DEF InBody
  <2> QED BY <2>2, <2>3 DEF AssemblerOK
<1>6. CASE HighDigit(c)
  BY <1>1, <1>6, ValueIsNibble DEF HighDigit, AssemblerOK
<1>7. CASE LowDigit(c)
  <2>1. Len(out) < 2 =>
          Append(out, buffer) \in Seq(Seq(Byte)) /\ Len(Append(out, buffer)) <= 2
    BY <1>1 DEF AssemblerOK
  <2>2. out' \in Seq(Seq(Byte)) /\ Len(out') <= 2
    BY <1>1, <1>7, <2>1 DEF LowDigit, Accept, AssemblerOK
  <2>3. Discard /\ UNCHANGED expectedChecksum
    BY <1>7 DEF LowDigit, Accept
  <2> QED BY <1>1, <1>2, <2>2, <2>3 DEF Discard, AssemblerOK
<1>8. CASE Reject
  BY <1>1, <1>2, <1>8 DEF Reject, Discard, AssemblerOK
<1> QED BY <1>3, <1>4, <1>5, <1>6, <1>7, <1>8 DEF Push

-----------------------------------------------------------------------------
(* Each step keeps the invariant.                                            *)

LEMMA InitSentenceInv == Init => SentenceInv
<1> SUFFICES ASSUME Init PROVE SentenceInv
  OBVIOUS
<1>1. <<>> \in Seq(Byte) /\ Len(<<>>) = 0 /\ {} \in Byte /\ <<>> \in Seq(Seq(Byte))
  BY DEF Byte
<1>2. TypeOK
  BY <1>1, BitsAndBytes DEF Init, TypeOK, Damage
<1>3. Size \in Nat /\ (pos # 0 => pos >= 1)
  BY <1>2, StateFacts
<1>4. Whole
  BY <1>3 DEF Init, Whole
<1>5. Hurt
  BY DEF Init, Hurt
<1>6. Ended
  BY <1>3 DEF Init, Ended
<1> QED BY <1>2, <1>4, <1>5, <1>6 DEF SentenceInv

\* A byte of a sentence that is whole so far.
LEMMA ArriveWhole ==
  ASSUME TypeOK, Whole, Arrive
  PROVE  Whole'
<1> SUFFICES ASSUME damage = "none"
             PROVE  Whole'
  BY DEF Arrive, Whole
<1>1. /\ Push(Sent) /\ Sent \in Byte /\ pos' = pos + 1 /\ pos \in 0 .. Size + 4
      /\ body' = body /\ damage' = damage /\ before' = before /\ Size' = Size
      /\ Size \in Nat /\ MaxSentenceLength \in Nat
  BY DueFacts, StateFacts DEF Arrive, Size
<1>2. CASE pos = 0
  <2>1. Sent = Dollar /\ out = <<>>
    BY <1>1, <1>2, DueFacts DEF Arrive, Whole
  <2>2. state' = "kBody" /\ buffer' = <<>> /\ runningChecksum' = {} /\ out' = <<>>
    BY <1>1, <2>1, PushFacts
  <2>3. Holding("kBody", SubSeq(body, 1, 0))'
    BY <1>1, <2>2, WholeBody, ChecksumOfNothing, StateFacts DEF Holding
  <2>4. pos' = 1 /\ pos' - 1 = 0 /\ pos' \notin Size + 2 .. Size + 3 /\ ~ pos' >= Size + 4
        /\ pos' # Size + 3
    BY <1>1, <1>2
  <2> QED BY <1>1, <2>2, <2>3, <2>4 DEF Whole
<1>3. CASE pos \in 1 .. Size
  <2>1. Sent = body[pos] /\ body[pos] \notin {Dollar, Star, Return} /\ out = <<>>
    BY <1>1, <1>3, DueFacts, StateFacts, BodyFacts DEF Arrive, Whole, Size
  <2>2. out' = <<>>
        /\ IF pos <= MaxSentenceLength
           THEN /\ state' = "kBody" /\ buffer' = SubSeq(body, 1, pos)
                /\ runningChecksum' = Checksum(SubSeq(body, 1, pos))
           ELSE state' = "kIdle"
    <3>1. CASE pos - 1 <= MaxSentenceLength
      <4>1. Holding("kBody", SubSeq(body, 1, pos - 1))
        BY <1>1, <1>3, <3>1 DEF Whole
      <4>2. Len(buffer) = pos - 1
            /\ SubSeq(body, 1, pos) = Append(buffer, body[pos])
            /\ Checksum(SubSeq(body, 1, pos)) = Xor(runningChecksum, body[pos])
        BY <1>3, <4>1, PrefixFacts, StateFacts DEF Holding, Size
      <4>3. state = "kBody" /\ out = <<>>
        BY <2>1, <4>1 DEF Holding
      <4>4. CASE pos <= MaxSentenceLength
        <5>1. Len(buffer) < MaxSentenceLength
          BY <1>1, <4>2, <4>4
        <5> QED BY <1>1, <2>1, <4>2, <4>3, <4>4, <5>1, PushFacts DEF Holding
      <4>5. CASE ~ pos <= MaxSentenceLength
        <5>1. Len(buffer) >= MaxSentenceLength
          BY <1>1, <4>2, <4>5
        <5> QED BY <1>1, <2>1, <4>3, <4>5, <5>1, PushFacts
      <4> QED BY <4>4, <4>5
    <3>2. CASE ~ pos - 1 <= MaxSentenceLength
      <4>1. state = "kIdle" /\ ~ pos <= MaxSentenceLength
        BY <1>1, <1>3, <3>2 DEF Whole
      <4> QED BY <1>1, <2>1, <4>1, PushFacts DEF assemblerVars
    <3> QED BY <3>1, <3>2
  <2>3. pos' \in 1 .. Size + 1 /\ pos' - 1 = pos /\ pos' # 0
        /\ pos' \notin Size + 2 .. Size + 3 /\ ~ pos' >= Size + 4 /\ pos' # Size + 3
    BY <1>1, <1>3
  <2> QED BY <1>1, <2>2, <2>3 DEF Whole, Holding
<1>4. CASE pos = Size + 1
  <2>1. Sent = Star /\ out = <<>>
        /\ IF Size <= MaxSentenceLength THEN Holding("kBody", body) ELSE state = "kIdle"
    <3>1. pos \in 1 .. Size + 1 /\ pos - 1 = Size
      BY <1>1, <1>4
    <3>2. SubSeq(body, 1, Size) = body
      BY WholeBody, StateFacts DEF Size
    <3> QED BY <1>1, <1>4, <3>1, <3>2, DueFacts DEF Arrive, Whole
  <2>2. out' = <<>>
        /\ IF Size <= MaxSentenceLength THEN Holding("kChecksumHigh", body)'
           ELSE state' = "kIdle"
    BY <1>1, <2>1, Distinct, PushFacts DEF Holding, assemblerVars
  <2>3. pos' = Size + 2 /\ pos' \in Size + 2 .. Size + 3 /\ pos' # 0
        /\ pos' \notin 1 .. Size + 1 /\ ~ pos' >= Size + 4 /\ pos' # Size + 3
    BY <1>1, <1>4
  <2> QED BY <1>1, <2>2, <2>3 DEF Whole, Holding
<1>5. CASE pos = Size + 2
  <2>1. Sent = HighDigitOf(body) /\ IsDigit(Sent) /\ Sent # Dollar /\ out = <<>>
        /\ IF Size <= MaxSentenceLength THEN Holding("kChecksumHigh", body) ELSE state = "kIdle"
    <3>1. pos \in Size + 2 .. Size + 3
      BY <1>1, <1>5
    <3>2. Sent = HighDigitOf(body)
      BY <1>5, DueFacts DEF Arrive
    <3> QED BY <1>5, <3>1, <3>2, DigitsSayChecksum, ValueIsNibble DEF IsDigit, Whole
  <2>2. /\ out' = <<>>
        /\ IF Size <= MaxSentenceLength
           THEN /\ Holding("kChecksumLow", body)'
                /\ expectedChecksum' = High(DigitValue[HighDigitOf(body)])
           ELSE state' = "kIdle"
    BY <1>1, <2>1, PushFacts DEF Holding, assemblerVars
  <2>3. pos' = Size + 3 /\ pos' \in Size + 2 .. Size + 3 /\ pos' # 0 /\ pos' # Size + 2
        /\ pos' \notin 1 .. Size + 1 /\ ~ pos' >= Size + 4
    BY <1>1, <1>5
  <2> QED BY <1>1, <2>2, <2>3 DEF Whole, Holding
<1>6. CASE pos = Size + 3
  <2>1. Sent = LowDigitOf(body) /\ IsDigit(Sent) /\ Sent # Dollar /\ out = <<>>
        /\ IF Size <= MaxSentenceLength
           THEN Holding("kChecksumLow", body)
                /\ expectedChecksum = High(DigitValue[HighDigitOf(body)])
           ELSE state = "kIdle"
    <3>1. pos \in Size + 2 .. Size + 3 /\ pos # Size + 2
      BY <1>1, <1>6
    <3>2. Sent = LowDigitOf(body)
      BY <1>6, DueFacts DEF Arrive
    <3> QED BY <1>6, <3>1, <3>2, DigitsSayChecksum, ValueIsNibble DEF IsDigit, Whole
  <2>2. /\ state' = "kIdle"
        /\ out' = IF Size <= MaxSentenceLength THEN <<body>> ELSE <<>>
    <3>1. CASE Size <= MaxSentenceLength
      <4>1. runningChecksum = expectedChecksum \cup DigitValue[Sent] /\ buffer = body
            /\ state = "kChecksumLow"
        BY <2>1, <3>1, DigitsSayChecksum DEF Holding
      <4>2. LowDigit(Sent)
        BY <1>1, <2>1, <4>1 DEF Push
      <4>3. Accept /\ Len(out) < 2 /\ Append(out, buffer) = <<body>>
        BY <2>1, <4>1, <4>2 DEF LowDigit
      <4> QED BY <3>1, <4>3 DEF Accept, Discard
    <3>2. CASE ~ Size <= MaxSentenceLength
      BY <1>1, <2>1, <3>2, PushFacts DEF assemblerVars
    <3> QED BY <3>1, <3>2
  <2>3. pos' = Size + 4 /\ pos' \notin Size + 2 .. Size + 3 /\ pos' # 0
        /\ pos' \notin 1 .. Size + 1 /\ pos' # Size + 3
    BY <1>1, <1>6
  <2> QED BY <1>1, <2>2, <2>3 DEF Whole, Holding
<1>7. CASE pos = Size + 4
  <2>1. Sent = Return /\ state = "kIdle"
        /\ out = IF Size <= MaxSentenceLength THEN <<body>> ELSE <<>>
    <3>1. pos >= Size + 4
      BY <1>1, <1>7
    <3> QED BY <1>7, <3>1, DueFacts DEF Arrive, Whole
  <2>2. state' = "kIdle" /\ out' = out
    BY <1>1, <2>1, Distinct, PushFacts DEF assemblerVars
  <2>3. pos' = Size + 5 /\ pos' \notin Size + 2 .. Size + 3 /\ pos' # 0
        /\ pos' \notin 1 .. Size + 1 /\ pos' # Size + 3
    BY <1>1, <1>7
  <2> QED BY <1>1, <2>1, <2>2, <2>3 DEF Whole, Holding
<1>8. pos = 0 \/ pos \in 1 .. Size \/ pos = Size + 1 \/ pos = Size + 2 \/ pos = Size + 3
      \/ pos = Size + 4
  BY <1>1
<1> QED BY <1>2, <1>3, <1>4, <1>5, <1>6, <1>7, <1>8

\* A byte of a sentence that has been damaged.
LEMMA ArriveHurt ==
  ASSUME TypeOK, Hurt, Ended, Arrive
  PROVE  Hurt'
<1> SUFFICES ASSUME damage = "once", before # "wild"
             PROVE  Hurt'
  BY DEF Arrive, Hurt
<1>1. /\ Push(Sent) /\ Sent \in Byte /\ pos' = pos + 1 /\ pos \in 1 .. Size + 4
      /\ body' = body /\ Size' = Size /\ Size \in Nat /\ MaxSentenceLength \in Nat
  BY DueFacts, StateFacts DEF Arrive, Ended, Size
<1>2. Sent # Dollar
  <2>1. pos \in 1 .. Size => body[pos] # Dollar
    BY StateFacts, BodyFacts DEF Size
  <2>2. HighDigitOf(body) # Dollar /\ LowDigitOf(body) # Dollar
    BY DigitsSayChecksum, ValueIsNibble DEF IsDigit
  <2>3. pos \in 1 .. Size \/ pos = Size + 1 \/ pos = Size + 2 \/ pos = Size + 3 \/ pos = Size + 4
    BY <1>1
  <2> QED BY <2>1, <2>2, <2>3, Distinct, DueFacts DEF Arrive
<1>3. CASE state = "kIdle"
  BY <1>1, <1>2, <1>3, PushFacts DEF assemblerVars, Hurt
<1>4. CASE state = "kBody"
  <2>1. out = <<>> /\ HurtBody /\ out' = out
    BY <1>1, <1>2, <1>4, PushFacts DEF Hurt
  <2>2. CASE pos \in 1 .. Size
    <3>1. Sent = body[pos] /\ Sent \notin {Star, Return}
      BY <2>2, DueFacts, StateFacts, BodyFacts DEF Arrive, Size
    <3>2. CASE Len(buffer) < MaxSentenceLength
      <4>1. state' = "kBody" /\ runningChecksum' = Xor(runningChecksum, body[pos])
        BY <1>1, <1>2, <1>4, <3>1, <3>2, PushFacts
      <4>2. runningChecksum # Checksum(SubSeq(body, 1, pos - 1))
        BY <1>1, <2>1, <2>2 DEF HurtBody
      <4>3. Checksum(SubSeq(body, 1, pos)) = Xor(Checksum(SubSeq(body, 1, pos - 1)), body[pos])
        BY <2>2, PrefixFacts, StateFacts DEF Size
      <4>4. pos' - 1 = pos
        BY <1>1
      <4>5. HurtBody'
        BY <1>1, <4>1, <4>2, <4>3, <4>4, XorCancels DEF HurtBody
      <4> QED BY <2>1, <4>1, <4>5 DEF Hurt
    <3>3. CASE ~ Len(buffer) < MaxSentenceLength
      <4>1. Len(buffer) >= MaxSentenceLength
        BY <1>1, <3>3, StateFacts
      <4> QED BY <1>1, <1>2, <1>4, <2>1, <3>1, <4>1, PushFacts DEF Hurt
    <3> QED BY <3>2, <3>3
  <2>3. CASE pos = Size + 1
    <3>1. Sent = Star
      BY <2>3, DueFacts DEF Arrive
    <3>2. state' = "kChecksumHigh" /\ runningChecksum' = runningChecksum
      BY <1>1, <1>2, <1>4, <3>1, PushFacts
    <3>3. SubSeq(body, 1, pos - 1) = body /\ pos <= Size + 1 /\ pos' = Size + 2
      BY <1>1, <2>3, WholeBody, StateFacts DEF Size
    <3>4. HurtHigh'
      BY <1>1, <2>1, <3>2, <3>3 DEF HurtBody, HurtHigh
    <3> QED BY <2>1, <3>2, <3>4 DEF Hurt
  <2>4. CASE pos \in Size + 2 .. Size + 3
    <3>1. IsDigit(Sent) /\ Sent \notin {Star, Return}
      <4>1. pos = Size + 2 \/ pos = Size + 3
        BY <1>1, <2>4
      <4> QED BY <4>1, DueFacts, DigitsSayChecksum, ValueIsNibble DEF IsDigit, Arrive
    <3>2. state' \in {"kBody", "kIdle"}
      <4>1. Len(buffer) < MaxSentenceLength \/ Len(buffer) >= MaxSentenceLength
        BY <1>1, StateFacts
      <4> QED BY <1>1, <1>2, <1>4, <3>1, <4>1, PushFacts
    <3>3. HurtBody'
      BY <1>1, <2>4 DEF HurtBody
    <3> QED BY <2>1, <3>2, <3>3 DEF Hurt
  <2>5. CASE pos = Size + 4
    <3>1. Sent = Return
      BY <2>5, DueFacts DEF Arrive
    <3>2. state' = "kIdle"
      BY <1>1, <1>2, <1>4, <3>1, Distinct, PushFacts
    <3> QED BY <2>1, <3>2 DEF Hurt
  <2>6. pos \in 1 .. Size \/ pos = Size + 1 \/ pos \in Size + 2 .. Size + 3 \/ pos = Size + 4
    BY <1>1
  <2> QED BY <2>2, <2>3, <2>4, <2>5, <2>6
<1>5. CASE state = "kChecksumHigh"
  <2>1. out = <<>> /\ out' = out /\ HurtHigh
    BY <1>1, <1>2, <1>5, PushFacts DEF Hurt
  <2>2. CASE pos = Size + 2
    <3>1. Sent = HighDigitOf(body) /\ IsDigit(Sent)
      BY <2>2, DueFacts, DigitsSayChecksum DEF Arrive, IsDigit
    <3>2. /\ state' = "kChecksumLow" /\ runningChecksum' = runningChecksum
          /\ expectedChecksum' = High(DigitValue[HighDigitOf(body)])
      BY <1>1, <1>2, <1>5, <3>1, PushFacts
    <3>3. runningChecksum # Checksum(body) /\ pos' = Size + 3
      BY <1>1, <2>1, <2>2 DEF HurtHigh
    <3>4. HurtLow'
      BY <1>1, <3>2, <3>3 DEF HurtLow
    <3> QED BY <2>1, <3>2, <3>4 DEF Hurt
  <2>3. CASE pos = Size + 3
    <3>1. IsDigit(Sent)
      BY <2>3, DueFacts, DigitsSayChecksum DEF Arrive, IsDigit
    <3>2. state' = "kChecksumLow" /\ pos' = Size + 4
      BY <1>1, <1>2, <1>5, <2>3, <3>1, PushFacts
    <3>3. HurtLow'
      BY <1>1, <3>2 DEF HurtLow
    <3> QED BY <2>1, <3>2, <3>3 DEF Hurt
  <2> QED BY <2>1, <2>2, <2>3 DEF HurtHigh
<1>6. CASE state = "kChecksumLow"
  <2>1. out = <<>> /\ HurtLow
    BY <1>6 DEF Hurt
  <2>2. /\ state' = "kIdle" /\ (out' = <<>> \/ out' = <<buffer>>)
        /\ out' # <<>> =>
             IsDigit(Sent) /\ runningChecksum = expectedChecksum \cup DigitValue[Sent]
    BY <1>1, <1>2, <1>6, <2>1, DigitAccepted
  <2>3. out' # <<>> => buffer = body
    <3>1. CASE pos = Size + 4
      <4>1. Sent = Return /\ ~IsDigit(Return)
        BY <3>1, DueFacts, ValueIsNibble DEF Arrive
      <4> QED BY <2>2, <4>1
    <3>2. CASE pos = Size + 3
      <4>1. Sent = LowDigitOf(body)
        BY <3>2, DueFacts DEF Arrive
      <4>2. ~ pos = Size + 4
        BY <1>1, <3>2
      <4> QED BY <2>1, <2>2, <3>2, <4>1, <4>2, DigitsSayChecksum DEF HurtLow
    <3> QED BY <2>1, <3>1, <3>2 DEF HurtLow
  <2> QED BY <1>1, <2>2, <2>3 DEF Hurt
<1>7. state \in {"kIdle", "kBody", "kChecksumHigh", "kChecksumLow"}
  BY DEF TypeOK
<1> QED BY <1>3, <1>4, <1>5, <1>6, <1>7

\* The assembler of a sentence that is whole, without its expected checksum.
LEMMA WholeFacts ==
  ASSUME TypeOK, Whole, damage = "none", before # "wild", pos \in 0 .. Size + 4
  PROVE  /\ state = "kIdle" => out \in {<<>>, <<body>>}
         /\ state # "kIdle" => out = <<>> /\ pos \in 1 .. Size + 3
         /\ state = "kBody" =>
              /\ pos \in 1 .. Size + 1
              /\ runningChecksum = Checksum(SubSeq(body, 1, pos - 1))
         /\ state = "kChecksumHigh" => pos = Size + 2
         /\ state = "kChecksumLow" => pos = Size + 3 /\ buffer = body
         /\ pos = Size + 4 => state = "kIdle"
<1>1. Size \in Nat
  BY StateFacts
<1>2. CASE pos = 0
  BY <1>1, <1>2 DEF Whole
<1>3. CASE pos \in 1 .. Size + 1
  <2>1. out = <<>> /\ pos # Size + 4 /\ pos \in 1 .. Size + 3
    BY <1>1, <1>3 DEF Whole
  <2>2. state = "kIdle"
        \/ (state = "kBody" /\ runningChecksum = Checksum(SubSeq(body, 1, pos - 1)))
    BY <1>3 DEF Whole, Holding
  <2> QED BY <1>3, <2>1, <2>2
<1>4. CASE pos \in Size + 2 .. Size + 3
  <2>1. out = <<>> /\ pos # Size + 4 /\ pos \in 1 .. Size + 3 /\ (pos # Size + 2 => pos = Size + 3)
    BY <1>1, <1>4 DEF Whole
  <2>2. \/ state = "kIdle"
        \/ /\ state = (IF pos = Size + 2 THEN "kChecksumHigh" ELSE "kChecksumLow")
           /\ buffer = body
    BY <1>4 DEF Whole, Holding
  <2> QED BY <1>4, <2>1, <2>2
<1>5. CASE pos = Size + 4
  <2>1. pos >= Size + 4
    BY <1>1, <1>5
  <2> QED BY <1>5, <2>1 DEF Whole
<1>6. pos = 0 \/ pos \in 1 .. Size + 1 \/ pos \in Size + 2 .. Size + 3 \/ pos = Size + 4
  BY <1>1
<1> QED BY <1>2, <1>3, <1>4, <1>5, <1>6

\* The one byte lost: a body without it has another checksum.
LEMMA LoseHurts ==
  ASSUME TypeOK, Whole, Lose
  PROVE  Hurt'
<1> SUFFICES ASSUME before # "wild"
             PROVE  Hurt'
  BY DEF Lose, Hurt
<1>1. /\ UNCHANGED <<body, state, buffer, runningChecksum, expectedChecksum, out>>
      /\ damage = "none" /\ pos' = pos + 1 /\ pos \in 0 .. Size + 4
      /\ Size' = Size /\ Size \in Nat
  BY DueFacts, StateFacts DEF Lose, assemblerVars, Size
<1>2. CASE state = "kIdle"
  BY <1>1, <1>2, WholeFacts DEF Hurt
<1>3. CASE state = "kBody"
  <2>1. out = <<>> /\ pos \in 1 .. Size + 1
        /\ runningChecksum = Checksum(SubSeq(body, 1, pos - 1))
    BY <1>1, <1>3, WholeFacts
  <2>2. ASSUME pos \in 1 .. Size
        PROVE  runningChecksum # Checksum(SubSeq(body, 1, pos))
    <3>1. body[pos] # {}
      BY <2>2, StateFacts, BodyFacts DEF Size
    <3>2. Checksum(SubSeq(body, 1, pos)) = Xor(runningChecksum, body[pos])
      BY <2>1, <2>2, PrefixFacts, StateFacts DEF Size
    <3> QED BY <3>1, <3>2, XorCancels
  <2>3. pos' - 1 = pos /\ (pos' <= Size + 1 => pos \in 1 .. Size)
    BY <1>1, <2>1
  <2>4. HurtBody'
    BY <1>1, <2>2, <2>3 DEF HurtBody
  <2> QED BY <1>1, <1>3, <2>1, <2>4 DEF Hurt
<1>4. CASE state = "kChecksumHigh"
  <2>1. out = <<>> /\ pos' = Size + 3
    BY <1>1, <1>4, WholeFacts
  <2>2. HurtHigh'
    BY <1>1, <2>1 DEF HurtHigh
  <2> QED BY <1>1, <1>4, <2>1, <2>2 DEF Hurt
<1>5. CASE state = "kChecksumLow"
  <2>1. out = <<>> /\ pos' = Size + 4
    BY <1>1, <1>5, WholeFacts
  <2>2. HurtLow'
    BY <1>1, <2>1 DEF HurtLow
  <2> QED BY <1>1, <1>5, <2>1, <2>2 DEF Hurt
<1>6. state \in {"kIdle", "kBody", "kChecksumHigh", "kChecksumLow"}
  BY DEF TypeOK
<1> QED BY <1>2, <1>3, <1>4, <1>5, <1>6

\* The one byte garbled: so has a body with another byte in its place; but a digit
\* may be garbled to its other form, which gives the sentence as it was sent.
LEMMA GarbleHurts ==
  ASSUME TypeOK, Whole, Garble
  PROVE  Hurt'
<1> SUFFICES ASSUME before # "wild"
             PROVE  Hurt'
  BY DEF Garble, Hurt
<1>1. PICK c \in Byte \ {Dollar, Star, Sent} : Push(c)
  BY DEF Garble
<1>2. /\ body' = body /\ damage = "none" /\ pos' = pos + 1 /\ pos \in 0 .. Size + 4
      /\ Size' = Size /\ Size \in Nat /\ MaxSentenceLength \in Nat
      /\ c \in Byte /\ c # Dollar /\ c # Star /\ c # Sent
  BY <1>1, DueFacts, StateFacts DEF Garble, Size
<1>3. CASE state = "kIdle"
  <2>1. state' = "kIdle" /\ out' = out
    BY <1>1, <1>2, <1>3, PushFacts DEF assemblerVars
  <2> QED BY <1>2, <1>3, <2>1, WholeFacts DEF Hurt
<1>4. CASE state = "kBody"
  <2>1. out = <<>> /\ pos \in 1 .. Size + 1 /\ out' = out
        /\ runningChecksum = Checksum(SubSeq(body, 1, pos - 1))
    BY <1>1, <1>2, <1>4, WholeFacts, PushFacts
  <2>2. CASE c = Return \/ Len(buffer) >= MaxSentenceLength
    <3>1. state' = "kIdle"
      BY <1>1, <1>2, <1>4, <2>2, PushFacts
    <3> QED BY <2>1, <3>1 DEF Hurt
  <2>3. CASE c # Return /\ Len(buffer) < MaxSentenceLength
    <3>1. state' = "kBody" /\ runningChecksum' = Xor(runningChecksum, c)
      BY <1>1, <1>2, <1>4, <2>3, PushFacts
    <3>2. ASSUME pos \in 1 .. Size
          PROVE  runningChecksum' # Checksum(SubSeq(body, 1, pos))
      <4>1. Sent = body[pos]
        BY <3>2, DueFacts DEF Garble
      <4>2. Checksum(SubSeq(body, 1, pos)) = Xor(runningChecksum, body[pos])
        BY <2>1, <3>2, PrefixFacts, StateFacts DEF Size
      <4> QED BY <1>2, <3>1, <4>1, <4>2, XorCancels
    <3>3. pos' - 1 = pos /\ (pos' <= Size + 1 => pos \in 1 .. Size)
      BY <1>2, <2>1
    <3>4. HurtBody'
      BY <1>2, <3>2, <3>3 DEF HurtBody
    <3> QED BY <2>1, <3>1, <3>4 DEF Hurt
  <2>4. Len(buffer) < MaxSentenceLength \/ Len(buffer) >= MaxSentenceLength
    BY <1>2, StateFacts
  <2> QED BY <2>2, <2>3, <2>4
<1>5. CASE state = "kChecksumHigh"
  <2>1. out = <<>> /\ out' = out /\ pos = Size + 2 /\ pos' = Size + 3
    BY <1>1, <1>2, <1>5, WholeFacts, PushFacts
  <2>2. CASE ~IsDigit(c)
    <3>1. state' = "kIdle"
      BY <1>1, <1>2, <1>5, <2>2, PushFacts
    <3> QED BY <2>1, <3>1 DEF Hurt
  <2>3. CASE IsDigit(c)
    <3>1. state' = "kChecksumLow" /\ buffer' = buffer
      BY <1>1, <1>2, <1>5, <2>3, PushFacts
    <3>2. buffer = body
      <4>1. pos \in Size + 2 .. Size + 3
        BY <1>2, <2>1
      <4> QED BY <1>2, <1>5, <4>1 DEF Whole, Holding
    <3>3. HurtLow'
      BY <1>2, <2>1, <3>1, <3>2 DEF HurtLow
    <3> QED BY <2>1, <3>1, <3>3 DEF Hurt
  <2> QED BY <2>2, <2>3
<1>6. CASE state = "kChecksumLow"
  <2>1. out = <<>> /\ buffer = body
    BY <1>2, <1>6, WholeFacts
  <2>2. state' = "kIdle" /\ (out' = <<>> \/ out' = <<buffer>>)
    BY <1>1, <1>2, <1>6, <2>1, DigitAccepted
  <2> QED BY <1>2, <2>1, <2>2 DEF Hurt
<1>7. state \in {"kIdle", "kBody", "kChecksumHigh", "kChecksumLow"}
  BY DEF TypeOK
<1> QED BY <1>3, <1>4, <1>5, <1>6, <1>7

LEMMA NextTyped ==
  ASSUME TypeOK, Next
  PROVE  TypeOK'
<1>1. body \in Body /\ damage \in Damage /\ before \in Damage /\ AssemblerOK
  BY DEF TypeOK, AssemblerOK
<1>2. Len(Frame(body)) \in Nat /\ pos \in 0 .. Len(Frame(body))
  BY StateFacts DEF TypeOK
<1>3. Sending => pos + 1 \in 0 .. Len(Frame(body))
  BY <1>2 DEF Sending
<1>4. UNCHANGED assemblerVars => AssemblerOK'
  BY <1>1 DEF assemblerVars, AssemblerOK
<1>5. CASE Arrive
  <2>1. AssemblerOK'
    BY <1>5, DueFacts, PushTyped DEF Arrive
  <2> QED BY <1>1, <1>3, <1>5, <2>1 DEF Arrive, TypeOK, AssemblerOK
<1>6. CASE Lose
  BY <1>1, <1>3, <1>4, <1>6 DEF Lose, TypeOK, AssemblerOK, Damage
<1>7. CASE Garble
  <2>1. AssemblerOK'
    BY <1>7, PushTyped DEF Garble
  <2> QED BY <1>1, <1>3, <1>7, <2>1 DEF Garble, TypeOK, AssemblerOK, Damage
<1>8. CASE GoWild
  <2>1. AssemblerOK'
    BY <1>4, <1>8, PushTyped, BitsAndBytes DEF GoWild
  <2>2. pos' \in 0 .. Len(Frame(body))
    BY <1>2, <1>3, <1>8 DEF GoWild
  <2> QED BY <1>1, <1>8, <2>1, <2>2 DEF GoWild, TypeOK, AssemblerOK, Damage
<1>9. CASE NextSentence
  <2>1. body' \in Body /\ pos' = 0 /\ damage' \in Damage /\ before' \in Damage
    BY <1>1, <1>9 DEF NextSentence, Damage
  <2>2. AssemblerOK'
    BY <1>1, <1>9 DEF NextSentence, AssemblerOK
  <2>3. Len(Frame(body')) = Len(body') + 5 /\ Len(body') \in Nat
    BY <2>1, FrameFacts, BodyFacts
  <2> QED BY <2>1, <2>2, <2>3 DEF TypeOK, AssemblerOK
<1> QED BY <1>5, <1>6, <1>7, <1>8, <1>9 DEF Next

\* However a sentence went, its end finds the assembler idle.
LEMMA EndedKept ==
  ASSUME TypeOK, Whole, Ended, Next
  PROVE  Ended'
<1>1. Len(Frame(body)) = Size + 5 /\ Size \in Nat /\ pos \in 0 .. Size + 5
  BY StateFacts
<1>2. Sending => pos \in 0 .. Size + 4
  BY DueFacts
<1>3. ASSUME damage = "none", pos = Size + 4
      PROVE  state = "kIdle"
  <2>1. pos >= Size + 4
    BY <1>1, <1>3
  <2> QED BY <1>3, <2>1 DEF Whole
<1>4. CASE Arrive
  <2>1. damage' = "once" => pos' >= 1
    BY <1>2, <1>4 DEF Arrive
  <2>2. ASSUME pos + 1 = Size + 5
        PROVE  state' = "kIdle"
    <3>1. Sent = Return /\ Push(Sent) /\ Sent \in Byte /\ Sent # Dollar /\ ~IsDigit(Sent)
      <4>1. pos = Size + 4
        BY <1>1, <2>2
      <4> QED BY <1>4, <4>1, DueFacts, Distinct, ValueIsNibble DEF Arrive
    <3> QED BY <3>1, PushFacts, Distinct DEF TypeOK, assemblerVars
  <2>3. Frame(body)' = Frame(body) /\ pos' = pos + 1
    BY <1>4 DEF Arrive, Frame
  <2> QED BY <1>1, <2>1, <2>2, <2>3 DEF Ended
<1>5. CASE Lose
  <2>1. pos' = pos + 1 /\ pos' >= 1 /\ damage = "none" /\ state' = state /\ body' = body
    BY <1>2, <1>5 DEF Lose, assemblerVars
  <2>2. pos + 1 = Size + 5 => state = "kIdle"
    BY <1>1, <1>3, <2>1
  <2> QED BY <1>1, <2>1, <2>2 DEF Ended
<1>6. CASE Garble
  <2>1. pos' = pos + 1 /\ pos' >= 1 /\ damage = "none" /\ body' = body
    BY <1>2, <1>6 DEF Garble
  <2>2. pos + 1 = Size + 5 => state' = "kIdle"
    <3>1. PICK c \in Byte \ {Dollar, Star, Sent} : Push(c)
      BY <1>6 DEF Garble
    <3>2. pos + 1 = Size + 5 => state = "kIdle"
      BY <1>1, <1>3, <2>1
    <3> QED BY <3>1, <3>2, PushFacts DEF assemblerVars
  <2> QED BY <1>1, <2>1, <2>2 DEF Ended
<1>7. CASE GoWild
  BY <1>7 DEF GoWild, Ended
<1>8. CASE NextSentence
  <2>1. body' \in Body /\ pos' = 0 /\ damage' = "none"
    BY <1>8 DEF NextSentence
  <2>2. Len(Frame(body')) # 0
    BY <2>1, FrameFacts, BodyFacts
  <2> QED BY <2>1, <2>2 DEF Ended
<1> QED BY <1>4, <1>5, <1>6, <1>7, <1>8 DEF Next

LEMMA NextSentenceInv == SentenceInv /\ [Next]_vars => SentenceInv'
<1> SUFFICES ASSUME SentenceInv, [Next]_vars PROVE SentenceInv'
  OBVIOUS
<1>1. TypeOK /\ Whole /\ Hurt /\ Ended
  BY DEF SentenceInv
<1>2. CASE Next
  <2>1. TypeOK' /\ Ended'
    BY <1>1, <1>2, NextTyped, EndedKept
  <2>2. CASE Arrive
    BY <1>1, <2>1, <2>2, ArriveWhole, ArriveHurt DEF SentenceInv
  <2>3. CASE Lose
    <3>1. Whole'
      BY <2>3 DEF Lose, Whole
    <3> QED BY <1>1, <2>1, <2>3, <3>1, LoseHurts DEF SentenceInv
  <2>4. CASE Garble
    <3>1. Whole'
      BY <2>4 DEF Garble, Whole
    <3> QED BY <1>1, <2>1, <2>4, <3>1, GarbleHurts DEF SentenceInv
  <2>5. CASE GoWild
    <3>1. Whole' /\ Hurt'
      BY <2>5 DEF GoWild, Whole, Hurt
    <3> QED BY <2>1, <3>1 DEF SentenceInv
  <2>6. CASE NextSentence
    <3>1. Hurt'
      BY <2>6 DEF NextSentence, Hurt
    <3>2. pos' = 0 /\ out' = <<>> /\ before' = damage /\ state' = state
          /\ (damage # "wild" => state = "kIdle")
      <4>1. pos = Len(Frame(body))
        <5>1. ~ pos < Len(Frame(body))
          BY <2>6 DEF NextSentence, Sending
        <5> QED BY <1>1, <5>1, StateFacts
      <4> QED BY <1>1, <2>6, <4>1 DEF NextSentence, Ended
    <3>3. Size' \in Nat
      BY <2>6, BodyFacts DEF NextSentence, Size
    <3>4. /\ pos' \notin 1 .. Size' + 1 /\ pos' \notin Size' + 2 .. Size' + 3
          /\ pos' # Size' + 3 /\ ~ pos' >= Size' + 4
      <4> DEFINE n == Size'
      <4>1. n \in Nat /\ pos' = 0
        BY <3>2, <3>3
      <4> HIDE DEF n
      <4>2. /\ 0 \notin 1 .. n + 1 /\ 0 \notin n + 2 .. n + 3 /\ 0 # n + 3 /\ ~ 0 >= n + 4
        BY <4>1
      <4> QED BY <4>1, <4>2 DEF n
    <3>5. out' = <<>> /\ (before' # "wild" => state' = "kIdle")
      BY <3>2
    <3>6. Whole'
      BY <3>4, <3>5 DEF Whole
    <3> QED BY <2>1, <3>1, <3>6 DEF SentenceInv
  <2> QED BY <1>2, <2>2, <2>3, <2>4, <2>5, <2>6 DEF Next
<1>3. CASE UNCHANGED vars
  <2>1. UNCHANGED <<body, pos, damage, before, state, buffer, runningChecksum,
                    expectedChecksum, out>>
    BY <1>3 DEF vars, lineVars, assemblerVars
  <2>2. TypeOK'
    BY <1>1, <2>1 DEF TypeOK
  <2>3. Whole'
    BY <1>1, <2>1 DEF Whole, Holding, Size
  <2>4. Hurt'
    BY <1>1, <2>1 DEF Hurt, HurtBody, HurtHigh, HurtLow, Size
  <2>5. Ended'
    BY <1>1, <2>1 DEF Ended
  <2> QED BY <2>2, <2>3, <2>4, <2>5 DEF SentenceInv
<1> QED BY <1>2, <1>3

LEMMA AlwaysSentenceInv == Spec => []SentenceInv
  BY InitSentenceInv, NextSentenceInv, PTL DEF Spec

-----------------------------------------------------------------------------
\* The buffer never holds more than kMaxSentenceLength bytes, and push stays in one
\* of its four states (SentenceAssembler::push).
THEOREM TypeCorrect == Spec => []TypeOK
<1>1. SentenceInv => TypeOK
  BY DEF SentenceInv
<1> QED BY <1>1, AlwaysSentenceInv, PTL

\* On a mild line.
LEMMA MildOut ==
  ASSUME SentenceInv, Mild
  PROVE  out \in {<<>>, <<body>>}
<1>1. TypeOK /\ Whole /\ Hurt
  BY DEF SentenceInv
<1>2. CASE damage = "none"
  <2>1. pos \in 0 .. Size + 5 /\ Size \in Nat
    BY <1>1, StateFacts
  <2>2. CASE pos \in 0 .. Size + 4
    <3>1. state = "kIdle" \/ out = <<>>
      BY <1>1, <1>2, <2>2, WholeFacts DEF Mild
    <3> QED BY <1>1, <1>2, <2>2, <3>1, WholeFacts DEF Mild
  <2>3. CASE pos = Size + 5
    <3>1. pos >= Size + 4
      BY <2>1, <2>3
    <3> QED BY <1>1, <1>2, <3>1 DEF Whole
  <2> QED BY <2>1, <2>2, <2>3
<1>3. CASE damage = "once"
  BY <1>1, <1>3 DEF Hurt, Mild
<1> QED BY <1>1, <1>2, <1>3 DEF Mild, TypeOK, Damage

\* What push accepts on a line that damages one byte of a sentence at most is the
\* sentence that was sent: no part of it, and no splice of two, for every checksum
\* width, buffer and set of bodies (SentenceAssembler::push).
THEOREM OnlyWhatWasSent == Spec => []EmittedAsSent
<1>1. SentenceInv => EmittedAsSent
  <2> SUFFICES ASSUME SentenceInv, Mild, NEW i \in DOMAIN out
               PROVE  out[i] = body
    BY DEF EmittedAsSent
  <2> QED BY MildOut
<1> QED BY <1>1, AlwaysSentenceInv, PTL

\* No sentence is accepted twice: push has discarded it by the time the line end
\* comes (SentenceAssembler::push, discard).
THEOREM OnceOnly == Spec => []AcceptedOnce
<1>1. SentenceInv => AcceptedOnce
  <2> SUFFICES ASSUME SentenceInv, Mild PROVE Len(out) <= 1
    BY DEF AcceptedOnce
  <2>1. CASE out = <<>>
    BY <2>1
  <2>2. CASE out = <<body>>
    <3>1. Len(<<body>>) = 1
      OBVIOUS
    <3> QED BY <2>2, <3>1
  <2> QED BY <2>1, <2>2, MildOut
<1> QED BY <1>1, AlwaysSentenceInv, PTL

\* Whatever state a wild line left push in, the next sentence that comes whole and
\* fits is accepted with its last digit (SentenceAssembler::push).
THEOREM IntactAccepted == Spec => []IntactIsAccepted
<1>1. SentenceInv => IntactIsAccepted
  BY DEF SentenceInv, IntactIsAccepted, Whole, Size
<1> QED BY <1>1, AlwaysSentenceInv, PTL
=============================================================================
