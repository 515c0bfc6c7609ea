--------------------------- MODULE ReadingsProofs ---------------------------
(***************************************************************************)
(* What the app shows of a measurement, proved for every value the         *)
(* receiver and the sensor can give.                                       *)
(***************************************************************************)
EXTENDS Readings, TLAPS, FiniteSetTheorems, SequenceTheorems, WellFoundedInduction

-----------------------------------------------------------------------------
(* Induction on natural numbers, by the least counterexample, and folds over *)
(* a sequence, as a value after each of its elements.                        *)

Less == {ss \in Nat \X Nat : ss[1] < ss[2]}

LEMMA LessIsWellFounded == IsWellFoundedOn(Less, Nat)
  BY NatLessThanWellFounded DEF OpToRel, Less

LEMMA LeastElement ==
  ASSUME NEW T \in SUBSET Nat, T # {}
  PROVE  \E n \in T : \A m \in T : n <= m
<1>1. \E n \in T : \A m \in T : ~ <<m, n>> \in Less
  BY LessIsWellFounded, WFMin
<1>2. PICK n \in T : \A m \in T : ~ <<m, n>> \in Less
  BY <1>1
<1>3. \A m \in T : ~ (m < n)
  BY <1>2 DEF Less
<1> QED BY <1>3

LEMMA InductionUpTo ==
  ASSUME NEW n \in Nat, NEW S, 0 \in S, \A k \in 0 .. n - 1 : k \in S => k + 1 \in S
  PROVE  0 .. n \subseteq S
<1> SUFFICES ASSUME (0 .. n) \ S # {} PROVE FALSE
  OBVIOUS
<1>1. PICK k \in (0 .. n) \ S : \A m \in (0 .. n) \ S : k <= m
  <2>1. (0 .. n) \ S \in SUBSET Nat
    OBVIOUS
  <2> QED BY <2>1, LeastElement
<1>2. k - 1 \in 0 .. n - 1 /\ k = (k - 1) + 1 /\ ~ k <= k - 1 /\ k - 1 \in 0 .. n
  BY <1>1
<1>3. k - 1 \in S
  BY <1>1, <1>2
<1> QED BY <1>1, <1>2, <1>3

LEMMA GreatestOf ==
  ASSUME NEW n \in Nat, NEW s \in SUBSET (1 .. n), s # {}
  PROVE  Max(s) \in s /\ \A i \in s : Max(s) >= i
<1> DEFINE T == {m \in Nat : \A i \in s : i <= m}
<1>1. n \in T
  OBVIOUS
<1>2. PICK m \in T : \A l \in T : m <= l
  <2>1. T \in SUBSET Nat /\ T # {}
    BY <1>1
  <2> HIDE DEF T
  <2> QED BY <2>1, LeastElement
<1>3. m \in s
  <2> SUFFICES ASSUME m \notin s PROVE FALSE
    OBVIOUS
  <2>1. PICK i \in s : TRUE
    OBVIOUS
  <2>2. m - 1 \in Nat /\ \A j \in s : j <= m - 1
    BY <1>2, <2>1
  <2>3. m - 1 \in T
    BY <2>2
  <2>4. ~ m <= m - 1
    BY <1>2
  <2> QED BY <1>2, <2>3, <2>4
<1>4. \A i \in s : m >= i
  BY <1>2
<1>5. \E x \in s : \A y \in s : x >= y
  BY <1>3, <1>4
<1> QED BY <1>5 DEF Max

LEMMA GreatestOfInterval ==
  ASSUME NEW n \in Nat, NEW k \in 1 .. n, NEW s \in SUBSET (1 .. k), k \in s
  PROVE  Max(s) = k
<1>1. k \in Nat /\ s # {}
  OBVIOUS
<1>2. Max(s) \in s /\ Max(s) >= k
  BY <1>1, GreatestOf
<1>3. Max(s) \in 1 .. k
  BY <1>2
<1> QED BY <1>2, <1>3

\* The fold of F[1], F[2], ... exists, though it is defined on every set of indices.
FoldsTo(iter, base, F, n) ==
  iter = [s \in SUBSET (1 .. n) |-> IF s = {} THEN base ELSE F[Max(s)][iter[s \ {Max(s)}]]]

LEMMA FoldExists ==
  ASSUME NEW n \in Nat, NEW V, NEW base \in V, NEW F \in [1 .. n -> [V -> V]]
  PROVE  \E iter \in [SUBSET (1 .. n) -> V] : FoldsTo(iter, base, F, n)
<1> DEFINE S == {k \in 0 .. n : \E iter \in [SUBSET (1 .. k) -> V] : FoldsTo(iter, base, F, k)}
<1>1. 0 \in S
  <2>1. SUBSET (1 .. 0) = {{}}
    OBVIOUS
  <2> DEFINE g == [s \in SUBSET (1 .. 0) |-> base]
  <2>2. g \in [SUBSET (1 .. 0) -> V] /\ FoldsTo(g, base, F, 0)
    BY <2>1 DEF FoldsTo
  <2> QED BY <2>2
<1>2. ASSUME NEW k \in 0 .. n - 1, k \in S
      PROVE  k + 1 \in S
  <2>1. k \in Nat /\ k + 1 \in 1 .. n /\ k + 1 \in 0 .. n
    OBVIOUS
  <2>2. PICK g \in [SUBSET (1 .. k) -> V] : FoldsTo(g, base, F, k)
    BY <1>2
  <2> DEFINE h == [s \in SUBSET (1 .. k + 1) |->
                     IF k + 1 \in s THEN F[k + 1][g[s \ {k + 1}]] ELSE g[s]]
             H(s) == IF s = {} THEN base ELSE F[Max(s)][h[s \ {Max(s)}]]
  <2>3. ASSUME NEW s \in SUBSET (1 .. k + 1)
        PROVE  h[s] \in V /\ h[s] = H(s)
    <3>1. s \ {k + 1} \in SUBSET (1 .. k)
      BY <2>1
    <3>2. CASE k + 1 \in s
      <4>1. Max(s) = k + 1 /\ s # {}
        BY <2>1, <3>2, GreatestOfInterval
      <4>2. h[s] = F[k + 1][g[s \ {k + 1}]] /\ h[s \ {k + 1}] = g[s \ {k + 1}]
        BY <3>1, <3>2
      <4>3. g[s \ {k + 1}] \in V /\ F[k + 1] \in [V -> V]
        BY <2>1, <2>2, <3>1
      <4> QED BY <4>1, <4>2, <4>3
    <3>3. CASE k + 1 \notin s
      <4>1. s \in SUBSET (1 .. k) /\ h[s] = g[s] /\ g[s] \in V
        BY <3>1, <3>3, <2>2
      <4>2. CASE s = {}
        <5>1. g[s] = base
          BY <2>2, <4>1, <4>2 DEF FoldsTo
        <5> QED BY <4>1, <4>2, <5>1
      <4>3. CASE s # {}
        <5>1. s \ {Max(s)} \in SUBSET (1 .. k) /\ k + 1 \notin s \ {Max(s)}
          BY <3>3, <4>1
        <5>2. h[s \ {Max(s)}] = g[s \ {Max(s)}]
          BY <5>1
        <5>3. g[s] = F[Max(s)][g[s \ {Max(s)}]]
          BY <2>2, <4>1, <4>3 DEF FoldsTo
        <5> QED BY <4>1, <4>3, <5>2, <5>3
      <4> QED BY <4>2, <4>3
    <3> QED BY <3>2, <3>3
  <2>4. h = [s \in SUBSET (1 .. k + 1) |-> h[s]] /\ DOMAIN h = SUBSET (1 .. k + 1)
    OBVIOUS
  <2> HIDE DEF h
  <2>5. h \in [SUBSET (1 .. k + 1) -> V]
    BY <2>3, <2>4
  <2>6. h = [s \in SUBSET (1 .. k + 1) |-> H(s)]
    BY <2>3, <2>4
  <2>7. FoldsTo(h, base, F, k + 1)
    BY <2>6 DEF FoldsTo
  <2> QED BY <2>1, <2>5, <2>7
<1> HIDE DEF S
<1>3. 0 .. n \subseteq S
  BY <1>1, <1>2, InductionUpTo
<1>4. n \in S
  BY <1>3
<1> QED BY <1>4 DEF S

\* The set of the first k indices, which a fold comes to after k elements.
LEMMA FirstIndices ==
  ASSUME NEW n \in Nat, NEW k \in 1 .. n
  PROVE  /\ 1 .. k \in SUBSET (1 .. n) /\ 1 .. k # {} /\ Max(1 .. k) = k
         /\ (1 .. k) \ {k} = 1 .. k - 1 /\ k - 1 \in 0 .. n
<1>1. k \in 1 .. k /\ (1 .. k) \ {k} = 1 .. k - 1 /\ k - 1 \in 0 .. n
  OBVIOUS
<1>2. Max(1 .. k) = k
  BY <1>1, GreatestOfInterval
<1> QED BY <1>1, <1>2

-----------------------------------------------------------------------------
(* Numerals.                                                                 *)

\* The value of a numeral after each of its digits.
LEMMA NumeralSteps ==
  ASSUME NEW d, NEW n \in Nat, DOMAIN d = 1 .. n, \A i \in 1 .. n : d[i] \in Nat
  PROVE  \E v \in [0 .. n -> Nat] :
           /\ v[0] = 0 /\ Numeral(d) = v[n]
           /\ \A k \in 1 .. n : v[k] = 10 * v[k - 1] + d[k]
<1> DEFINE F == [k \in 1 .. n |-> [x \in Nat |-> 10 * x + d[k]]]
           G(iter) == [s \in SUBSET (1 .. n) |->
                         IF s = {} THEN 0 ELSE 10 * iter[s \ {Max(s)}] + d[Max(s)]]
           it == CHOOSE iter : iter = G(iter)
<1>1. F \in [1 .. n -> [Nat -> Nat]]
  OBVIOUS
<1>2. PICK g \in [SUBSET (1 .. n) -> Nat] : FoldsTo(g, 0, F, n)
  BY <1>1, FoldExists
<1>3. ASSUME NEW f \in [SUBSET (1 .. n) -> Nat], NEW s \in SUBSET (1 .. n), s # {}
      PROVE  F[Max(s)][f[s \ {Max(s)}]] = 10 * f[s \ {Max(s)}] + d[Max(s)]
  <2>1. Max(s) \in 1 .. n /\ s \ {Max(s)} \in SUBSET (1 .. n)
    BY <1>3, GreatestOf
  <2>2. f[s \ {Max(s)}] \in Nat
    BY <2>1
  <2> QED BY <2>1, <2>2
<1>4. g = G(g)
  BY <1>2, <1>3 DEF FoldsTo
<1> HIDE DEF G, F
<1>5. it = G(it)
  BY <1>4
<1>6. Numeral(d) = it[1 .. n]
  BY DEF Numeral, FoldLeft, MapThenFoldSet, G
<1> HIDE DEF it
<1> DEFINE v == [k \in 0 .. n |-> it[1 .. k]]
<1>7. v[0] = 0
  <2>1. 1 .. 0 = {} /\ {} \in SUBSET (1 .. n)
    OBVIOUS
  <2>2. it[{}] = 0
    BY <1>5, <2>1 DEF G
  <2> QED BY <2>1, <2>2
<1>8. ASSUME NEW k \in 1 .. n
      PROVE  v[k] = 10 * v[k - 1] + d[k]
  <2>1. /\ 1 .. k \in SUBSET (1 .. n) /\ 1 .. k # {} /\ Max(1 .. k) = k
        /\ (1 .. k) \ {k} = 1 .. k - 1 /\ k - 1 \in 0 .. n
    BY FirstIndices
  <2>2. \A s \in SUBSET (1 .. n) :
          s # {} => it[s] = 10 * it[s \ {Max(s)}] + d[Max(s)]
    BY <1>5 DEF G
  <2>3. it[1 .. k] = 10 * it[(1 .. k) \ {Max(1 .. k)}] + d[Max(1 .. k)]
    BY <2>1, <2>2
  <2>4. v[k] = it[1 .. k] /\ v[k - 1] = it[1 .. k - 1]
    BY <2>1
  <2> HIDE DEF v
  <2> QED BY <2>1, <2>3, <2>4
<1> HIDE DEF v
<1>9. \A k \in 0 .. n : v[k] \in Nat
  <2> DEFINE S == {k \in 0 .. n : v[k] \in Nat}
  <2>1. 0 \in S
    BY <1>7
  <2>2. \A k \in 0 .. n - 1 : k \in S => k + 1 \in S
    <3> SUFFICES ASSUME NEW k \in 0 .. n - 1, v[k] \in Nat
                 PROVE  k + 1 \in 0 .. n /\ v[k + 1] \in Nat
      OBVIOUS
    <3>1. k + 1 \in 1 .. n /\ k = (k + 1) - 1
      OBVIOUS
    <3>2. v[k + 1] = 10 * v[k] + d[k + 1]
      BY <1>8, <3>1
    <3> QED BY <3>1, <3>2
  <2>3. 0 .. n \subseteq S
    <3> HIDE DEF S
    <3> QED BY <2>1, <2>2, InductionUpTo
  <2> QED BY <2>3
<1>10. v \in [0 .. n -> Nat] /\ Numeral(d) = v[n]
  BY <1>6, <1>9 DEF v
<1> QED BY <1>7, <1>8, <1>10

LEMMA PowersOfTen ==
  /\ 10 ^ 0 = 1 /\ 10 ^ 1 = 10 /\ 10 ^ 2 = 100 /\ 10 ^ 3 = 1000 /\ 10 ^ 4 = 10000
  /\ 10 ^ 5 = 100000 /\ 10 ^ 6 = 1000000
  BY SMT

LEMMA TenTimes ==
  ASSUME NEW i \in 0 .. 5
  PROVE  10 ^ (i + 1) = 10 * 10 ^ i /\ 10 ^ i \in Nat \ {0} /\ 10 ^ (i + 1) \in Nat \ {0}
<1>1. i = 0 \/ i = 1 \/ i = 2 \/ i = 3 \/ i = 4 \/ i = 5
  BY SMT
<1>2. CASE i = 0
  BY <1>2, PowersOfTen
<1>3. CASE i = 1
  BY <1>3, PowersOfTen
<1>4. CASE i = 2
  BY <1>4, PowersOfTen
<1>5. CASE i = 3
  BY <1>5, PowersOfTen
<1>6. CASE i = 4
  BY <1>6, PowersOfTen
<1>7. CASE i = 5
  BY <1>7, PowersOfTen
<1> QED BY <1>1, <1>2, <1>3, <1>4, <1>5, <1>6, <1>7

LEMMA PowerOfTen ==
  ASSUME NEW i \in 0 .. 6
  PROVE  10 ^ i \in Nat \ {0}
<1>1. CASE i = 0
  BY <1>1, PowersOfTen
<1>2. CASE i \in 1 .. 6
  <2>1. i - 1 \in 0 .. 5 /\ i = (i - 1) + 1
    BY <1>2
  <2>2. 10 ^ ((i - 1) + 1) \in Nat \ {0}
    BY <2>1, TenTimes
  <2>3. 10 ^ i = 10 ^ ((i - 1) + 1)
    BY <2>1, Zenon
  <2> QED BY <2>2, <2>3
<1> QED BY <1>1, <1>2

LEMMA DivideByTen ==
  ASSUME NEW m \in Nat, NEW e \in Nat \ {0}
  PROVE  m \div e = 10 * (m \div (10 * e)) + ((m \div e) % 10)
<1>1. m \div (10 * e) = (m \div e) \div 10
  BY SMTT(30)
<1>2. m \div e \in Nat
  BY SMT
<1>3. \A x \in Nat : x = 10 * (x \div 10) + (x % 10)
  BY SMT
<1> QED BY <1>1, <1>2, <1>3

LEMMA DigitsSeq ==
  ASSUME NEW m \in Nat, NEW w \in 0 .. 6
  PROVE  /\ DOMAIN Digits(m, w) = 1 .. w /\ Len(Digits(m, w)) = w
         /\ Digits(m, w) \in Seq(Nat)
         /\ \A i \in 1 .. w : /\ Digits(m, w)[i] \in Nat
                              /\ Digits(m, w)[i] = (m \div 10 ^ (w - i)) % 10
<1>1. ASSUME NEW i \in 1 .. w
      PROVE  (m \div 10 ^ (w - i)) % 10 \in Nat
  <2>1. w - i \in 0 .. 5
    BY SMT
  <2>2. 10 ^ (w - i) \in Nat \ {0}
    BY <2>1, TenTimes
  <2>3. \A e \in Nat \ {0} : (m \div e) % 10 \in Nat
    BY SMT
  <2> QED BY <2>2, <2>3
<1>2. Digits(m, w) = [i \in 1 .. w |-> (m \div 10 ^ (w - i)) % 10]
  BY DEF Digits
<1> DEFINE f == Digits(m, w)
<1>3. DOMAIN f = 1 .. w /\ \A i \in 1 .. w : f[i] = (m \div 10 ^ (w - i)) % 10
  BY <1>2
<1>4. f \in [1 .. w -> Nat]
  BY <1>1, <1>2
<1> HIDE DEF f
<1>5. f \in Seq(Nat) /\ Len(f) = w
  BY <1>4
<1>6. \A i \in 1 .. w : f[i] \in Nat
  BY <1>4
<1> QED BY <1>3, <1>5, <1>6 DEF f

\* A number that fits its width reads as it was written.
LEMMA NumeralOfDigits ==
  ASSUME NEW w \in 0 .. 6, NEW m \in Nat, m < 10 ^ w
  PROVE  Numeral(Digits(m, w)) = m
<1> DEFINE d == Digits(m, w)
<1>1. /\ w \in Nat /\ DOMAIN d = 1 .. w
      /\ \A i \in 1 .. w : d[i] \in Nat /\ d[i] = (m \div 10 ^ (w - i)) % 10
  <2>1. w \in Nat
    OBVIOUS
  <2> HIDE DEF d
  <2> QED BY <2>1, DigitsSeq DEF d
<1> HIDE DEF d
<1>2. PICK v \in [0 .. w -> Nat] :
        /\ v[0] = 0 /\ Numeral(d) = v[w]
        /\ \A k \in 1 .. w : v[k] = 10 * v[k - 1] + d[k]
  BY <1>1, NumeralSteps
<1> DEFINE S == {k \in 0 .. w : v[k] = m \div 10 ^ (w - k)}
<1>3. 0 \in S
  <2>1. 10 ^ w \in Nat \ {0}
    BY PowerOfTen
  <2>2. \A e \in Nat \ {0} : m < e => m \div e = 0
    BY SMT
  <2>3. w - 0 = w /\ 0 \in 0 .. w
    BY SMT
  <2> QED BY <1>2, <2>1, <2>2, <2>3
<1>4. \A k \in 0 .. w - 1 : k \in S => k + 1 \in S
  <2> SUFFICES ASSUME NEW k \in 0 .. w - 1, v[k] = m \div 10 ^ (w - k)
               PROVE  k + 1 \in 0 .. w /\ v[k + 1] = m \div 10 ^ (w - (k + 1))
    OBVIOUS
  <2> DEFINE i == w - (k + 1)
  <2>1. i \in 0 .. 5 /\ w - k = i + 1 /\ k + 1 \in 1 .. w /\ (k + 1) - 1 = k /\ k + 1 \in 0 .. w
    BY SMT
  <2> HIDE DEF i
  <2>2. v[k + 1] = 10 * v[k] + d[k + 1] /\ d[k + 1] = (m \div 10 ^ i) % 10
    BY <1>1, <1>2, <2>1 DEF i
  <2>3. 10 ^ (i + 1) = 10 * 10 ^ i /\ 10 ^ i \in Nat \ {0}
    BY <2>1, TenTimes
  <2>4. m \div 10 ^ i = 10 * (m \div (10 * 10 ^ i)) + ((m \div 10 ^ i) % 10)
    BY <2>3, DivideByTen
  <2>5. v[k] = m \div (10 * 10 ^ i)
    BY <2>1, <2>3
  <2>6. v[k + 1] = m \div 10 ^ i
    BY <2>2, <2>4, <2>5
  <2> QED BY <2>1, <2>6 DEF i
<1> HIDE DEF S
<1>5. w \in S
  <2>1. 0 .. w \subseteq S
    BY <1>1, <1>3, <1>4, InductionUpTo
  <2> QED BY <1>1, <2>1
<1>6. v[w] = m \div 10 ^ (w - w)
  BY <1>5 DEF S
<1>7. 10 ^ (w - w) = 1 /\ m \div 1 = m
  <2>1. w - w = 0
    BY SMT
  <2> QED BY <2>1, PowersOfTen, SMT
<1> QED BY <1>2, <1>6, <1>7 DEF d

\* Powers of ten, by name.
TenTo(i) == 10 ^ i

\* The whole part, and the decimals, of a number with p of them.
Whole(n, p) == Magnitude(n) \div TenTo(p)
Part(n, p) == Magnitude(n) % TenTo(p)

LEMMA TenToIs ==
  /\ TenTo(0) = 1 /\ TenTo(1) = 10 /\ TenTo(2) = 100 /\ TenTo(3) = 1000 /\ TenTo(4) = 10000
  /\ TenTo(5) = 100000 /\ TenTo(6) = 1000000
  BY PowersOfTen DEF TenTo

\* What the parsers find in a number written with w digits and p decimals.
FieldHolds(n, w, p) ==
  /\ Written(n, w, p).negative = (n < 0)
  /\ Len(Written(n, w, p).whole) = w
  /\ Numeral(Written(n, w, p).whole) = Whole(n, p)
  /\ KeptDecimals(Written(n, w, p)) = Written(n, w, p).decimals
  /\ Len(Written(n, w, p).decimals) = p
  /\ p = 0 => Written(n, w, p).decimals = <<>>
  /\ p > 0 => Written(n, w, p).decimals # <<>>
  /\ Numeral(Written(n, w, p).decimals) = Part(n, p)
  /\ IsNumber(Written(n, w, p))

LEMMA WrittenField ==
  ASSUME NEW n \in Int, NEW w \in 1 .. 6, NEW p \in 0 .. 6, Whole(n, p) < TenTo(w)
  PROVE  FieldHolds(n, w, p)
<1> USE DEF TenTo, Whole, Part
<1> DEFINE f == Written(n, w, p)
           big == Magnitude(n) \div 10 ^ p
           small == Magnitude(n) % 10 ^ p
<1>1. f.negative = (n < 0) /\ f.whole = Digits(big, w) /\ f.decimals = Digits(small, p)
  BY DEF Written
<1>2. 10 ^ p \in Nat \ {0}
  BY PowerOfTen
<1>3. big \in Nat /\ small \in Nat /\ small < 10 ^ p
  <2>1. Magnitude(n) \in Nat
    BY DEF Magnitude
  <2>2. \A e \in Nat \ {0}, m \in Nat : m \div e \in Nat /\ m % e \in Nat /\ m % e < e
    BY SMT
  <2> QED BY <1>2, <2>1, <2>2
<1> HIDE DEF f, big, small
<1>4. big < 10 ^ w
  BY DEF big
<1>5. w \in 0 .. 6
  OBVIOUS
<1>6. /\ DOMAIN f.whole = 1 .. w /\ Len(f.whole) = w /\ f.whole \in Seq(Nat) /\ Numeral(f.whole) = big
  <2>1. f.whole = Digits(big, w) /\ Numeral(Digits(big, w)) = big
    BY <1>1, <1>3, <1>4, <1>5, NumeralOfDigits
  <2>2. /\ DOMAIN Digits(big, w) = 1 .. w /\ Len(Digits(big, w)) = w
        /\ Digits(big, w) \in Seq(Nat)
    BY <1>3, <1>5, DigitsSeq
  <2> QED BY <2>1, <2>2
<1>7. /\ DOMAIN f.decimals = 1 .. p /\ Len(f.decimals) = p /\ f.decimals \in Seq(Nat)
      /\ Numeral(f.decimals) = small
  BY <1>1, <1>3, DigitsSeq, NumeralOfDigits
<1>8. KeptDecimals(f) = f.decimals
  <2>1. (IF Len(f.decimals) < 9 THEN Len(f.decimals) ELSE 9) = Len(f.decimals)
    BY <1>7
  <2>2. SubSeq(f.decimals, 1, Len(f.decimals)) = f.decimals
    BY <1>7
  <2> QED BY <2>1, <2>2 DEF KeptDecimals
<1>9. (p = 0 => f.decimals = <<>>) /\ (p > 0 => f.decimals # <<>>)
  BY <1>7
<1>10. IsNumber(f)
  <2>1. \A a, b \in Seq(Nat) : Len(a) > 0 => a \o b # <<>>
    BY ConcatProperties, EmptySeq
  <2>2. w > 0 /\ w <= 18
    BY SMT
  <2>3. f.whole \o f.decimals # <<>>
    BY <1>6, <1>7, <2>1, <2>2
  <2> QED BY <1>6, <2>2, <2>3 DEF IsNumber
<1> QED BY <1>1, <1>6, <1>7, <1>8, <1>9, <1>10 DEF f, big, small, FieldHolds

\* A fraction of no more decimals than are asked for keeps its value.
LEMMA FractionWritten ==
  ASSUME NEW n \in Int, NEW w \in 1 .. 6, NEW p \in 0 .. 6, Whole(n, p) < TenTo(w),
         NEW target \in Nat, p <= target
  PROVE  Fraction(Written(n, w, p), target) = Part(n, p) * TenTo(target - p)
<1> USE DEF TenTo, Whole, Part
<1> DEFINE f == Written(n, w, p)
<1>1. /\ Len(f.decimals) = p /\ KeptDecimals(f) = f.decimals
      /\ Numeral(f.decimals) = Magnitude(n) % 10 ^ p
  <2>1. FieldHolds(n, w, p)
    BY WrittenField, Zenon
  <2> QED BY <2>1, Zenon DEF FieldHolds
<1> HIDE DEF f
<1>2. Fraction(f, target) = RescaleFraction(Magnitude(n) % 10 ^ p, p, target)
  BY <1>1, Zenon DEF Fraction
<1>3. RescaleFraction(Magnitude(n) % 10 ^ p, p, target) = (Magnitude(n) % 10 ^ p) * 10 ^ (target - p)
  BY Zenon DEF RescaleFraction
<1> QED BY <1>2, <1>3, Zenon DEF f

\* A number of at most three decimals reads in thousandths.
LEMMA NumberRead ==
  ASSUME NEW n \in Int, NEW w \in 1 .. 6, NEW p \in 0 .. 3, Whole(n, p) < TenTo(w)
  PROVE  ParseNumber(Written(n, w, p)) = Read(n * TenTo(3 - p))
<1> USE DEF TenTo, Whole, Part
<1>1. p \in 0 .. 6 /\ 3 \in Nat /\ p <= 3 /\ Magnitude(n) \in Nat
  BY DEF Magnitude
<1> DEFINE f == Written(n, w, p)
           v == (Magnitude(n) \div 10 ^ p) * 1000 + (Magnitude(n) % 10 ^ p) * 10 ^ (3 - p)
<1>2. ParseNumber(f) = Read(IF n < 0 THEN -v ELSE v)
  <2>1. IsNumber(f) /\ f.negative = (n < 0) /\ Numeral(f.whole) = Magnitude(n) \div 10 ^ p
    BY <1>1, WrittenField DEF FieldHolds
  <2>2. Fraction(f, 3) = (Magnitude(n) % 10 ^ p) * 10 ^ (3 - p)
    BY <1>1, FractionWritten
  <2> HIDE DEF f
  <2>3. Numeral(f.whole) * 1000 + Fraction(f, 3) = v
    BY <2>1, <2>2
  <2> HIDE DEF v
  <2>4. Negated(f, v) = IF n < 0 THEN -v ELSE v
    BY <2>1 DEF Negated
  <2> QED BY <2>1, <2>3, <2>4 DEF ParseNumber
<1> HIDE DEF f
<1>3. v = Magnitude(n) * 10 ^ (3 - p)
  <2> DEFINE x == Magnitude(n)
  <2>1. /\ x = 1 * (x \div 1) + (x % 1) /\ x = 10 * (x \div 10) + (x % 10)
        /\ x = 100 * (x \div 100) + (x % 100) /\ x = 1000 * (x \div 1000) + (x % 1000)
        /\ x \div 1 \in Nat /\ x \div 10 \in Nat /\ x \div 100 \in Nat /\ x \div 1000 \in Nat
        /\ x % 1 = 0 /\ x % 10 \in Nat /\ x % 100 \in Nat /\ x % 1000 \in Nat
    <3> HIDE DEF x
    <3> QED BY <1>1, SMT DEF x
  <2> HIDE DEF x
  <2>2. CASE p = 0
    <3>1. 3 - p = 3
      BY <2>2
    <3>2. (x \div 1) * 1000 + (x % 1) * 1000 = x * 1000
      BY <2>1
    <3> QED BY <2>2, <3>1, <3>2, PowersOfTen DEF x
  <2>3. CASE p = 1
    <3>1. 3 - p = 2
      BY <2>3
    <3>2. (x \div 10) * 1000 + (x % 10) * 100 = x * 100
      BY <2>1
    <3> QED BY <2>3, <3>1, <3>2, PowersOfTen DEF x
  <2>4. CASE p = 2
    <3>1. 3 - p = 1
      BY <2>4
    <3>2. (x \div 100) * 1000 + (x % 100) * 10 = x * 10
      BY <2>1
    <3> QED BY <2>4, <3>1, <3>2, PowersOfTen DEF x
  <2>5. CASE p = 3
    <3>1. 3 - p = 0
      BY <2>5
    <3>2. (x \div 1000) * 1000 + (x % 1000) * 1 = x * 1
      BY <2>1
    <3> QED BY <2>5, <3>1, <3>2, PowersOfTen DEF x
  <2> QED BY <2>2, <2>3, <2>4, <2>5
<1>4. Magnitude(n) = IF n < 0 THEN -n ELSE n
  BY DEF Magnitude
<1>5. \A e \in Int : (n < 0 => -((-n) * e) = n * e)
  BY SMT
<1>6. 10 ^ (3 - p) \in Int
  <2>1. 3 - p \in 0 .. 5
    BY SMT
  <2> QED BY <2>1, TenTimes
<1>7. (IF n < 0 THEN -v ELSE v) = n * 10 ^ (3 - p)
  <2> HIDE DEF v
  <2> QED BY <1>3, <1>4, <1>5, <1>6
<1> HIDE DEF v
<1> QED BY <1>2, <1>7 DEF f

\* The same with a count of decimals that is given.
LEMMA PositiveField ==
  ASSUME NEW n \in Nat, NEW w \in 1 .. 6, NEW p \in 1 .. 6, Whole(n, p) < TenTo(w)
  PROVE  /\ Written(n, w, p).negative = FALSE
         /\ Len(Written(n, w, p).whole) = w
         /\ Numeral(Written(n, w, p).whole) = Whole(n, p)
         /\ Len(Written(n, w, p).decimals) = p
         /\ Written(n, w, p).decimals # <<>>
         /\ IsNumber(Written(n, w, p))
<1>0. n \in Int /\ p \in 0 .. 6 /\ p > 0
  OBVIOUS
<1>1. FieldHolds(n, w, p)
  BY <1>0, WrittenField, Zenon
<1>2. Len(Written(n, w, p).whole) = w
  BY <1>1, Zenon DEF FieldHolds
<1>3. Written(n, w, p).negative = FALSE
  <2>1. Written(n, w, p).negative = (n < 0)
    BY <1>1, Zenon DEF FieldHolds
  <2>2. (n < 0) = FALSE
    OBVIOUS
  <2> QED BY <2>1, <2>2, Zenon
<1>4. Numeral(Written(n, w, p).whole) = Whole(n, p)
  BY <1>1, Zenon DEF FieldHolds
<1>5. Len(Written(n, w, p).decimals) = p
  BY <1>1, Zenon DEF FieldHolds
<1>6. Written(n, w, p).decimals # <<>>
  BY <1>0, <1>1, Zenon DEF FieldHolds
<1>7. IsNumber(Written(n, w, p))
  BY <1>1, Zenon DEF FieldHolds
<1> QED BY <1>2, <1>3, <1>4, <1>5, <1>6, <1>7, Zenon

LEMMA WrittenFive ==
  ASSUME NEW n \in Nat, NEW w \in {4, 5}, Whole(n, 5) < TenTo(w)
  PROVE  /\ Written(n, w, 5).negative = FALSE
         /\ Len(Written(n, w, 5).whole) = w
         /\ Numeral(Written(n, w, 5).whole) = Whole(n, 5)
         /\ Len(Written(n, w, 5).decimals) = 5
         /\ Written(n, w, 5).decimals # <<>>
         /\ IsNumber(Written(n, w, 5))
         /\ Fraction(Written(n, w, 5), 7) = Part(n, 5) * TenTo(7 - 5)
<1>1. n \in Int /\ w \in 1 .. 6 /\ 5 \in 1 .. 6 /\ 5 \in 0 .. 6 /\ 7 \in Nat /\ 5 <= 7
  OBVIOUS
<1>2. /\ Written(n, w, 5).negative = FALSE
      /\ Len(Written(n, w, 5).whole) = w
      /\ Numeral(Written(n, w, 5).whole) = Whole(n, 5)
      /\ Len(Written(n, w, 5).decimals) = 5
      /\ Written(n, w, 5).decimals # <<>>
      /\ IsNumber(Written(n, w, 5))
  BY <1>1, PositiveField, Zenon
<1>3. Fraction(Written(n, w, 5), 7) = Part(n, 5) * TenTo(7 - 5)
  BY <1>1, FractionWritten, Zenon
<1> QED BY <1>2, <1>3, Zenon

LEMMA WholeAndPart ==
  ASSUME NEW n \in Nat
  PROVE  /\ Whole(n, 0) = n /\ Part(n, 0) = 0
         /\ Whole(n, 2) = n \div 100 /\ Part(n, 2) = n % 100
         /\ Whole(n, 5) = n \div 100000 /\ Part(n, 5) = n % 100000
<1>1. Magnitude(n) = n
  BY DEF Magnitude
<1>2. n \div 1 = n /\ n % 1 = 0
  OBVIOUS
<1>3. /\ Whole(n, 0) = n \div TenTo(0) /\ Part(n, 0) = n % TenTo(0)
      /\ Whole(n, 2) = n \div TenTo(2) /\ Part(n, 2) = n % TenTo(2)
      /\ Whole(n, 5) = n \div TenTo(5) /\ Part(n, 5) = n % TenTo(5)
  BY <1>1 DEF Whole, Part
<1> QED BY <1>2, <1>3, TenToIs, SMT

-----------------------------------------------------------------------------
(* The steps.                                                                *)

\* What is shown of a kind is shown by that kind's action.
LEMMA KindOfStep ==
  ASSUME Next
  PROVE  /\ kind' = "position" => Position
         /\ kind' = "time" => Time
         /\ kind' = "altitude" => Altitude
         /\ kind' = "speed" => Speed
         /\ kind' = "bearing" => Bearing
         /\ kind' = "dilution" => Dilution
         /\ kind' = "quality" => Quality
         /\ kind' = "status" => Status
         /\ kind' = "rate" => SampleRate
         /\ kind' = "motion" => Motion
         /\ kind' = "pose" => Characterize
         /\ kind' = "frame" => Configure \/ Damage
<1>1. Position => kind' = "position"
  BY DEF Position, Once, Show
<1>2. Time => kind' = "time"
  BY DEF Time, Once, Show
<1>3. Altitude => kind' = "altitude"
  BY DEF Altitude, Measure, Show
<1>4. Speed => kind' = "speed"
  BY DEF Speed, Measure, Show
<1>5. Bearing => kind' = "bearing"
  BY DEF Bearing, Once, Show
<1>6. Dilution => kind' = "dilution"
  BY DEF Dilution, Once, Show
<1>7. Quality => kind' = "quality"
  BY DEF Quality, Once, Show
<1>8. Status => kind' = "status"
  BY DEF Status, Once, Show
<1>9. SampleRate => kind' = "rate"
  BY DEF SampleRate, Once, Show
<1>10. Motion => kind' = "motion"
  BY DEF Motion, Moved, Once, Show
<1>11. Characterize => kind' = "pose"
  BY DEF Characterize, Show
<1>12. Configure => kind' = "frame"
  BY DEF Configure, Once, Show
<1>13. Damage => kind' = "frame"
  BY DEF Damage, Once, Show
<1>14. Again => kind' = "none"
  BY DEF Again, Show
<1> QED
  BY <1>1, <1>2, <1>3, <1>4, <1>5, <1>6, <1>7, <1>8, <1>9, <1>10, <1>11, <1>12, <1>13, <1>14
     DEF Next

-----------------------------------------------------------------------------
(* Altitudes and speeds.                                                     *)

\* The app's reading of an altitude, and of a speed, after the packet.
AltitudeShown(mm) == ShownAltitude(EncodeAltitude(mm, TRUE))
SpeedShown(v) == ShownSpeed(EncodeSpeed(v, TRUE))

\* The altitudes for which the packet has a number of its own.
SentAltitudes == {mm \in Int : mm < CoarseAltitudeCeiling - 500}

\* What their numbers say.
AltitudeRead(mm) ==
  IF mm <= FineAltitudeCeiling
  THEN AltitudeFloor + RoundClamp(mm - AltitudeFloor, 100, 0, FifteenBits) * 100
  ELSE AltitudeFloor + RoundClamp(mm - AltitudeFloor, 1000, 0, FifteenBits) * 1000

LEMMA AltitudeIsRead ==
  ASSUME NEW mm \in Int
  PROVE  /\ mm \in SentAltitudes => AltitudeShown(mm) = AltitudeRead(mm)
         /\ mm \notin SentAltitudes => AltitudeShown(mm) = Unknown
  BY SMTT(60) DEF AltitudeShown, AltitudeRead, SentAltitudes, FineAltitudeCeiling, CoarseAltitudeCeiling,
         AltitudeFloor, ShownAltitude, EncodeAltitude, InvalidAltitude, RoundClamp, Nearest, Clamp,
         FifteenBits, Coarse

LEMMA AltitudeResolution ==
  ASSUME NEW mm \in SentAltitudes
  PROVE  /\ AltitudeRead(mm) \in Int
         /\ Magnitude(AltitudeRead(mm) - Clamp(mm, AltitudeFloor, CoarseAltitudeCeiling))
              <= IF mm <= FineAltitudeCeiling THEN 50 ELSE 500
  BY SMTT(60) DEF AltitudeRead, SentAltitudes, FineAltitudeCeiling, CoarseAltitudeCeiling, AltitudeFloor,
         Magnitude, RoundClamp, Nearest, Clamp, FifteenBits

LEMMA AltitudeOrder ==
  ASSUME NEW m \in SentAltitudes, NEW n \in SentAltitudes, m <= n
  PROVE  AltitudeRead(m) <= AltitudeRead(n)
  BY SMTT(60) DEF AltitudeRead, SentAltitudes, FineAltitudeCeiling, CoarseAltitudeCeiling, AltitudeFloor,
         RoundClamp, Nearest, Clamp, FifteenBits

\* The speeds for which the packet has a number of its own.
SentSpeeds == {v \in Nat : v < 3276650000}

LEMMA SpeedResolution ==
  ASSUME NEW v \in SentSpeeds
  PROVE  /\ SpeedShown(v) \in Int
         /\ Magnitude(SpeedShown(v) - v) <= IF v <= FineSpeedCeiling THEN 5000 ELSE 50000
  BY SMTT(60) DEF SentSpeeds, SpeedShown, FineSpeedCeiling, Magnitude, ShownSpeed, EncodeSpeed, InvalidSpeed,
         RoundClamp, Nearest, Clamp, FifteenBits, Coarse

LEMMA SpeedOrder ==
  ASSUME NEW m \in SentSpeeds, NEW n \in SentSpeeds, m <= n
  PROVE  SpeedShown(m) <= SpeedShown(n)
  BY SMTT(60) DEF SentSpeeds, SpeedShown, FineSpeedCeiling, ShownSpeed, EncodeSpeed, InvalidSpeed,
         RoundClamp, Nearest, Clamp, FifteenBits, Coarse

\* Nothing is read from an empty field.
LEMMA EmptyIsRefused == ParseNumber(EmptyField).ok = FALSE
<1>1. EmptyField.whole \o EmptyField.decimals = <<>>
  BY DEF EmptyField
<1>2. ~IsNumber(EmptyField)
  BY <1>1 DEF IsNumber
<1> QED BY <1>2 DEF ParseNumber, Refused

\* A value that is not valid shows as unknown.
LEMMA InvalidIsUnknown ==
  ASSUME NEW n
  PROVE  /\ ShownAltitude(EncodeAltitude(n, FALSE)) = Unknown
         /\ ShownSpeed(EncodeSpeed(n, FALSE)) = Unknown
         /\ ShownBearing(EncodeBearing(n, FALSE)) = Unknown
         /\ ShownDop(EncodeDop(n, FALSE)) = Unknown
  BY DEF ShownAltitude, EncodeAltitude, ShownSpeed, EncodeSpeed, ShownBearing, EncodeBearing,
         ShownDop, EncodeDop

\* The altitude shown is the one given, where the packet has a number for it.
AltitudeGiven(value, seen) ==
  \/ value = Unknown /\ seen = Unknown
  \/ value \in Int /\ value \notin SentAltitudes /\ seen = Unknown
  \/ value \in SentAltitudes /\ seen = AltitudeRead(value)

LEMMA AltitudeStep ==
  ASSUME Altitude
  PROVE  AltitudeGiven(given'.value, shown')
<1>1. CASE \E a \in Altitudes : Measure("altitude", [value |-> 100 * a], AltitudeOf(Written(a, 5, 1), 1))
  <2>1. PICK a \in Altitudes : Measure("altitude", [value |-> 100 * a], AltitudeOf(Written(a, 5, 1), 1))
    BY <1>1
  <2>2. a \in Int /\ Whole(a, 1) < TenTo(5)
    <3>1. a \in Int /\ Magnitude(a) < 1000000
      BY MeasurementAssumption
    <3> QED BY <3>1, TenToIs, SMT DEF Whole, Magnitude
  <2>3. ParseNumber(Written(a, 5, 1)) = Read(100 * a)
    <3>1. ParseNumber(Written(a, 5, 1)) = Read(a * TenTo(3 - 1))
      BY <2>2, NumberRead
    <3>2. a * TenTo(3 - 1) = 100 * a
      BY <2>2, TenToIs
    <3> QED BY <3>1, <3>2
  <2>4. AltitudeOf(Written(a, 5, 1), 1) = AltitudeShown(100 * a)
    <3>1. (1 > 0 /\ Read(100 * a).ok) = TRUE /\ Read(100 * a).value = 100 * a
      BY DEF Read
    <3> QED BY <2>3, <3>1 DEF AltitudeOf, AltitudeShown
  <2>5. given'.value = 100 * a /\ shown' = AltitudeShown(100 * a)
    BY <2>1, <2>4 DEF Measure, Show
  <2>6. 100 * a \in Int
    BY <2>2
  <2> QED BY <2>5, <2>6, AltitudeIsRead DEF AltitudeGiven
<1>2. CASE \E a \in Altitudes : Measure("altitude", [value |-> Unknown], AltitudeOf(Written(a, 5, 1), 0))
  <2>1. PICK a \in Altitudes : Measure("altitude", [value |-> Unknown], AltitudeOf(Written(a, 5, 1), 0))
    BY <1>2
  <2>2. AltitudeOf(Written(a, 5, 1), 0) = Unknown
    <3>1. (0 > 0 /\ ParseNumber(Written(a, 5, 1)).ok) = FALSE
      OBVIOUS
    <3> QED BY <3>1, InvalidIsUnknown, Zenon DEF AltitudeOf
  <2> QED BY <2>1, <2>2 DEF Measure, Show, AltitudeGiven
<1>3. CASE Measure("altitude", [value |-> Unknown], AltitudeOf(EmptyField, 1))
  <2>1. AltitudeOf(EmptyField, 1) = Unknown
    <3>1. (1 > 0 /\ ParseNumber(EmptyField).ok) = FALSE
      BY EmptyIsRefused
    <3> QED BY <3>1, InvalidIsUnknown, Zenon DEF AltitudeOf
  <2> QED BY <1>3, <2>1 DEF Measure, Show, AltitudeGiven
<1> QED BY <1>1, <1>2, <1>3 DEF Altitude

\* And so is the speed.
SpeedGiven(value, seen) ==
  \/ value = Unknown /\ seen = Unknown
  \/ value \in SentSpeeds /\ seen = SpeedShown(value)

LEMMA SpeedStep ==
  ASSUME Speed
  PROVE  SpeedGiven(given'.value, shown')
<1>1. CASE \E v \in Speeds : Measure("speed", [value |-> KnotsToKph(v)], SpeedOf(Written(v, 3, 3)))
  <2>1. PICK v \in Speeds : Measure("speed", [value |-> KnotsToKph(v)], SpeedOf(Written(v, 3, 3)))
    BY <1>1
  <2>2. v \in Nat /\ v < 1000000
    BY MeasurementAssumption
  <2>3. v \in Int /\ Whole(v, 3) < TenTo(3)
    BY <2>2, TenToIs, SMT DEF Whole, Magnitude
  <2>4. ParseNumber(Written(v, 3, 3)) = Read(v)
    <3>1. ParseNumber(Written(v, 3, 3)) = Read(v * TenTo(3 - 3))
      BY <2>3, NumberRead
    <3>2. v * TenTo(3 - 3) = v
      BY <2>3, TenToIs
    <3> QED BY <3>1, <3>2
  <2>5. SpeedOf(Written(v, 3, 3)) = SpeedShown(KnotsToKph(v))
    <3>1. (Read(v).ok /\ Read(v).value >= 0) = TRUE /\ Read(v).value = v
      BY <2>2 DEF Read
    <3> QED BY <2>4, <3>1 DEF SpeedOf, SpeedShown
  <2>6. given'.value = KnotsToKph(v) /\ shown' = SpeedShown(KnotsToKph(v))
    BY <2>1, <2>5 DEF Measure, Show
  <2>7. KnotsToKph(v) \in SentSpeeds
    BY <2>2, SMT DEF KnotsToKph, SentSpeeds
  <2> QED BY <2>6, <2>7 DEF SpeedGiven
<1>2. CASE Measure("speed", [value |-> Unknown], SpeedOf(EmptyField))
  <2>1. SpeedOf(EmptyField) = Unknown
    <3>1. (ParseNumber(EmptyField).ok /\ ParseNumber(EmptyField).value >= 0) = FALSE
      BY EmptyIsRefused
    <3> QED BY <3>1, InvalidIsUnknown, Zenon DEF SpeedOf
  <2> QED BY <1>2, <2>1 DEF Measure, Show, SpeedGiven
<1> QED BY <1>1, <1>2 DEF Speed

-----------------------------------------------------------------------------
(* Bearings, dilutions, counts and rates.                                    *)

\* What the app shows is a number.
LEMMA NumberIsKnown == ASSUME NEW n \in Int PROVE n # Unknown
  BY UnknownAssumption

LEMMA BearingStep ==
  ASSUME Bearing
  PROVE  IF given'.value = Unknown THEN shown' = Unknown
         ELSE shown' # Unknown /\ Magnitude(shown' - (given'.value % 360000)) <= 5
<1>1. CASE \E b \in Bearings : Once("bearing", [value |-> 10 * b], BearingOf(Written(b, 3, 2)))
  <2>1. PICK b \in Bearings : Once("bearing", [value |-> 10 * b], BearingOf(Written(b, 3, 2)))
    BY <1>1
  <2>2. b \in Nat /\ b <= 36000
    BY MeasurementAssumption
  <2>3. b \in Int /\ Whole(b, 2) < TenTo(3)
    BY <2>2, TenToIs, SMT DEF Whole, Magnitude
  <2>4. ParseNumber(Written(b, 3, 2)) = Read(10 * b)
    <3>1. ParseNumber(Written(b, 3, 2)) = Read(b * TenTo(3 - 2))
      BY <2>3, NumberRead
    <3>2. b * TenTo(3 - 2) = 10 * b
      BY <2>3, TenToIs
    <3> QED BY <3>1, <3>2
  <2> DEFINE s == ShownBearing(EncodeBearing(10 * b, TRUE))
  <2>5. BearingOf(Written(b, 3, 2)) = s
    <3>1. Read(10 * b).ok = TRUE /\ Read(10 * b).value = 10 * b
      BY DEF Read
    <3> QED BY <2>4, <3>1 DEF BearingOf
  <2>6. s \in Int /\ Magnitude(s - ((10 * b) % 360000)) <= 5
    BY <2>2, SMTT(60) DEF ShownBearing, EncodeBearing, InvalidBearing, RoundClamp, Nearest, Clamp, Magnitude
  <2> HIDE DEF s
  <2>7. given'.value = 10 * b /\ shown' = s
    BY <2>1, <2>5 DEF Once, Show
  <2>8. 10 * b # Unknown /\ s # Unknown
    BY <2>3, <2>6, NumberIsKnown
  <2> QED BY <2>6, <2>7, <2>8
<1>2. CASE Once("bearing", [value |-> Unknown], BearingOf(EmptyField))
  <2>1. BearingOf(EmptyField) = Unknown
    BY EmptyIsRefused, InvalidIsUnknown, Zenon DEF BearingOf
  <2> QED BY <1>2, <2>1 DEF Once, Show
<1> QED BY <1>1, <1>2 DEF Bearing

LEMMA DilutionStep ==
  ASSUME Dilution
  PROVE  IF given'.value = Unknown THEN shown' = Unknown
         ELSE \/ shown' # Unknown /\ Magnitude(shown' - given'.value) <= 50
              \/ given'.value > 25400 /\ shown' = 25400
<1>1. CASE \E d \in Dops : Once("dilution", [value |-> 10 * d], DopOf(Written(d, 2, 2)))
  <2>1. PICK d \in Dops : Once("dilution", [value |-> 10 * d], DopOf(Written(d, 2, 2)))
    BY <1>1
  <2>2. d \in Nat /\ d < 10000
    BY MeasurementAssumption
  <2>3. d \in Int /\ Whole(d, 2) < TenTo(2)
    BY <2>2, TenToIs, SMT DEF Whole, Magnitude
  <2>4. ParseNumber(Written(d, 2, 2)) = Read(10 * d)
    <3>1. ParseNumber(Written(d, 2, 2)) = Read(d * TenTo(3 - 2))
      BY <2>3, NumberRead
    <3>2. d * TenTo(3 - 2) = 10 * d
      BY <2>3, TenToIs
    <3> QED BY <3>1, <3>2
  <2> DEFINE e == EncodeDop(10 * d, TRUE)
             s == ShownDop(e)
  <2>5. DopOf(Written(d, 2, 2)) = s
    <3>1. (Read(10 * d).ok /\ Read(10 * d).value >= 0) = TRUE /\ Read(10 * d).value = 10 * d
      BY <2>2 DEF Read
    <3> QED BY <2>4, <3>1 DEF DopOf
  <2>6. /\ e \in 0 .. 254
        /\ Magnitude(e * 100 - 10 * d) <= 50 \/ (10 * d > 25400 /\ e = 254)
    BY <2>2, SMTT(60) DEF EncodeDop, InvalidDop, RoundClamp, Nearest, Clamp, Magnitude
  <2>7. s = IF e = 255 THEN Unknown ELSE e * 100
    BY Zenon DEF ShownDop, InvalidDop
  <2>8. given'.value = 10 * d /\ shown' = s
    BY <2>1, <2>5 DEF Once, Show
  <2> HIDE DEF e, s
  <2>9. s = e * 100 /\ s \in Int
    BY <2>6, <2>7
  <2>10. 10 * d # Unknown /\ s # Unknown
    BY <2>3, <2>9, NumberIsKnown
  <2> QED BY <2>6, <2>8, <2>9, <2>10
<1>2. CASE Once("dilution", [value |-> Unknown], DopOf(EmptyField))
  <2>1. DopOf(EmptyField) = Unknown
    <3>1. (ParseNumber(EmptyField).ok /\ ParseNumber(EmptyField).value >= 0) = FALSE
      BY EmptyIsRefused
    <3> QED BY <3>1, InvalidIsUnknown, Zenon DEF DopOf
  <2> QED BY <1>2, <2>1 DEF Once, Show
<1> QED BY <1>1, <1>2 DEF Dilution

LEMMA QualityStep ==
  ASSUME Quality
  PROVE  shown' = [quality |-> Clamp(given'.quality, 0, 3),
                   satellites |-> IF given'.satellites = Unknown THEN Unknown
                                  ELSE Clamp(given'.satellites, 0, 62)]
<1>1. PICK q \in 0 .. 8 :
        \/ \E n \in Satellites :
             Once("quality", [satellites |-> n, quality |-> q], ShownQuality(EncodeQuality(q, n, TRUE)))
        \/ Once("quality", [satellites |-> Unknown, quality |-> q],
                ShownQuality(EncodeQuality(q, 0, FALSE)))
  BY DEF Quality
<1>2. CASE \E n \in Satellites :
             Once("quality", [satellites |-> n, quality |-> q], ShownQuality(EncodeQuality(q, n, TRUE)))
  <2>1. PICK n \in Satellites :
          Once("quality", [satellites |-> n, quality |-> q], ShownQuality(EncodeQuality(q, n, TRUE)))
    BY <1>2
  <2>2. n \in Nat
    BY MeasurementAssumption
  <2>3. /\ EncodeQuality(q, n, TRUE) % 64 = Clamp(n, 0, 62) /\ Clamp(n, 0, 62) # 63
        /\ EncodeQuality(q, n, TRUE) \div 64 = Clamp(q, 0, 3)
    BY <2>2, SMT DEF EncodeQuality, Clamp
  <2>4. n # Unknown
    BY <2>2, NumberIsKnown
  <2>5. ShownQuality(EncodeQuality(q, n, TRUE))
        = [quality |-> Clamp(q, 0, 3), satellites |-> Clamp(n, 0, 62)]
    BY <2>3 DEF ShownQuality, InvalidSatellites
  <2>6. given'.satellites = n /\ given'.quality = q /\ shown' = ShownQuality(EncodeQuality(q, n, TRUE))
    BY <2>1 DEF Once, Show
  <2> QED BY <2>4, <2>5, <2>6
<1>3. CASE Once("quality", [satellites |-> Unknown, quality |-> q],
                ShownQuality(EncodeQuality(q, 0, FALSE)))
  <2>1. EncodeQuality(q, 0, FALSE) % 64 = 63 /\ EncodeQuality(q, 0, FALSE) \div 64 = Clamp(q, 0, 3)
    BY SMT DEF EncodeQuality, Clamp, InvalidSatellites
  <2>2. ShownQuality(EncodeQuality(q, 0, FALSE)) = [quality |-> Clamp(q, 0, 3), satellites |-> Unknown]
    BY <2>1 DEF ShownQuality, InvalidSatellites
  <2> QED BY <1>3, <2>2 DEF Once, Show
<1> QED BY <1>1, <1>2, <1>3

\* No more than hertz samples come in a second, when the divider reaches that far.
LEMMA DividerReaches ==
  ASSUME NEW hertz \in Nat, NEW base \in {1000, 8000}, hertz * 256 >= base
  PROVE  /\ hertz > 0
         /\ hertz < base =>
              LET q == (base + hertz - 1) \div hertz
              IN  q \in 1 .. 256 /\ (base * 1000) \div q <= 1000 * hertz
<1>1. hertz > 0
  OBVIOUS
<1>2. ASSUME hertz < base
      PROVE  LET q == (base + hertz - 1) \div hertz
             IN  q \in 1 .. 256 /\ (base * 1000) \div q <= 1000 * hertz
  <2> DEFINE q == (base + hertz - 1) \div hertz
  <2>1. \A m \in Nat, n \in Nat : n > 0 => m \div n \in Nat /\ (m \div n) * n <= m /\ m < (m \div n) * n + n
    BY SMTT(30)
  <2>2. base + hertz - 1 \in Nat
    BY <1>1
  <2>3. q \in Nat /\ q * hertz <= base + hertz - 1 /\ base + hertz - 1 < q * hertz + hertz
    BY <1>1, <2>1, <2>2
  <2> HIDE DEF q
  <2>4. q * hertz >= base
    BY <2>3
  <2>5. q >= 1
    BY <1>1, <2>3, <2>4
  <2>6. q <= 256
    <3> SUFFICES ASSUME q >= 257 PROVE FALSE
      BY <2>3
    <3>1. q * hertz >= 257 * hertz
      BY <2>3, SMT
    <3> QED BY <2>3, <3>1
  <2>7. (base * 1000) \div q <= 1000 * hertz
    <3> DEFINE x == (base * 1000) \div q
    <3>1. x \in Nat /\ x * q <= base * 1000
      BY <2>1, <2>3, <2>5
    <3> HIDE DEF x
    <3>2. x * q <= 1000 * (q * hertz)
      BY <2>3, <2>4, <3>1
    <3>3. x * q <= (1000 * hertz) * q
      BY <2>3, <3>2, SMT
    <3>4. x <= 1000 * hertz
      BY <2>3, <2>5, <3>1, <3>3, SMT
    <3> QED BY <3>4 DEF x
  <2> QED BY <2>3, <2>5, <2>6, <2>7 DEF q
<1> QED BY <1>1, <1>2

LEMMA RateStep ==
  ASSUME SampleRate
  PROVE  given'.hertz * 256 >= BaseHz(given'.bypassed) => shown' <= 1000 * given'.hertz
<1>1. PICK hertz \in Rates, bypassed \in BOOLEAN :
        Once("rate", [hertz |-> hertz, bypassed |-> bypassed],
             OutputRate(SampleRateDivider(hertz, bypassed), bypassed))
  BY DEF SampleRate
<1> DEFINE base == BaseHz(bypassed)
<1>2. hertz \in Nat /\ base \in {1000, 8000}
  BY MeasurementAssumption DEF BaseHz
<1>3. given'.hertz = hertz /\ given'.bypassed = bypassed
      /\ shown' = (base * 1000) \div (SampleRateDivider(hertz, bypassed) + 1)
  BY <1>1 DEF Once, Show, OutputRate
<1> SUFFICES ASSUME hertz * 256 >= base
             PROVE  (base * 1000) \div (SampleRateDivider(hertz, bypassed) + 1) <= 1000 * hertz
  BY <1>3
<1> DEFINE d == SampleRateDivider(hertz, bypassed)
           q == (base + hertz - 1) \div hertz
<1>4. d = IF hertz = 0 THEN 255 ELSE IF hertz >= base THEN 0 ELSE Clamp(q - 1, 0, 255)
  BY DEF SampleRateDivider
<1> HIDE DEF base, d, q
<1>5. hertz > 0 /\ (hertz < base => q \in 1 .. 256 /\ (base * 1000) \div q <= 1000 * hertz)
  BY <1>2, DividerReaches DEF q
<1>6. CASE hertz >= base
  <2>1. d + 1 = 1 /\ (base * 1000) \div 1 = base * 1000
    BY <1>2, <1>4, <1>5, <1>6
  <2> QED BY <1>2, <1>6, <2>1 DEF d
<1>7. CASE hertz < base
  <2>1. d + 1 = q
    BY <1>2, <1>4, <1>5, <1>7 DEF Clamp
  <2> QED BY <1>5, <1>7, <2>1 DEF d
<1> QED BY <1>2, <1>6, <1>7

\* What is known shows to within half the last digit of the form it is sent in, and what
\* is not as unknown, for every altitude, speed, bearing, dilution, count and sample
\* rate; of the altitudes exactly those from half a metre below the highest coarse one
\* up, whose number is the sentinel, are lost as unknown too
\* (encodeAltitude, encodeSpeed, encodeBearing, encodeDop, sampleRateDivider).
THEOREM ResolutionKept == Spec => []ValuesWithinResolution
<1>1. Init => ValuesWithinResolution
  BY DEF Init, ValuesWithinResolution
<1>2. ValuesWithinResolution /\ [Next]_vars => ValuesWithinResolution'
  <2> SUFFICES ASSUME ValuesWithinResolution, [Next]_vars
               PROVE  ValuesWithinResolution'
    OBVIOUS
  <2>1. CASE Next
    <3>1. kind' = "altitude" =>
            IF given'.value = Unknown \/ given'.value >= CoarseAltitudeCeiling - 500
            THEN shown' = Unknown
            ELSE /\ shown' # Unknown
                 /\ Magnitude(shown' - Clamp(given'.value, AltitudeFloor, CoarseAltitudeCeiling))
                    <= IF given'.value <= FineAltitudeCeiling THEN 50 ELSE 500
      <4> SUFFICES ASSUME kind' = "altitude", given'.value # Unknown
                   PROVE  IF given'.value >= CoarseAltitudeCeiling - 500
                          THEN shown' = Unknown
                          ELSE /\ shown' # Unknown
                               /\ Magnitude(shown' - Clamp(given'.value, AltitudeFloor, CoarseAltitudeCeiling))
                                  <= IF given'.value <= FineAltitudeCeiling THEN 50 ELSE 500
        <5>1. kind' = "altitude" => AltitudeGiven(given'.value, shown')
          BY <2>1, KindOfStep, AltitudeStep
        <5>2. AltitudeGiven(given'.value, shown') /\ given'.value = Unknown => shown' = Unknown
          <6>1. Unknown \notin SentAltitudes
            BY UnknownAssumption DEF SentAltitudes
          <6> QED BY <6>1, Zenon DEF AltitudeGiven
        <5> QED BY <5>1, <5>2, Zenon
      <4>1. AltitudeGiven(given'.value, shown')
        BY <2>1, KindOfStep, AltitudeStep
      <4>2. CASE given'.value \in Int /\ given'.value \notin SentAltitudes /\ shown' = Unknown
        BY <4>2 DEF SentAltitudes, CoarseAltitudeCeiling
      <4>3. CASE given'.value \in SentAltitudes /\ shown' = AltitudeRead(given'.value)
        <5>1. given'.value \in Int /\ ~(given'.value >= CoarseAltitudeCeiling - 500)
          BY <4>3 DEF SentAltitudes, CoarseAltitudeCeiling
        <5>2. shown' # Unknown
          BY <4>3, AltitudeResolution, NumberIsKnown
        <5> QED BY <4>3, <5>1, <5>2, AltitudeResolution
      <4> QED BY <4>1, <4>2, <4>3 DEF AltitudeGiven
    <3>2. kind' = "speed" =>
            IF given'.value = Unknown THEN shown' = Unknown
            ELSE /\ shown' # Unknown
                 /\ Magnitude(shown' - given'.value)
                    <= IF given'.value <= FineSpeedCeiling THEN 5000 ELSE 50000
      <4> SUFFICES ASSUME kind' = "speed"
                   PROVE  IF given'.value = Unknown THEN shown' = Unknown
                          ELSE /\ shown' # Unknown
                               /\ Magnitude(shown' - given'.value)
                                  <= IF given'.value <= FineSpeedCeiling THEN 5000 ELSE 50000
        OBVIOUS
      <4>1. SpeedGiven(given'.value, shown')
        BY <2>1, KindOfStep, SpeedStep
      <4>2. CASE given'.value \in SentSpeeds /\ shown' = SpeedShown(given'.value)
        <5>1. given'.value # Unknown
          BY <4>2, NumberIsKnown DEF SentSpeeds
        <5>2. shown' # Unknown
          BY <4>2, SpeedResolution, NumberIsKnown
        <5> QED BY <4>2, <5>1, <5>2, SpeedResolution
      <4> QED BY <4>1, <4>2 DEF SpeedGiven
    <3>3. kind' = "bearing" =>
            IF given'.value = Unknown THEN shown' = Unknown
            ELSE shown' # Unknown /\ Magnitude(shown' - (given'.value % 360000)) <= 5
      BY <2>1, KindOfStep, BearingStep
    <3>4. kind' = "dilution" =>
            IF given'.value = Unknown THEN shown' = Unknown
            ELSE \/ shown' # Unknown /\ Magnitude(shown' - given'.value) <= 50
                 \/ given'.value > 25400 /\ shown' = 25400
      BY <2>1, KindOfStep, DilutionStep
    <3>5. kind' = "quality" =>
            shown' = [quality |-> Clamp(given'.quality, 0, 3),
                      satellites |-> IF given'.satellites = Unknown THEN Unknown
                                     ELSE Clamp(given'.satellites, 0, 62)]
      BY <2>1, KindOfStep, QualityStep
    <3>6. kind' = "rate" /\ given'.hertz * 256 >= BaseHz(given'.bypassed)
          => shown' <= 1000 * given'.hertz
      BY <2>1, KindOfStep, RateStep
    <3> QED BY <3>1, <3>2, <3>3, <3>4, <3>5, <3>6 DEF ValuesWithinResolution, Within
  <2>2. CASE UNCHANGED vars
    BY <2>2 DEF vars, ValuesWithinResolution, Within
  <2> QED BY <2>1, <2>2
<1> QED BY <1>1, <1>2, PTL DEF Spec

\* An altitude and a speed show as the packet's form of what was given.
ShownInOrder ==
  /\ kind = "altitude" => AltitudeGiven(given.value, shown)
  /\ kind = "speed" => SpeedGiven(given.value, shown)

\* Of two altitudes or speeds that the app has, the higher never shows as the lower one,
\* whichever forms they are sent in (encodeAltitude, encodeSpeed).
THEOREM OrderKept == Spec => OrderIsKept
<1>1. Init => ShownInOrder
  BY DEF Init, ShownInOrder
<1>2. ShownInOrder /\ [Next]_vars => ShownInOrder'
  <2> SUFFICES ASSUME ShownInOrder, [Next]_vars
               PROVE  ShownInOrder'
    OBVIOUS
  <2>1. CASE Next
    <3>1. kind' = "altitude" => AltitudeGiven(given'.value, shown')
      BY <2>1, KindOfStep, AltitudeStep
    <3>2. kind' = "speed" => SpeedGiven(given'.value, shown')
      BY <2>1, KindOfStep, SpeedStep
    <3> QED BY <3>1, <3>2 DEF ShownInOrder, AltitudeGiven, SpeedGiven
  <2>2. CASE UNCHANGED vars
    BY <2>2 DEF vars, ShownInOrder, AltitudeGiven, SpeedGiven
  <2> QED BY <2>1, <2>2
<1>3. ShownInOrder /\ ShownInOrder'
      => [/\ kind = kind' /\ kind \in {"altitude", "speed"}
          /\ shown # Unknown /\ shown' # Unknown
          /\ given.value <= given'.value
          => shown <= shown']_vars
  <2> SUFFICES ASSUME ShownInOrder, ShownInOrder', kind = kind', given.value <= given'.value,
                      shown # Unknown, shown' # Unknown, kind \in {"altitude", "speed"}
               PROVE  shown <= shown'
    OBVIOUS
  <2>1. CASE kind = "altitude"
    <3>1. AltitudeGiven(given.value, shown) /\ AltitudeGiven(given'.value, shown')
      BY <2>1 DEF ShownInOrder, AltitudeGiven
    <3>2. /\ given.value \in SentAltitudes /\ shown = AltitudeRead(given.value)
          /\ given'.value \in SentAltitudes /\ shown' = AltitudeRead(given'.value)
      BY <3>1 DEF AltitudeGiven
    <3> QED BY <3>2, AltitudeOrder
  <2>2. CASE kind = "speed"
    <3>1. SpeedGiven(given.value, shown) /\ SpeedGiven(given'.value, shown')
      BY <2>2 DEF ShownInOrder, SpeedGiven
    <3>2. /\ given.value \in SentSpeeds /\ shown = SpeedShown(given.value)
          /\ given'.value \in SentSpeeds /\ shown' = SpeedShown(given'.value)
      BY <3>1 DEF SpeedGiven
    <3> QED BY <3>2, SpeedOrder
  <2> QED BY <2>1, <2>2
<1> QED BY <1>1, <1>2, <1>3, PTL DEF Spec, OrderIsKept

-----------------------------------------------------------------------------
(* Positions.                                                                *)

\* Degrees and hundred-thousandths of minutes, in degrees times 10^7.
Degrees7(c) == c.degrees * 10000000 + (100 * c.minutes + 30) \div 60

LEMMA CoordinateInRange ==
  ASSUME NEW c \in Coordinates
  PROVE  /\ c.degrees \in Nat /\ c.minutes \in Nat /\ c.minutes < 6000000 /\ c.degrees <= 180
         /\ c.hemisphere \in {"N", "S", "E", "W"}
         /\ c.hemisphere \in {"N", "S"} => c.degrees <= 90
         /\ c.degrees = 180 => c.minutes = 0
<1>1. c \in [degrees : Nat, minutes : Nat, hemisphere : {"N", "S", "E", "W"}]
  BY MeasurementAssumption
<1>2. /\ c.degrees <= IF c.hemisphere \in {"N", "S"} THEN 90 ELSE 180
      /\ c.minutes < IF c.degrees = 180 THEN 1 ELSE 6000000
  BY MeasurementAssumption
<1>3. c.degrees \in Nat /\ c.minutes \in Nat /\ c.hemisphere \in {"N", "S", "E", "W"}
  BY <1>1
<1> QED BY <1>2, <1>3, SMT

LEMMA CoordinateRead ==
  ASSUME NEW c \in Coordinates
  PROVE  ParseCoordinate(CoordinateField(c), c.hemisphere)
           = Read(SignOf(c.hemisphere) * Degrees7(c))
<1> DEFINE a == c.degrees
           b == c.minutes
           w == IF c.hemisphere \in {"N", "S"} THEN 4 ELSE 5
           n == (a * 100 + b \div 100000) * 100000 + (b % 100000)
           f == CoordinateField(c)
<1>1. /\ a \in Nat /\ b \in Nat /\ b < 6000000 /\ a <= 180 /\ (a = 180 => b = 0)
      /\ c.hemisphere \in {"N", "S", "E", "W"} /\ (c.hemisphere \in {"N", "S"} => a <= 90)
  BY CoordinateInRange
<1>2. f = Written(n, w, 5)
  BY DEF CoordinateField
<1> HIDE DEF f
<1>3. w \in 1 .. 6 /\ (w = 4 \/ w = 5) /\ (w = 4 => a <= 90)
  BY <1>1
<1> HIDE DEF w
<1>4. /\ b \div 100000 \in 0 .. 59 /\ b % 100000 \in Nat
      /\ b = 100000 * (b \div 100000) + (b % 100000)
      /\ n \in Nat /\ n \div 100000 = a * 100 + b \div 100000 /\ n % 100000 = b % 100000
  <2> HIDE DEF a, b
  <2> QED BY <1>1, SMT
<1> HIDE DEF n
<1>5. n \in Int /\ Magnitude(n) = n /\ ~ n < 0
  BY <1>4 DEF Magnitude
<1>6. Whole(n, 5) = a * 100 + b \div 100000 /\ Part(n, 5) = b % 100000
  <2>1. n \in Nat
    BY <1>4
  <2>2. Whole(n, 5) = n \div 100000 /\ Part(n, 5) = n % 100000
    BY <2>1, WholeAndPart
  <2> HIDE DEF a, b
  <2> QED BY <1>4, <2>2, SMT
<1>7. Whole(n, 5) < TenTo(w)
  <2> HIDE DEF a, b
  <2>1. CASE w = 4
    BY <1>1, <1>3, <1>4, <1>6, <2>1, TenToIs, SMT
  <2>2. CASE w = 5
    BY <1>1, <1>3, <1>4, <1>6, <2>2, TenToIs, SMT
  <2> QED BY <1>3, <2>1, <2>2
<1>8. /\ f.negative = FALSE /\ Len(f.whole) = w /\ Numeral(f.whole) = a * 100 + b \div 100000
      /\ Len(f.decimals) = 5 /\ f.decimals # <<>> /\ IsNumber(f)
      /\ Fraction(f, 7) = (b % 100000) * 100
  <2>1. 7 - 5 = 2 /\ TenTo(2) = 100 /\ w \in {4, 5}
    BY <1>3, TenToIs
  <2>2. /\ f.negative = FALSE /\ Len(f.whole) = w /\ Numeral(f.whole) = Whole(n, 5)
        /\ Len(f.decimals) = 5 /\ f.decimals # <<>> /\ IsNumber(f)
        /\ Fraction(f, 7) = Part(n, 5) * TenTo(7 - 5)
    <3>1. n \in Nat
      BY <1>4
    <3> QED BY <1>2, <1>7, <2>1, <3>1, WrittenFive, Zenon
  <2> HIDE DEF a, b
  <2> QED BY <1>6, <2>1, <2>2, SMT
<1>9. FieldLength(f) >= 3
  BY <1>3, <1>8 DEF FieldLength
<1> DEFINE degrees == Numeral(f.whole) \div 100
           minutes == Numeral(f.whole) % 100
           total == degrees * 10000000 + (minutes * 10000000 + Fraction(f, 7) + 30) \div 60
<1>10. degrees = a /\ minutes = b \div 100000
  <2>1. \A x \in Nat, y \in 0 .. 59 : (x * 100 + y) \div 100 = x /\ (x * 100 + y) % 100 = y
    BY SMT
  <2>2. b \div 100000 \in 0 .. 59
    BY <1>4
  <2> DEFINE y == b \div 100000
  <2>4. a \in Nat /\ y \in 0 .. 59
    BY <1>1, <2>2
  <2> HIDE DEF a, y
  <2>3. (a * 100 + y) \div 100 = a /\ (a * 100 + y) % 100 = y
    BY <2>1, <2>4
  <2> QED BY <1>8, <2>3, SMT DEF y
<1>11. total = Degrees7(c) /\ Degrees7(c) <= 1800000000
  <2>1. total = a * 10000000 + ((b \div 100000) * 10000000 + (b % 100000) * 100 + 30) \div 60
    <3> HIDE DEF a, b
    <3> QED BY <1>8, <1>10, SMT
  <2>2. (b \div 100000) * 10000000 + (b % 100000) * 100 = 100 * b
    <3> HIDE DEF a, b
    <3> QED BY <1>1, <1>4, SMT
  <2>3. total = a * 10000000 + (100 * b + 30) \div 60
    <3> HIDE DEF total
    <3> QED BY <2>1, <2>2, SMT
  <2>4. a * 10000000 + (100 * b + 30) \div 60 <= 1800000000
    <3> HIDE DEF a, b
    <3> QED BY <1>1, SMT
  <2> HIDE DEF total
  <2> QED BY <2>3, <2>4, SMT DEF Degrees7
<1>12. ParseCoordinate(f, c.hemisphere) = Read(SignOf(c.hemisphere) * total)
  <2>1. minutes < 60 /\ degrees <= 180 /\ total <= 1800000000
    <3> HIDE DEF a, b, total, degrees, minutes
    <3> QED BY <1>1, <1>4, <1>10, <1>11, SMT
  <2>2. ParseCoordinate(f, c.hemisphere) =
          IF /\ FieldLength(f) >= 3 /\ IsNumber(f) /\ ~f.negative
             /\ minutes < 60 /\ degrees <= 180
             /\ c.hemisphere \in {"N", "E", "S", "W"} /\ total <= 1800000000
          THEN Read(SignOf(c.hemisphere) * total) ELSE Refused
    BY SMT DEF ParseCoordinate
  <2> HIDE DEF total, degrees, minutes
  <2> QED BY <1>1, <1>8, <1>9, <2>1, <2>2, SMT
<1> HIDE DEF total
<1> QED BY <1>11, <1>12, SMT DEF f

LEMMA PositionStep ==
  ASSUME Position
  PROVE  LET beyond == (IF given'.hemisphere \in {"S", "W"} THEN -shown' ELSE shown')
                       - given'.degrees * 10000000
         IN  Magnitude(60 * beyond - 100 * given'.minutes) <= 30
<1>1. PICK c \in Coordinates :
        LET read == ParseCoordinate(CoordinateField(c), c.hemisphere)
        IN  Once("position", c, IF read.ok THEN read.value ELSE InvalidCoordinate)
  BY DEF Position
<1>2. given' = c /\ shown' = SignOf(c.hemisphere) * Degrees7(c)
  <2>1. ParseCoordinate(CoordinateField(c), c.hemisphere)
          = [ok |-> TRUE, value |-> SignOf(c.hemisphere) * Degrees7(c)]
    BY CoordinateRead DEF Read
  <2> QED BY <1>1, <2>1, SMT DEF Once, Show
<1> DEFINE a == c.degrees
           b == c.minutes
<1>3. a \in Nat /\ b \in Nat
  BY CoordinateInRange
<1>4. /\ Degrees7(c) = a * 10000000 + (100 * b + 30) \div 60
      /\ (100 * b + 30) \div 60 \in Int
      /\ Magnitude(60 * ((100 * b + 30) \div 60) - 100 * b) <= 30
  <2>1. Degrees7(c) = a * 10000000 + (100 * b + 30) \div 60
    BY SMT DEF Degrees7
  <2> HIDE DEF a, b
  <2> QED BY <1>3, <2>1, SMT DEF Magnitude
<1>5. (IF c.hemisphere \in {"S", "W"} THEN -shown' ELSE shown') = Degrees7(c)
  <2>1. Degrees7(c) \in Int
    <3> HIDE DEF a, b
    <3> QED BY <1>3, <1>4, SMT
  <2> QED BY <1>2, <2>1, SMT DEF SignOf
<1>6. (IF c.hemisphere \in {"S", "W"} THEN -shown' ELSE shown') - a * 10000000
        = (100 * b + 30) \div 60
  <2> HIDE DEF a, b
  <2> QED BY <1>3, <1>4, <1>5, SMT
<1> HIDE DEF a, b
<1> QED BY <1>2, <1>4, <1>6, SMT DEF a, b

\* The position in the app is the one the receiver sent, to half a unit of
\* 10^-7 degrees, for every coordinate (parseCoordinate, encodeCoordinate).
THEOREM PositionKept == Spec => []PositionIsRead
<1>1. Init => PositionIsRead
  BY DEF Init, PositionIsRead
<1>2. PositionIsRead /\ [Next]_vars => PositionIsRead'
  <2> SUFFICES ASSUME PositionIsRead, [Next]_vars
               PROVE  PositionIsRead'
    OBVIOUS
  <2>1. CASE Next
    BY <2>1, KindOfStep, PositionStep, SMT DEF PositionIsRead
  <2>2. CASE UNCHANGED vars
    BY <2>2, SMT DEF vars, PositionIsRead
  <2> QED BY <2>1, <2>2
<1> QED BY <1>1, <1>2, PTL DEF Spec

-----------------------------------------------------------------------------
(* Times and dates.                                                          *)

LEMMA WrittenTwo ==
  ASSUME NEW n \in Nat, Whole(n, 2) < TenTo(6)
  PROVE  /\ Written(n, 6, 2).negative = FALSE
         /\ Len(Written(n, 6, 2).whole) = 6
         /\ Numeral(Written(n, 6, 2).whole) = Whole(n, 2)
         /\ Len(Written(n, 6, 2).decimals) = 2
         /\ Written(n, 6, 2).decimals # <<>>
         /\ IsNumber(Written(n, 6, 2))
         /\ Fraction(Written(n, 6, 2), 3) = Part(n, 2) * TenTo(3 - 2)
<1>1. n \in Int /\ 6 \in 1 .. 6 /\ 2 \in 1 .. 6 /\ 2 \in 0 .. 6 /\ 3 \in Nat /\ 2 <= 3
  OBVIOUS
<1>2. /\ Written(n, 6, 2).negative = FALSE
      /\ Len(Written(n, 6, 2).whole) = 6
      /\ Numeral(Written(n, 6, 2).whole) = Whole(n, 2)
      /\ Len(Written(n, 6, 2).decimals) = 2
      /\ Written(n, 6, 2).decimals # <<>>
      /\ IsNumber(Written(n, 6, 2))
  BY <1>1, PositiveField, Zenon
<1>3. Fraction(Written(n, 6, 2), 3) = Part(n, 2) * TenTo(3 - 2)
  BY <1>1, FractionWritten, Zenon
<1> QED BY <1>2, <1>3, Zenon

LEMMA WrittenNone ==
  ASSUME NEW n \in Nat, Whole(n, 0) < TenTo(6)
  PROVE  /\ Written(n, 6, 0).negative = FALSE
         /\ Len(Written(n, 6, 0).whole) = 6
         /\ Numeral(Written(n, 6, 0).whole) = Whole(n, 0)
         /\ Written(n, 6, 0).decimals = <<>>
<1>0. n \in Int /\ 6 \in 1 .. 6 /\ 0 \in 0 .. 6
  OBVIOUS
<1>1. FieldHolds(n, 6, 0)
  BY <1>0, WrittenField, Zenon
<1>2. Len(Written(n, 6, 0).whole) = 6
  BY <1>1, Zenon DEF FieldHolds
<1>3. Numeral(Written(n, 6, 0).whole) = Whole(n, 0)
  BY <1>1, Zenon DEF FieldHolds
<1>4. Written(n, 6, 0).decimals = <<>>
  BY <1>1, Zenon DEF FieldHolds
<1>5. Written(n, 6, 0).negative = FALSE
  <2>1. Written(n, 6, 0).negative = (n < 0)
    BY <1>1, Zenon DEF FieldHolds
  <2>2. (n < 0) = FALSE
    OBVIOUS
  <2> QED BY <2>1, <2>2, Zenon
<1> QED BY <1>2, <1>3, <1>4, <1>5, Zenon

LEMMA TimeRead ==
  ASSUME NEW c \in Clocks
  PROVE  ParseTimeOfDay(TimeField(c)) =
           [ok |-> TRUE, hour |-> c.hour, minute |-> c.minute,
            second |-> IF c.second = 60 THEN 59 ELSE c.second, millisecond |-> 10 * c.centisecond]
<1> DEFINE h == c.hour
           i == c.minute
           s == c.second
           e == c.centisecond
           n == h * 1000000 + i * 10000 + s * 100 + e
           m == h * 10000 + i * 100 + s
           f == TimeField(c)
<1>1. h \in 0 .. 23 /\ i \in 0 .. 59 /\ s \in 0 .. 60 /\ e \in 0 .. 99
  <2>1. c \in [hour : 0 .. 23, minute : 0 .. 59, second : 0 .. 60, centisecond : 0 .. 99]
    BY MeasurementAssumption
  <2> QED BY <2>1
<1>2. f = Written(n, 6, 2)
  BY DEF TimeField
<1> HIDE DEF f, h, i, s, e
<1>3. n \in Nat /\ n \div 100 = m /\ n % 100 = e /\ m \in Nat /\ m < 1000000
  BY <1>1, SMT
<1>4. m <= 235960 /\ m \div 10000 = h /\ (m \div 100) % 100 = i /\ m % 100 = s
  BY <1>1, SMT
<1> HIDE DEF n, m
<1>5. Whole(n, 2) = m /\ Part(n, 2) = e
  BY <1>3, WholeAndPart
<1>6. Whole(n, 2) < TenTo(6)
  BY <1>3, <1>5, TenToIs, SMT
<1>7. /\ f.negative = FALSE /\ Len(f.whole) = 6 /\ Numeral(f.whole) = m
      /\ Len(f.decimals) = 2 /\ f.decimals # <<>> /\ IsNumber(f)
      /\ Fraction(f, 3) = 10 * e
  <2>1. n \in Nat
    BY <1>3
  <2>2. /\ f.negative = FALSE /\ Len(f.whole) = 6 /\ Numeral(f.whole) = Whole(n, 2)
        /\ Len(f.decimals) = 2 /\ f.decimals # <<>> /\ IsNumber(f)
        /\ Fraction(f, 3) = Part(n, 2) * TenTo(3 - 2)
    BY <1>2, <1>6, <2>1, WrittenTwo, Zenon
  <2>3. 3 - 2 = 1 /\ TenTo(1) = 10 /\ e \in Nat
    BY <1>1, TenToIs
  <2> QED BY <1>5, <2>2, <2>3, SMT
<1>8. FieldLength(f) >= 6
  BY <1>7 DEF FieldLength
<1>9. Second(m) = (IF s = 60 THEN 59 ELSE s) /\ Clamp(10 * e, 0, 999) = 10 * e
  BY <1>1, <1>4, SMT DEF Second, Clamp
<1> DEFINE q == Numeral(f.whole)
           accepted == /\ FieldLength(f) >= 6 /\ IsNumber(f) /\ ~f.negative /\ q <= 235960
                       /\ q \div 10000 <= 23 /\ (q \div 100) % 100 <= 59 /\ q % 100 <= 60
           read == [ok |-> TRUE, hour |-> q \div 10000, minute |-> (q \div 100) % 100,
                    second |-> Second(q), millisecond |-> Clamp(Fraction(f, 3), 0, 999)]
<1>10. ParseTimeOfDay(f) = IF accepted THEN read ELSE NoTimeOfDay
  BY SMT DEF ParseTimeOfDay
<1>11. q = m /\ f.negative = FALSE /\ IsNumber(f) /\ Fraction(f, 3) = 10 * e
  BY <1>7
<1>12. accepted
  <2> HIDE DEF q
  <2> QED BY <1>1, <1>4, <1>8, <1>11, SMT
<1>13. read = [ok |-> TRUE, hour |-> h, minute |-> i,
               second |-> IF s = 60 THEN 59 ELSE s, millisecond |-> 10 * e]
  <2> HIDE DEF q
  <2> DEFINE qh == q \div 10000
             qi == (q \div 100) % 100
             qe == Clamp(Fraction(f, 3), 0, 999)
  <2>1. qh = h /\ qi = i /\ Second(q) = (IF s = 60 THEN 59 ELSE s) /\ qe = 10 * e
    BY <1>4, <1>9, <1>11, SMT
  <2>2. read = [ok |-> TRUE, hour |-> qh, minute |-> qi, second |-> Second(q), millisecond |-> qe]
    OBVIOUS
  <2> HIDE DEF qh, qi, qe, read
  <2> QED BY <2>1, <2>2, Zenon
<1> HIDE DEF accepted, read
<1>14. ParseTimeOfDay(f) =
         [ok |-> TRUE, hour |-> h, minute |-> i,
          second |-> IF s = 60 THEN 59 ELSE s, millisecond |-> 10 * e]
  BY <1>10, <1>12, <1>13
<1> QED BY <1>14 DEF f, h, i, s, e

LEMMA DateRead ==
  ASSUME NEW d \in Dates
  PROVE  ParseDate(DateField(d)) = [ok |-> TRUE, year |-> d.year, month |-> d.month, day |-> d.day]
<1> DEFINE y == d.year
           o == d.month
           a == d.day
           n == a * 10000 + o * 100 + (y % 100)
           f == DateField(d)
<1>1. y \in 2000 .. 2099 /\ o \in 1 .. 12 /\ a \in 1 .. 31
  <2>1. d \in [year : 2000 .. 2099, month : 1 .. 12, day : 1 .. 31]
    BY MeasurementAssumption
  <2> QED BY <2>1
<1>2. f = Written(n, 6, 0)
  BY DEF DateField
<1> HIDE DEF f, y, o, a
<1>3. n \in Nat /\ n < 1000000
  BY <1>1, SMT
<1>4. n \div 10000 = a /\ (n \div 100) % 100 = o /\ 2000 + (n % 100) = y
  BY <1>1, SMT
<1> HIDE DEF n
<1>5. Whole(n, 0) = n
  BY <1>3, WholeAndPart
<1>6. Whole(n, 0) < TenTo(6)
  BY <1>3, <1>5, TenToIs, SMT
<1>7. f.negative = FALSE /\ Len(f.whole) = 6 /\ Numeral(f.whole) = n /\ f.decimals = <<>>
  <2>1. n \in Nat
    BY <1>3
  <2> QED BY <1>2, <1>5, <1>6, <2>1, WrittenNone, Zenon
<1>8. FieldLength(f) = 6
  BY <1>7 DEF FieldLength
<1>9. ParseUnsigned(f) = [ok |-> TRUE, value |-> n]
  BY <1>7, SMT DEF ParseUnsigned, Read
<1> DEFINE nd == n \div 10000
           nm == (n \div 100) % 100
           ny == 2000 + (n % 100)
<1>10. ParseDate(f) = IF FieldLength(f) = 6 /\ nd \in 1 .. 31 /\ nm \in 1 .. 12
                      THEN [ok |-> TRUE, year |-> ny, month |-> nm, day |-> nd]
                      ELSE NoDateRead
  BY <1>9, SMT DEF ParseDate
<1>11. nd = a /\ nm = o /\ ny = y
  BY <1>4
<1> HIDE DEF nd, nm, ny
<1>12. ParseDate(f) = [ok |-> TRUE, year |-> ny, month |-> nm, day |-> nd]
  BY <1>1, <1>8, <1>10, <1>11, SMT
<1>13. ParseDate(f) = [ok |-> TRUE, year |-> y, month |-> o, day |-> a]
  BY <1>11, <1>12, Zenon
<1> QED BY <1>13 DEF f, y, o, a

LEMMA ClockAndDate ==
  ASSUME NEW c \in Clocks, NEW d \in Dates
  PROVE  /\ c.hour \in 0 .. 23 /\ c.minute \in 0 .. 59 /\ c.second \in 0 .. 60
         /\ c.centisecond \in 0 .. 99
         /\ d.year \in 2000 .. 2099 /\ d.month \in 1 .. 12 /\ d.day \in 1 .. 31
<1>1. /\ c \in [hour : 0 .. 23, minute : 0 .. 59, second : 0 .. 60, centisecond : 0 .. 99]
      /\ d \in [year : 2000 .. 2099, month : 1 .. 12, day : 1 .. 31]
  BY MeasurementAssumption
<1> QED BY <1>1

\* No two hours look the same.
LEMMA HourShown ==
  ASSUME NEW c \in Clocks, NEW d \in Dates
  PROVE  ShownHour(EncodeDateAndHour(d.year, d.month, d.day, c.hour))
           = [year |-> d.year, month |-> d.month, day |-> d.day, hour |-> c.hour]
<1> DEFINE y == d.year
           o == d.month
           a == d.day
           h == c.hour
           v == (y - 2000) * 8928 + (o - 1) * 744 + (a - 1) * 24 + h
<1>1. y \in 2000 .. 2099 /\ o \in 1 .. 12 /\ a \in 1 .. 31 /\ h \in 0 .. 23
  BY ClockAndDate
<1> HIDE DEF y, o, a, h
<1>2. EncodeDateAndHour(y, o, a, h) = v
  BY <1>1, SMT DEF EncodeDateAndHour
<1>3. v \div 8928 = y - 2000 /\ v % 8928 = (o - 1) * 744 + (a - 1) * 24 + h
  BY <1>1, SMT
<1>4. (v % 8928) \div 744 = o - 1
  BY <1>1, <1>3, SMT
<1>5. v % 744 = (a - 1) * 24 + h
  BY <1>1, SMT
<1>6. (v % 744) \div 24 = a - 1
  BY <1>1, <1>5, SMT
<1>7. v % 24 = h
  BY <1>1, SMT
<1> HIDE DEF v
<1>8. 2000 + v \div 8928 = y /\ ((v % 8928) \div 744) + 1 = o /\ ((v % 744) \div 24) + 1 = a
  BY <1>1, <1>3, <1>4, <1>6, SMT
<1>9. ShownHour(v) = [year |-> y, month |-> o, day |-> a, hour |-> h]
  BY <1>7, <1>8, SMT DEF ShownHour
<1> QED BY <1>2, <1>9 DEF y, o, a, h

LEMMA TimeShown ==
  ASSUME NEW c \in Clocks, NEW d \in Dates, NEW second \in 0 .. 59
  PROVE  ShownMillisecond(EncodeTimeSinceHourStart(c.minute, second, 10 * c.centisecond))
           = (c.minute * 60 + second) * 1000 + 10 * c.centisecond
<1> DEFINE i == c.minute
           e == c.centisecond
<1>1. i \in 0 .. 59 /\ e \in 0 .. 99
  BY ClockAndDate
<1> HIDE DEF i, e
<1>2. ShownMillisecond(EncodeTimeSinceHourStart(i, second, 10 * e)) = (i * 60 + second) * 1000 + 10 * e
  BY <1>1, SMT DEF ShownMillisecond, EncodeTimeSinceHourStart, Clamp
<1> QED BY <1>2 DEF i, e

LEMMA TimeStep ==
  ASSUME Time
  PROVE  LET c == given'.clock
             second == IF c.second = 60 THEN 59 ELSE c.second
         IN  /\ ShownMillisecond(shown'.sinceHour)
                  = (c.minute * 60 + second) * 1000 + 10 * c.centisecond
             /\ ShownHour(shown'.hour) = [year |-> given'.date.year, month |-> given'.date.month,
                                          day |-> given'.date.day, hour |-> c.hour]
<1>1. PICK c \in Clocks, d \in Dates :
        LET t == ParseTimeOfDay(TimeField(c))
            date == ParseDate(DateField(d))
        IN  Once("time", [clock |-> c, date |-> d],
                 [sinceHour |-> EncodeTimeSinceHourStart(t.minute, t.second, t.millisecond),
                  hour |-> EncodeDateAndHour(date.year, date.month, date.day, t.hour)])
  BY DEF Time
<1> DEFINE second == IF c.second = 60 THEN 59 ELSE c.second
<1>2. c.second \in 0 .. 60
  BY ClockAndDate
<1>3. second \in 0 .. 59
  BY <1>2
<1>4. /\ given' = [clock |-> c, date |-> d]
      /\ shown' = [sinceHour |-> EncodeTimeSinceHourStart(c.minute, second, 10 * c.centisecond),
                   hour |-> EncodeDateAndHour(d.year, d.month, d.day, c.hour)]
  <2> DEFINE t == ParseTimeOfDay(TimeField(c))
             date == ParseDate(DateField(d))
  <2>1. /\ t.minute = c.minute /\ t.second = second /\ t.millisecond = 10 * c.centisecond
        /\ t.hour = c.hour
    BY TimeRead, SMT
  <2>2. date.year = d.year /\ date.month = d.month /\ date.day = d.day
    BY DateRead, SMT
  <2>3. /\ given' = [clock |-> c, date |-> d]
        /\ shown' = [sinceHour |-> EncodeTimeSinceHourStart(t.minute, t.second, t.millisecond),
                     hour |-> EncodeDateAndHour(date.year, date.month, date.day, t.hour)]
    BY <1>1 DEF Once, Show
  <2> HIDE DEF t, date, second
  <2> QED BY <2>1, <2>2, <2>3
<1>5. ShownMillisecond(shown'.sinceHour) = (c.minute * 60 + second) * 1000 + 10 * c.centisecond
  <2>1. shown'.sinceHour = EncodeTimeSinceHourStart(c.minute, second, 10 * c.centisecond)
    BY <1>4, Zenon
  <2> HIDE DEF second
  <2>2. ShownMillisecond(EncodeTimeSinceHourStart(c.minute, second, 10 * c.centisecond))
          = (c.minute * 60 + second) * 1000 + 10 * c.centisecond
    BY <1>3, TimeShown
  <2> QED BY <2>1, <2>2
<1>6. ShownHour(shown'.hour) = [year |-> d.year, month |-> d.month, day |-> d.day, hour |-> c.hour]
  <2>1. shown'.hour = EncodeDateAndHour(d.year, d.month, d.day, c.hour)
    BY <1>4, Zenon
  <2>2. ShownHour(EncodeDateAndHour(d.year, d.month, d.day, c.hour))
          = [year |-> d.year, month |-> d.month, day |-> d.day, hour |-> c.hour]
    BY HourShown
  <2> QED BY <2>1, <2>2
<1> QED BY <1>4, <1>5, <1>6

\* The hour, and the time within it, are the receiver's, for every clock and date
\* of a century (parseTimeOfDay, parseDate, encodeTimeSinceHourStart,
\* encodeDateAndHour).
THEOREM TimeKept == Spec => []TimeIsRead
<1>1. Init => TimeIsRead
  BY DEF Init, TimeIsRead
<1>2. TimeIsRead /\ [Next]_vars => TimeIsRead'
  <2> SUFFICES ASSUME TimeIsRead, [Next]_vars
               PROVE  TimeIsRead'
    OBVIOUS
  <2>1. CASE Next
    BY <2>1, KindOfStep, TimeStep DEF TimeIsRead
  <2>2. CASE UNCHANGED vars
    BY <2>2 DEF vars, TimeIsRead
  <2> QED BY <2>1, <2>2
<1> QED BY <1>1, <1>2, PTL DEF Spec

-----------------------------------------------------------------------------
(* The status channel.                                                       *)

\* The time since an instant is the time that has passed, across the wrap.
LEMMA ElapsedSince ==
  ASSUME NEW start \in Instant, NEW age \in Instant
  PROVE  Elapsed(After(start, age), start) = age
<1> DEFINE M == ClockMod
<1>1. M \in Nat \ {0} /\ start \in 0 .. M - 1 /\ age \in 0 .. M - 1
  BY ClockAssumption DEF Instant
<1> HIDE DEF M
<1>2. \A x \in 0 .. M - 1 : x % M = x
  BY <1>1, SMT
<1>3. /\ After(start, age) = (start + age) % M
      /\ Elapsed(After(start, age), start) = (After(start, age) - start) % M
  BY DEF Elapsed, After, M
<1>4. CASE start + age < M
  <2>1. (start + age) % M = start + age
    BY <1>1, <1>2, <1>4
  <2>2. (start + age) - start = age
    BY <1>1
  <2>3. Elapsed(After(start, age), start) = ((start + age) - start) % M
    BY <1>3, <2>1
  <2> QED BY <1>1, <1>2, <2>2, <2>3
<1>5. CASE start + age >= M
  <2>1. (start + age) % M = (start + age) - M
    <3>1. (start + age) - M \in 0 .. M - 1
      BY <1>1, <1>5
    <3> QED BY <1>1, <3>1, SMT
  <2>2. ((start + age) - M) - start = age - M
    BY <1>1
  <2>3. (age - M) % M = age
    BY <1>1, SMT
  <2>4. Elapsed(After(start, age), start) = (((start + age) - M) - start) % M
    BY <1>3, <2>1
  <2> QED BY <2>2, <2>3, <2>4
<1> QED BY <1>1, <1>4, <1>5

LEMMA TemperatureShown ==
  ASSUME NEW raw \in Temperatures
  PROVE  Magnitude(340 * (10 * TemperaturePayload(raw) - 3653) - 100 * raw) <= 1700
<1>1. raw \in Int /\ -32768 <= raw /\ raw <= 32767
  BY MeasurementAssumption
<1> QED
  BY <1>1, SMTT(60) DEF TemperaturePayload, SaturateToInt16, RoundClamp, Nearest, Clamp, Magnitude

LEMMA StatusStep ==
  ASSUME Status
  PROVE  /\ shown'.session = given'.session.age
         /\ shown'.resets = given'.session.presses % 256 /\ shown'.satellites = 255
         /\ Magnitude(340 * (10 * shown'.temperature - 3653) - 100 * given'.raw) <= 1700
<1>1. PICK s \in Sessions, raw \in Temperatures :
        LET timer == [ResetTimer(IdleTimer, s.start) EXCEPT !.resets = s.presses]
        IN  Once("status", [session |-> s, raw |-> raw],
                 StatusPayload(timer, After(s.start, s.age), 0, FALSE, raw))
  BY DEF Status
<1> DEFINE fresh == ResetTimer(IdleTimer, s.start)
           timer == [fresh EXCEPT !.resets = s.presses]
<1>2. s.start \in Instant /\ s.age \in Instant
  <2>1. s \in [start : Instant, age : Instant, presses : Nat]
    BY MeasurementAssumption
  <2> QED BY <2>1
<1>3. fresh = [running |-> TRUE, started |-> s.start, resets |-> fresh.resets]
  BY SMT DEF ResetTimer
<1>4. /\ given' = [session |-> s, raw |-> raw]
      /\ shown' = StatusPayload(timer, After(s.start, s.age), 0, FALSE, raw)
  BY <1>1, SMT DEF Once, Show
<1> HIDE DEF fresh
<1>5. timer.running = TRUE /\ timer.started = s.start /\ timer.resets = s.presses
  BY <1>3
<1> HIDE DEF timer
<1>6. ElapsedMs(timer, After(s.start, s.age)) = s.age
  <2>1. ElapsedMs(timer, After(s.start, s.age)) = Elapsed(After(s.start, s.age), s.start)
    BY <1>5 DEF ElapsedMs
  <2> QED BY <1>2, <2>1, ElapsedSince
<1>7. StatusPayload(timer, After(s.start, s.age), 0, FALSE, raw)
        = [session |-> s.age, resets |-> s.presses % 256, satellites |-> 255,
           temperature |-> TemperaturePayload(raw)]
  BY <1>5, <1>6 DEF StatusPayload
<1>8. /\ shown'.session = s.age /\ shown'.resets = s.presses % 256 /\ shown'.satellites = 255
      /\ shown'.temperature = TemperaturePayload(raw)
  <2>1. shown' = [session |-> s.age, resets |-> s.presses % 256, satellites |-> 255,
                  temperature |-> TemperaturePayload(raw)]
    BY <1>4, <1>7, Zenon
  <2> QED BY <2>1
<1>9. given'.session = s /\ given'.raw = raw
  BY <1>4
<1>10. Magnitude(340 * (10 * shown'.temperature - 3653) - 100 * given'.raw) <= 1700
  BY <1>8, <1>9, TemperatureShown
<1> QED BY <1>8, <1>9, <1>10

\* The session time, the presses and the temperature of a status packet are
\* right for every instant, count and reading (SessionTimer, encodeStatusPayload).
THEOREM StatusKept == Spec => []StatusIsRead
<1>1. Init => StatusIsRead
  BY DEF Init, StatusIsRead
<1>2. StatusIsRead /\ [Next]_vars => StatusIsRead'
  <2> SUFFICES ASSUME StatusIsRead, [Next]_vars
               PROVE  StatusIsRead'
    OBVIOUS
  <2>1. CASE Next
    BY <2>1, KindOfStep, StatusStep DEF StatusIsRead
  <2>2. CASE UNCHANGED vars
    BY <2>2 DEF vars, StatusIsRead
  <2> QED BY <2>1, <2>2
<1> QED BY <1>1, <1>2, PTL DEF Spec

-----------------------------------------------------------------------------
(* The motion channel.  A turn keeps lengths and angles; a zeroed box is     *)
(* turned upright; so a push is left whole, and off Z when it is level.      *)

Vector == [Axis -> Int]

LEMMA Axes ==
  /\ Axis = {1, 2, 3} /\ 1 \in Axis /\ 2 \in Axis /\ 3 \in Axis
  /\ \A v \in Vector : v[1] \in Int /\ v[2] \in Int /\ v[3] \in Int
  BY DEF Axis, Vector

\* The columns of a turn are of the denominator's length, and at right angles.
Columns(r, i, j) == r.num[1][i] * r.num[1][j] + r.num[2][i] * r.num[2][j] + r.num[3][i] * r.num[3][j]
Turns(r) ==
  /\ r.num \in [Axis -> Vector] /\ r.den \in Nat \ {0}
  /\ \A i \in Axis : Columns(r, i, i) = r.den * r.den
  /\ Columns(r, 1, 2) = 0 /\ Columns(r, 1, 3) = 0 /\ Columns(r, 2, 3) = 0

LEMMA AppliedVector ==
  ASSUME NEW r, r.num \in [Axis -> Vector], NEW v \in Vector
  PROVE  /\ Apply(r, v) \in Vector
         /\ \A i \in Axis : Apply(r, v)[i]
              = r.num[i][1] * v[1] + r.num[i][2] * v[2] + r.num[i][3] * v[3]
<1>1. \A i \in Axis : Dot(r.num[i], v) \in Int
  BY Axes DEF Dot, Vector
<1> QED BY <1>1 DEF Apply, Dot, Vector

\* A turn keeps lengths and angles.
LEMMA TurnKeepsDot ==
  ASSUME NEW r, Turns(r), NEW v \in Vector, NEW w \in Vector
  PROVE  Dot(Apply(r, v), Apply(r, w)) = r.den * r.den * Dot(v, w)
<1> DEFINE n(i, j) == r.num[i][j]
           dd == r.den * r.den
           k(i, j) == n(1, i) * n(1, j) + n(2, i) * n(2, j) + n(3, i) * n(3, j)
<1>1. \A i \in Axis : \A j \in Axis : n(i, j) \in Int
  BY DEF Turns, Vector
<1>2. v[1] \in Int /\ v[2] \in Int /\ v[3] \in Int /\ w[1] \in Int /\ w[2] \in Int /\ w[3] \in Int
  BY Axes
<1>3. k(1, 1) = dd /\ k(2, 2) = dd /\ k(3, 3) = dd /\ k(1, 2) = 0 /\ k(1, 3) = 0 /\ k(2, 3) = 0
  BY Axes DEF Turns, Columns
<1>4. dd \in Int
  BY DEF Turns
<1>5. Dot(Apply(r, v), Apply(r, w))
        = (n(1, 1) * v[1] + n(1, 2) * v[2] + n(1, 3) * v[3]) * (n(1, 1) * w[1] + n(1, 2) * w[2] + n(1, 3) * w[3])
          + (n(2, 1) * v[1] + n(2, 2) * v[2] + n(2, 3) * v[3]) * (n(2, 1) * w[1] + n(2, 2) * w[2] + n(2, 3) * w[3])
          + (n(3, 1) * v[1] + n(3, 2) * v[2] + n(3, 3) * v[3]) * (n(3, 1) * w[1] + n(3, 2) * w[2] + n(3, 3) * w[3])
  BY Axes, AppliedVector DEF Dot, Turns
<1>6. n(1, 1) \in Int /\ n(1, 2) \in Int /\ n(1, 3) \in Int /\ n(2, 1) \in Int /\ n(2, 2) \in Int
      /\ n(2, 3) \in Int /\ n(3, 1) \in Int /\ n(3, 2) \in Int /\ n(3, 3) \in Int
  BY <1>1, Axes
<1> HIDE DEF n, dd
<1>7. (n(1, 1) * v[1] + n(1, 2) * v[2] + n(1, 3) * v[3]) * (n(1, 1) * w[1] + n(1, 2) * w[2] + n(1, 3) * w[3])
          + (n(2, 1) * v[1] + n(2, 2) * v[2] + n(2, 3) * v[3]) * (n(2, 1) * w[1] + n(2, 2) * w[2] + n(2, 3) * w[3])
          + (n(3, 1) * v[1] + n(3, 2) * v[2] + n(3, 3) * v[3]) * (n(3, 1) * w[1] + n(3, 2) * w[2] + n(3, 3) * w[3])
        = (v[1] * w[1]) * k(1, 1) + (v[2] * w[2]) * k(2, 2) + (v[3] * w[3]) * k(3, 3)
          + (v[1] * w[2] + v[2] * w[1]) * k(1, 2) + (v[1] * w[3] + v[3] * w[1]) * k(1, 3)
          + (v[2] * w[3] + v[3] * w[2]) * k(2, 3)
  BY <1>2, <1>6
<1> HIDE DEF k
<1>8. (v[1] * w[1]) * dd + (v[2] * w[2]) * dd + (v[3] * w[3]) * dd
          + (v[1] * w[2] + v[2] * w[1]) * 0 + (v[1] * w[3] + v[3] * w[1]) * 0
          + (v[2] * w[3] + v[3] * w[2]) * 0
      = dd * (v[1] * w[1] + v[2] * w[2] + v[3] * w[3])
  BY <1>2, <1>4
<1>9. Dot(Apply(r, v), Apply(r, w)) = dd * (v[1] * w[1] + v[2] * w[2] + v[3] * w[3])
  BY <1>3, <1>5, <1>7, <1>8
<1> QED BY <1>9 DEF Dot, dd

\* A turn that puts u, of length l, on Z.
Upright(r, u, l) ==
  /\ Turns(r)
  /\ Apply(r, u)[1] = 0 /\ Apply(r, u)[2] = 0 /\ Apply(r, u)[3] = r.den * l

\* A matrix given by its rows.
\* The square of an axis is no more than that of the length.
LEMMA AxisWithinLength ==
  ASSUME NEW u \in Vector, NEW l \in Nat, Dot(u, u) = l * l, NEW i \in Axis
  PROVE  -l <= u[i] /\ u[i] <= l
<1>1. u[1] \in Int /\ u[2] \in Int /\ u[3] \in Int /\ u[i] \in Int
  BY Axes DEF Vector
<1>2. /\ u[1] * u[1] >= 0 /\ u[2] * u[2] >= 0 /\ u[3] * u[3] >= 0
      /\ u[1] * u[1] + u[2] * u[2] + u[3] * u[3] = l * l
  BY <1>1 DEF Dot
<1>3. u[i] * u[i] <= l * l
  <2>1. i = 1 \/ i = 2 \/ i = 3
    BY DEF Axis
  <2> QED BY <1>1, <1>2, <2>1
<1>4. ASSUME NEW x \in Int, x * x <= l * l
      PROVE  x <= l
  <2> SUFFICES ASSUME x >= l + 1 PROVE FALSE
    BY <1>4
  <2>1. x * x >= (l + 1) * (l + 1)
    OBVIOUS
  <2> QED BY <1>4, <2>1
<1>5. (-u[i]) * (-u[i]) = u[i] * u[i] /\ -u[i] \in Int
  BY <1>1
<1>6. u[i] <= l
  BY <1>1, <1>3, <1>4
<1>7. -u[i] <= l
  BY <1>1, <1>3, <1>4, <1>5
<1> QED BY <1>1, <1>6, <1>7

\* An axis of the whole length leaves nothing to the others.
LEMMA SquaresCancel ==
  ASSUME NEW x \in Int, NEW y \in Int, x * x + y * y = 0
  PROVE  x = 0 /\ y = 0
<1>1. x * x >= 0 /\ y * y >= 0
  OBVIOUS
<1>2. x * x = 0 /\ y * y = 0
  BY <1>1
<1> QED BY <1>2

LEMMA LevelCases ==
  ASSUME NEW u \in Vector, NEW l \in Nat \ {0}, Dot(u, u) = l * l
  PROVE  /\ u[1] \in Int /\ u[2] \in Int /\ u[3] \in Int
         /\ Dot(u, Up) = u[3]
         /\ u[1] * u[1] + u[2] * u[2] + u[3] * u[3] = l * l
         /\ u[3] = l \/ u[3] = -l => u[1] = 0 /\ u[2] = 0
         /\ -l <= u[3] /\ u[3] <= l
<1>1. u[1] \in Int /\ u[2] \in Int /\ u[3] \in Int
  BY Axes
<1>2. Dot(u, Up) = u[3]
  BY <1>1 DEF Dot, Up
<1>3. u[1] * u[1] + u[2] * u[2] + u[3] * u[3] = l * l
  BY DEF Dot
<1>4. ASSUME u[3] = l \/ u[3] = -l PROVE u[1] = 0 /\ u[2] = 0
  <2>1. u[3] * u[3] = l * l
    BY <1>4
  <2>2. u[1] * u[1] + u[2] * u[2] + l * l = l * l
    BY <1>3, <2>1
  <2>3. u[1] * u[1] \in Int /\ u[2] * u[2] \in Int /\ l * l \in Int
    BY <1>1
  <2>4. u[1] * u[1] + u[2] * u[2] = 0
    BY <2>2, <2>3
  <2> QED BY <1>1, <2>4, SquaresCancel
<1>5. -l <= u[3] /\ u[3] <= l
  BY Axes, AxisWithinLength
<1> QED BY <1>1, <1>2, <1>3, <1>4, <1>5

\* A box already upright.
LEMMA UprightAlready ==
  ASSUME NEW u \in Vector, NEW l \in Nat \ {0}, Dot(u, u) = l * l, u[3] = l
  PROVE  Upright(Identity, u, l)
<1>1. u[1] = 0 /\ u[2] = 0
  BY LevelCases
<1>2. Identity.den = 1
  BY DEF Identity, Rotation
<1>3. \A i \in Axis : \A j \in Axis : Identity.num[i][j] = IF i = j THEN 1 ELSE 0
  BY DEF Identity, Rotation, Delta
<1>4. Identity.num \in [Axis -> Vector]
  BY DEF Identity, Rotation, Delta, Vector
<1>5. Turns(Identity)
  BY <1>2, <1>3, <1>4 DEF Turns, Columns, Axis
<1>6. \A i \in Axis : Apply(Identity, u)[i]
        = Identity.num[i][1] * u[1] + Identity.num[i][2] * u[2] + Identity.num[i][3] * u[3]
  BY <1>4, AppliedVector
<1>7. /\ Apply(Identity, u)[1] = 0 /\ Apply(Identity, u)[2] = 0
      /\ Apply(Identity, u)[3] = l
  <2>1. /\ Identity.num[1][1] = 1 /\ Identity.num[1][2] = 0 /\ Identity.num[1][3] = 0
        /\ Identity.num[2][1] = 0 /\ Identity.num[2][2] = 1 /\ Identity.num[2][3] = 0
        /\ Identity.num[3][1] = 0 /\ Identity.num[3][2] = 0 /\ Identity.num[3][3] = 1
    BY <1>3, Axes
  <2>2. /\ Apply(Identity, u)[1] = 1 * 0 + 0 * 0 + 0 * l
        /\ Apply(Identity, u)[2] = 0 * 0 + 1 * 0 + 0 * l
        /\ Apply(Identity, u)[3] = 0 * 0 + 0 * 0 + 1 * l
    BY <1>1, <1>6, <2>1, Axes
  <2> QED BY <2>2
<1> QED BY <1>2, <1>5, <1>7 DEF Upright

\* A box upside down.
LEMMA UprightFromBelow ==
  ASSUME NEW u \in Vector, NEW l \in Nat \ {0}, Dot(u, u) = l * l, u[3] = -l
  PROVE  Upright(HalfTurn(u, l), u, l)
<1> DEFINE r == HalfTurn(u, l)
           d == l * l * (l * l)
<1>1. u[1] = 0 /\ u[2] = 0
  BY LevelCases
<1> DEFINE e == IF 10 * Magnitude(u[1]) > 9 * l THEN <<0, 1, 0>> ELSE <<1, 0, 0>>
           axis == Minus(Scaled(l * l, e), Scaled(Dot(e, u), u))
<1>2. e = <<1, 0, 0>>
  BY <1>1 DEF Magnitude
<1>3. Dot(e, u) = 0
  BY <1>1, <1>2, Axes DEF Dot
<1>4. axis[1] = l * l /\ axis[2] = 0 /\ axis[3] = 0
  <2> HIDE DEF e
  <2> QED BY <1>1, <1>2, <1>3, Axes DEF Minus, Plus, Scaled
<1>5. /\ r.den = Dot(axis, axis)
      /\ r.num = [i \in Axis |-> [j \in Axis |-> 2 * axis[i] * axis[j] - Delta(i, j) * Dot(axis, axis)]]
  BY DEF HalfTurn, Rotation
<1> HIDE DEF axis, r
<1>6. Dot(axis, axis) = d /\ d \in Nat \ {0}
  <2>1. l * l \in Nat \ {0}
    OBVIOUS
  <2>2. d \in Nat \ {0}
    BY <2>1
  <2> QED BY <1>4, <2>2 DEF Dot
<1> HIDE DEF d
<1>7. r.den = d /\ \A i \in Axis : \A j \in Axis : r.num[i][j] = 2 * axis[i] * axis[j] - Delta(i, j) * d
  BY <1>5, <1>6
<1>8. /\ r.num[1][1] = d /\ r.num[1][2] = 0 /\ r.num[1][3] = 0
      /\ r.num[2][1] = 0 /\ r.num[2][2] = -d /\ r.num[2][3] = 0
      /\ r.num[3][1] = 0 /\ r.num[3][2] = 0 /\ r.num[3][3] = -d
  <2>1. (l * l) * (l * l) = d /\ l * l \in Int
    BY DEF d
  <2>2. 2 * axis[1] * axis[1] = 2 * d
    BY <1>4, <1>6, <2>1
  <2>3. /\ r.num[1][1] = 2 * d - 1 * d
        /\ r.num[1][2] = 2 * (l * l) * 0 - 0 * d /\ r.num[1][3] = 2 * (l * l) * 0 - 0 * d
        /\ r.num[2][1] = 2 * 0 * (l * l) - 0 * d
        /\ r.num[2][2] = 2 * 0 * 0 - 1 * d /\ r.num[2][3] = 2 * 0 * 0 - 0 * d
        /\ r.num[3][1] = 2 * 0 * (l * l) - 0 * d
        /\ r.num[3][2] = 2 * 0 * 0 - 0 * d /\ r.num[3][3] = 2 * 0 * 0 - 1 * d
    BY <1>4, <1>7, <2>2, Axes DEF Delta
  <2> QED BY <1>6, <2>1, <2>3
<1>9. r.num \in [Axis -> Vector]
  <2>1. r.num = [i \in Axis |-> [j \in Axis |-> r.num[i][j]]]
    BY <1>5
  <2> QED BY <1>6, <1>8, <2>1 DEF Vector, Axis
<1>10. Turns(r)
  <2>1. (-d) * (-d) = d * d /\ d * d \in Int
    BY <1>6
  <2> QED BY <1>6, <1>7, <1>8, <1>9, <2>1 DEF Turns, Columns, Axis
<1>11. \A i \in Axis : Apply(r, u)[i]
        = r.num[i][1] * u[1] + r.num[i][2] * u[2] + r.num[i][3] * u[3]
  BY <1>9, AppliedVector
<1>12. /\ Apply(r, u)[1] = 0 /\ Apply(r, u)[2] = 0
       /\ Apply(r, u)[3] = d * l
  <2>1. (-d) * (-l) = d * l
    BY <1>6
  <2>2. /\ Apply(r, u)[1] = d * 0 + 0 * 0 + 0 * (-l)
        /\ Apply(r, u)[2] = 0 * 0 + (-d) * 0 + 0 * (-l)
        /\ Apply(r, u)[3] = 0 * 0 + 0 * 0 + (-d) * (-l)
    BY <1>1, <1>8, <1>11, Axes
  <2> QED BY <1>6, <2>1, <2>2
<1> QED BY <1>7, <1>10, <1>12 DEF Upright, r

LEMMA ColumnsOfLevel ==
  ASSUME NEW a \in Int, NEW b \in Int, NEW c \in Int, NEW l \in Int,
         a * a + b * b = (2 * l - c) * c
  PROVE  /\ (l * c - a * a) * (l * c - a * a) + (a * b) * (a * b) + (c * a) * (c * a) = (l * c) * (l * c)
         /\ (l * c - a * a) * (-a * b) + (-a * b) * (l * c - b * b) + (c * a) * (c * b) = 0
         /\ (l * c - a * a) * (-c * a) + (-a * b) * (-c * b) + (c * a) * (c * (c - l)) = 0
         /\ (c * a) * (c * a) + (c * b) * (c * b) + (c * (c - l)) * (c * (c - l)) = (l * c) * (l * c)
<1>1. a * a * (a * a + b * b) = a * a * ((2 * l - c) * c)
  OBVIOUS
<1>2. a * b * (a * a + b * b) = a * b * ((2 * l - c) * c)
  OBVIOUS
<1>3. c * a * (a * a + b * b) = c * a * ((2 * l - c) * c)
  OBVIOUS
<1>4. c * c * (a * a + b * b) = c * c * ((2 * l - c) * c)
  OBVIOUS
<1>5. (l * c - a * a) * (l * c - a * a) + (a * b) * (a * b) + (c * a) * (c * a) = (l * c) * (l * c)
  BY <1>1
<1>6. (l * c - a * a) * (-a * b) + (-a * b) * (l * c - b * b) + (c * a) * (c * b) = 0
  BY <1>2
<1>7. (l * c - a * a) * (-c * a) + (-a * b) * (-c * b) + (c * a) * (c * (c - l)) = 0
  BY <1>3
<1>8. (c * a) * (c * a) + (c * b) * (c * b) + (c * (c - l)) * (c * (c - l)) = (l * c) * (l * c)
  BY <1>4
<1> QED BY <1>5, <1>6, <1>7, <1>8

\* The entries of Rodrigues' formula, with c for l + u[3].
LEMMA LevelEntries ==
  ASSUME NEW u \in Vector, NEW l \in Nat \ {0}, Dot(u, u) = l * l, u[3] # l, u[3] # -l,
         NEW c, c = l + u[3]
  PROVE  LET r == RotationAligningVector(u, l, Up, 1)
         IN  /\ r.den = l * c /\ c \in Nat \ {0}
             /\ r.num \in [Axis -> Vector]
             /\ r.num[1][1] = l * c - u[1] * u[1] /\ r.num[1][2] = -u[1] * u[2] /\ r.num[1][3] = -c * u[1]
             /\ r.num[2][1] = -u[1] * u[2] /\ r.num[2][2] = l * c - u[2] * u[2] /\ r.num[2][3] = -c * u[2]
             /\ r.num[3][1] = c * u[1] /\ r.num[3][2] = c * u[2] /\ r.num[3][3] = c * (c - l)
<1> DEFINE r == RotationAligningVector(u, l, Up, 1)
           n == l * 1
           cosine == Dot(u, Up)
           v == Cross(u, Up)
           skew == <<<<0, -v[3], v[2]>>, <<v[3], 0, -v[1]>>, <<-v[2], v[1], 0>>>>
           den == n * (n + cosine)
           entry(i, j) == Delta(i, j) * (den - Dot(v, v)) + (n + cosine) * skew[i][j] + v[i] * v[j]
<1>1. /\ u[1] \in Int /\ u[2] \in Int /\ u[3] \in Int
      /\ u[1] * u[1] + u[2] * u[2] + u[3] * u[3] = l * l
      /\ -l <= u[3] /\ u[3] <= l
  BY LevelCases
<1>2. n = l /\ cosine = u[3] /\ n # 0 /\ cosine # n /\ cosine # -n
  BY LevelCases
<1>3. r.den = den /\ r.num = [i \in Axis |-> [j \in Axis |-> entry(i, j)]]
  <2>1. ~ (n = 0 \/ cosine = n) /\ cosine # -n
    BY <1>2
  <2>2. r = [num |-> [i \in Axis |-> [j \in Axis |-> entry(i, j)]], den |-> den]
    BY <2>1, Zenon DEF RotationAligningVector, Rotation
  <2> HIDE DEF r, entry, den
  <2> QED BY <2>2
<1>4. c \in Nat \ {0} /\ n + cosine = c /\ den = l * c
  BY <1>1, <1>2
<1>5. v[1] = u[2] /\ v[2] = -u[1] /\ v[3] = 0
  BY <1>1 DEF Cross, Up
<1>6. Dot(v, v) = u[2] * u[2] + u[1] * u[1]
  BY <1>1, <1>5 DEF Dot
<1>7. /\ skew[1][1] = 0 /\ skew[1][2] = 0 /\ skew[1][3] = -u[1]
      /\ skew[2][1] = 0 /\ skew[2][2] = 0 /\ skew[2][3] = -u[2]
      /\ skew[3][1] = u[1] /\ skew[3][2] = u[2] /\ skew[3][3] = 0
  <2> HIDE DEF v
  <2>1. -v[3] = 0 /\ -v[1] = -u[2] /\ -v[2] = u[1]
    <3>1. -v[1] = -u[2] /\ -v[2] = -(-u[1])
      BY <1>5, Zenon
    <3>2. /\ \A x \in Int : -(-x) = x
          /\ \A x \in Int : x = 0 => -x = 0
      OBVIOUS
    <3>3. 0 \in Int
      OBVIOUS
    <3>4. -v[3] = 0
      BY <1>5, <3>2, <3>3, Zenon
    <3>5. -(-u[1]) = u[1]
      BY <1>1, <3>2, Zenon
    <3> QED BY <3>1, <3>4, <3>5, Zenon
  <2>2. skew = <<<<0, 0, -u[1]>>, <<0, 0, -u[2]>>, <<u[1], u[2], 0>>>>
    BY <1>5, <2>1
  <2> HIDE DEF skew
  <2> QED BY <2>2
<1>8. u[1] * u[1] + u[2] * u[2] = (l - u[3]) * c
  <2>1. l * l - u[3] * u[3] = (l - u[3]) * c
    BY <1>1
  <2>2. u[1] * u[1] + u[2] * u[2] \in Int /\ u[3] * u[3] \in Int /\ l * l \in Int
    BY <1>1
  <2> QED BY <1>1, <2>1, <2>2
<1> HIDE DEF n, cosine, v, skew, den, r
<1>9. /\ v[1] * v[1] = u[2] * u[2] /\ v[2] * v[2] = u[1] * u[1] /\ v[3] * v[3] = 0
      /\ v[1] * v[2] = -u[1] * u[2] /\ v[2] * v[1] = -u[1] * u[2]
      /\ v[1] * v[3] = 0 /\ v[3] * v[1] = 0 /\ v[2] * v[3] = 0 /\ v[3] * v[2] = 0
  BY <1>1, <1>5
<1>10. den \in Int /\ Dot(v, v) \in Int /\ u[1] * u[1] \in Int /\ u[2] * u[2] \in Int
       /\ -u[1] * u[2] \in Int
  BY <1>1, <1>4, <1>6
<1>11. /\ Delta(1, 1) = 1 /\ Delta(2, 2) = 1 /\ Delta(3, 3) = 1
       /\ Delta(1, 2) = 0 /\ Delta(1, 3) = 0 /\ Delta(2, 3) = 0
       /\ Delta(2, 1) = 0 /\ Delta(3, 1) = 0 /\ Delta(3, 2) = 0
  BY DEF Delta
<1>12. \A i \in Axis : \A j \in Axis : r.num[i][j] = entry(i, j)
  BY <1>3
<1>13. entry(1, 1) = l * c - u[1] * u[1]
  <2>1. entry(1, 1) = 1 * (den - (u[2] * u[2] + u[1] * u[1])) + c * 0 + u[2] * u[2]
    BY <1>4, <1>6, <1>7, <1>9, <1>11
  <2> QED BY <1>4, <1>10, <2>1
<1>14. entry(2, 2) = l * c - u[2] * u[2]
  <2>1. entry(2, 2) = 1 * (den - (u[2] * u[2] + u[1] * u[1])) + c * 0 + u[1] * u[1]
    BY <1>4, <1>6, <1>7, <1>9, <1>11
  <2> QED BY <1>4, <1>10, <2>1
<1>15. entry(3, 3) = c * (c - l)
  <2>1. entry(3, 3) = 1 * (den - (u[2] * u[2] + u[1] * u[1])) + c * 0 + 0
    BY <1>4, <1>6, <1>7, <1>9, <1>11
  <2>2. l * c - (l - u[3]) * c = c * (c - l)
    BY <1>1, <1>4
  <2> QED BY <1>4, <1>8, <1>10, <2>1, <2>2
<1>16. entry(1, 2) = -u[1] * u[2] /\ entry(2, 1) = -u[1] * u[2]
  <2>1. /\ entry(1, 2) = 0 * (den - Dot(v, v)) + c * 0 + (-u[1] * u[2])
        /\ entry(2, 1) = 0 * (den - Dot(v, v)) + c * 0 + (-u[1] * u[2])
    BY <1>4, <1>7, <1>9, <1>11
  <2> QED BY <1>4, <1>10, <2>1
<1>17. entry(1, 3) = -c * u[1] /\ entry(2, 3) = -c * u[2]
  <2>1. /\ entry(1, 3) = 0 * (den - Dot(v, v)) + c * (-u[1]) + 0
        /\ entry(2, 3) = 0 * (den - Dot(v, v)) + c * (-u[2]) + 0
    BY <1>4, <1>7, <1>9, <1>11
  <2> QED BY <1>1, <1>4, <1>10, <2>1
<1>18. entry(3, 1) = c * u[1] /\ entry(3, 2) = c * u[2]
  <2>1. /\ entry(3, 1) = 0 * (den - Dot(v, v)) + c * u[1] + 0
        /\ entry(3, 2) = 0 * (den - Dot(v, v)) + c * u[2] + 0
    BY <1>4, <1>7, <1>9, <1>11
  <2> QED BY <1>1, <1>4, <1>10, <2>1
<1> HIDE DEF entry
<1>19. /\ r.num[1][1] = l * c - u[1] * u[1] /\ r.num[1][2] = -u[1] * u[2] /\ r.num[1][3] = -c * u[1]
       /\ r.num[2][1] = -u[1] * u[2] /\ r.num[2][2] = l * c - u[2] * u[2] /\ r.num[2][3] = -c * u[2]
       /\ r.num[3][1] = c * u[1] /\ r.num[3][2] = c * u[2] /\ r.num[3][3] = c * (c - l)
  BY <1>12, <1>13, <1>14, <1>15, <1>16, <1>17, <1>18, Axes
<1>20. r.num \in [Axis -> Vector]
  <2>1. /\ l * c - u[1] * u[1] \in Int /\ l * c - u[2] * u[2] \in Int /\ -u[1] * u[2] \in Int
        /\ -c * u[1] \in Int /\ -c * u[2] \in Int /\ c * u[1] \in Int /\ c * u[2] \in Int
        /\ c * (c - l) \in Int
    BY <1>1, <1>4
  <2>2. \A i \in Axis : \A j \in Axis : r.num[i][j] \in Int
    BY <1>19, <2>1, Axes
  <2>3. r.num = [i \in Axis |-> [j \in Axis |-> r.num[i][j]]]
    BY <1>3
  <2> QED BY <2>2, <2>3 DEF Vector
<1> QED BY <1>3, <1>4, <1>19, <1>20 DEF r

\* A tilted box.
LEMMA UprightFromTilt ==
  ASSUME NEW u \in Vector, NEW l \in Nat \ {0}, Dot(u, u) = l * l, u[3] # l, u[3] # -l
  PROVE  Upright(RotationAligningVector(u, l, Up, 1), u, l)
<1> DEFINE r == RotationAligningVector(u, l, Up, 1)
           c == l + u[3]
           a == u[1]
           b == u[2]
<1>1. /\ a \in Int /\ b \in Int /\ u[3] \in Int /\ c \in Int
      /\ a * a + b * b + u[3] * u[3] = l * l
  BY LevelCases
<1>2. /\ r.den = l * c /\ c \in Nat \ {0} /\ r.num \in [Axis -> Vector]
      /\ r.num[1][1] = l * c - a * a /\ r.num[1][2] = -a * b /\ r.num[1][3] = -c * a
      /\ r.num[2][1] = -a * b /\ r.num[2][2] = l * c - b * b /\ r.num[2][3] = -c * b
      /\ r.num[3][1] = c * a /\ r.num[3][2] = c * b /\ r.num[3][3] = c * (c - l)
  BY LevelEntries
<1>3. u[3] = c - l
  BY <1>1
<1>4. a * a + b * b = (2 * l - c) * c
  <2>1. l * l - (c - l) * (c - l) = (2 * l - c) * c
    BY <1>1
  <2>2. a * a + b * b + (c - l) * (c - l) = l * l
    BY <1>1, <1>3
  <2>3. a * a + b * b \in Int /\ (c - l) * (c - l) \in Int /\ l * l \in Int
    BY <1>1
  <2> QED BY <2>1, <2>2, <2>3
<1>5. b * b + a * a = (2 * l - c) * c
  BY <1>1, <1>4
<1> HIDE DEF r, c, a, b
<1>6. /\ Columns(r, 1, 1) = (l * c) * (l * c) /\ Columns(r, 1, 2) = 0 /\ Columns(r, 1, 3) = 0
      /\ Columns(r, 3, 3) = (l * c) * (l * c)
  <2>1. /\ (l * c - a * a) * (l * c - a * a) + (a * b) * (a * b) + (c * a) * (c * a) = (l * c) * (l * c)
        /\ (l * c - a * a) * (-a * b) + (-a * b) * (l * c - b * b) + (c * a) * (c * b) = 0
        /\ (l * c - a * a) * (-c * a) + (-a * b) * (-c * b) + (c * a) * (c * (c - l)) = 0
        /\ (c * a) * (c * a) + (c * b) * (c * b) + (c * (c - l)) * (c * (c - l)) = (l * c) * (l * c)
    BY <1>1, <1>4, ColumnsOfLevel
  <2>2. /\ (-a * b) * (-a * b) = (a * b) * (a * b)
        /\ (-c * a) * (-c * a) = (c * a) * (c * a) /\ (-c * b) * (-c * b) = (c * b) * (c * b)
    BY <1>1
  <2> QED BY <1>2, <2>1, <2>2 DEF Columns
<1>7. Columns(r, 2, 2) = (l * c) * (l * c) /\ Columns(r, 2, 3) = 0
  <2>1. /\ (l * c - b * b) * (l * c - b * b) + (b * a) * (b * a) + (c * b) * (c * b) = (l * c) * (l * c)
        /\ (l * c - b * b) * (-c * b) + (-b * a) * (-c * a) + (c * b) * (c * (c - l)) = 0
    BY <1>1, <1>5, ColumnsOfLevel
  <2>2. /\ (-a * b) * (-a * b) + (l * c - b * b) * (l * c - b * b) + (c * b) * (c * b)
           = (l * c - b * b) * (l * c - b * b) + (b * a) * (b * a) + (c * b) * (c * b)
        /\ (-a * b) * (-c * a) + (l * c - b * b) * (-c * b) + (c * b) * (c * (c - l))
           = (l * c - b * b) * (-c * b) + (-b * a) * (-c * a) + (c * b) * (c * (c - l))
    BY <1>1
  <2> QED BY <1>2, <2>1, <2>2 DEF Columns
<1>8. l * c \in Nat \ {0}
  BY <1>2
<1>9. Turns(r)
  BY <1>2, <1>6, <1>7, <1>8, Axes DEF Turns
<1>10. \A i \in Axis : Apply(r, u)[i]
        = r.num[i][1] * u[1] + r.num[i][2] * u[2] + r.num[i][3] * u[3]
  BY <1>2, AppliedVector
<1>11. /\ Apply(r, u)[1] = (l * c - a * a) * a + (-a * b) * b + (-c * a) * (c - l)
       /\ Apply(r, u)[2] = (-a * b) * a + (l * c - b * b) * b + (-c * b) * (c - l)
       /\ Apply(r, u)[3] = (c * a) * a + (c * b) * b + (c * (c - l)) * (c - l)
  BY <1>2, <1>3, <1>10, Axes DEF a, b
<1>12. Apply(r, u)[1] = 0
  <2>1. a * (a * a + b * b) = a * ((2 * l - c) * c)
    BY <1>4
  <2>2. (l * c - a * a) * a + (-a * b) * b + (-c * a) * (c - l) = 0
    BY <1>1, <2>1
  <2> QED BY <1>11, <2>2
<1>13. Apply(r, u)[2] = 0
  <2>1. b * (a * a + b * b) = b * ((2 * l - c) * c)
    BY <1>4
  <2>2. (-a * b) * a + (l * c - b * b) * b + (-c * b) * (c - l) = 0
    BY <1>1, <2>1
  <2> QED BY <1>11, <2>2
<1>14. Apply(r, u)[3] = (l * c) * l
  <2>1. c * (a * a + b * b) = c * ((2 * l - c) * c)
    BY <1>4
  <2>2. (c * a) * a + (c * b) * b + (c * (c - l)) * (c - l) = (l * c) * l
    BY <1>1, <2>1
  <2> QED BY <1>11, <2>2
<1> QED BY <1>2, <1>9, <1>12, <1>13, <1>14 DEF Upright, r

LEMMA LevelIsUpright ==
  ASSUME NEW u \in Vector, NEW l \in Nat \ {0}, Dot(u, u) = l * l
  PROVE  Upright(RotationAligningVector(u, l, Up, 1), u, l)
<1>1. u[3] \in Int /\ Dot(u, Up) = u[3] /\ l * 1 = l /\ l # 0 /\ l # -l
  <2>1. u[3] \in Int /\ Dot(u, Up) = u[3]
    BY LevelCases
  <2>2. l * 1 = l /\ l # 0 /\ l # -l
    OBVIOUS
  <2> QED BY <2>1, <2>2
<1>2. CASE u[3] = l
  <2>1. RotationAligningVector(u, l, Up, 1) = Identity
    BY <1>1, <1>2, Zenon DEF RotationAligningVector
  <2> QED BY <1>2, <2>1, UprightAlready
<1>3. CASE u[3] = -l
  <2>1. RotationAligningVector(u, l, Up, 1) = HalfTurn(u, l)
    <3>1. ~ (l * 1 = 0 \/ Dot(u, Up) = l * 1) /\ Dot(u, Up) = -(l * 1)
      BY <1>1, <1>3
    <3> QED BY <3>1, Zenon DEF RotationAligningVector
  <2> QED BY <1>3, <2>1, UprightFromBelow
<1>4. CASE u[3] # l /\ u[3] # -l
  BY <1>4, UprightFromTilt
<1> QED BY <1>2, <1>3, <1>4

\* Turns about Z, quarter by quarter.
LEMMA Quarters ==
  ASSUME NEW q \in 0 .. 3
  PROVE  \E c \in Int, s \in Int :
           /\ c * c + s * s = 1
           /\ RotationAboutZ(q) = [num |-> <<<<c, -s, 0>>, <<s, c, 0>>, <<0, 0, 1>>>>, den |-> 1]
<1> DEFINE c == <<1, 0, -1, 0>>[q + 1]
           s == <<0, 1, 0, -1>>[q + 1]
<1>1. RotationAboutZ(q) = [num |-> <<<<c, -s, 0>>, <<s, c, 0>>, <<0, 0, 1>>>>, den |-> 1]
  BY DEF RotationAboutZ
<1>2. c \in Int /\ s \in Int /\ c * c + s * s = 1
  <2>1. q + 1 = 1 \/ q + 1 = 2 \/ q + 1 = 3 \/ q + 1 = 4
    OBVIOUS
  <2>2. (c = 1 /\ s = 0) \/ (c = 0 /\ s = 1) \/ (c = -1 /\ s = 0) \/ (c = 0 /\ s = -1)
    BY <2>1
  <2> HIDE DEF c, s
  <2> QED BY <2>2
<1> HIDE DEF c, s
<1> QED BY <1>1, <1>2

\* Turning an upright box about Z leaves it upright.
LEMMA UprightTurned ==
  ASSUME NEW u \in Vector, NEW l \in Nat \ {0}, NEW r, Upright(r, u, l), NEW q \in 0 .. 3
  PROVE  Upright(Multiply(RotationAboutZ(q), r), u, l)
<1> DEFINE t == Multiply(RotationAboutZ(q), r)
<1>1. PICK c \in Int, s \in Int :
        /\ c * c + s * s = 1
        /\ RotationAboutZ(q) = [num |-> <<<<c, -s, 0>>, <<s, c, 0>>, <<0, 0, 1>>>>, den |-> 1]
  BY Quarters
<1> DEFINE z == RotationAboutZ(q)
<1>2. /\ z.den = 1
      /\ z.num[1][1] = c /\ z.num[1][2] = -s /\ z.num[1][3] = 0
      /\ z.num[2][1] = s /\ z.num[2][2] = c /\ z.num[2][3] = 0
      /\ z.num[3][1] = 0 /\ z.num[3][2] = 0 /\ z.num[3][3] = 1
  BY <1>1
<1>3. t = [num |-> [i \in Axis |-> [j \in Axis |-> Dot(z.num[i], Column(r, j))]], den |-> z.den * r.den]
  BY DEF Multiply, Rotation
<1> HIDE DEF z, t
<1>4. /\ r.num \in [Axis -> Vector] /\ r.den \in Nat \ {0}
      /\ \A i \in Axis : \A j \in Axis : r.num[i][j] \in Int
  BY DEF Upright, Turns, Vector
<1>5. ASSUME NEW j \in Axis
      PROVE  /\ r.num[1][j] \in Int /\ r.num[2][j] \in Int /\ r.num[3][j] \in Int
             /\ t.num[1][j] = c * r.num[1][j] + (-s) * r.num[2][j]
             /\ t.num[2][j] = s * r.num[1][j] + c * r.num[2][j]
             /\ t.num[3][j] = r.num[3][j]
  <2>1. r.num[1][j] \in Int /\ r.num[2][j] \in Int /\ r.num[3][j] \in Int
    BY <1>4, Axes
  <2>2. Column(r, j)[1] = r.num[1][j] /\ Column(r, j)[2] = r.num[2][j] /\ Column(r, j)[3] = r.num[3][j]
    BY Axes DEF Column
  <2>3. /\ t.num[1][j] = Dot(z.num[1], Column(r, j))
        /\ t.num[2][j] = Dot(z.num[2], Column(r, j))
        /\ t.num[3][j] = Dot(z.num[3], Column(r, j))
    BY <1>3, Axes
  <2>4. /\ t.num[1][j] = c * r.num[1][j] + (-s) * r.num[2][j] + 0 * r.num[3][j]
        /\ t.num[2][j] = s * r.num[1][j] + c * r.num[2][j] + 0 * r.num[3][j]
        /\ t.num[3][j] = 0 * r.num[1][j] + 0 * r.num[2][j] + 1 * r.num[3][j]
    BY <1>2, <2>2, <2>3, Zenon DEF Dot
  <2> QED BY <2>1, <2>4
<1>6. t.den = r.den
  BY <1>2, <1>3, <1>4
<1>7. t.num \in [Axis -> Vector]
  <2>1. \A i \in Axis : \A j \in Axis : t.num[i][j] \in Int
    BY <1>5 DEF Axis
  <2>2. t.num = [i \in Axis |-> [j \in Axis |-> t.num[i][j]]]
    BY <1>3
  <2> QED BY <2>1, <2>2 DEF Vector
<1>8. ASSUME NEW i \in Axis, NEW j \in Axis
      PROVE  Columns(t, i, j) = Columns(r, i, j)
  <2> DEFINE a == r.num[1][i]  b == r.num[2][i]  x == r.num[1][j]  y == r.num[2][j]
             w == r.num[3][i] * r.num[3][j]
  <2>1. a \in Int /\ b \in Int /\ x \in Int /\ y \in Int /\ w \in Int
    BY <1>5
  <2>2. Columns(t, i, j) = (c * a + (-s) * b) * (c * x + (-s) * y) + (s * a + c * b) * (s * x + c * y) + w
    BY <1>5, Zenon DEF Columns
  <2>3. Columns(r, i, j) = a * x + b * y + w
    BY Zenon DEF Columns
  <2> HIDE DEF a, b, x, y, w
  <2>4. (c * a + (-s) * b) * (c * x + (-s) * y) + (s * a + c * b) * (s * x + c * y)
          = (a * x + b * y) * (c * c + s * s)
    BY <2>1
  <2>5. (a * x + b * y) * (c * c + s * s) = a * x + b * y
    BY <1>1, <2>1
  <2> QED BY <2>2, <2>3, <2>4, <2>5, Zenon
<1>9. Turns(t)
  BY <1>6, <1>7, <1>8, Axes DEF Upright, Turns
<1>10. /\ Apply(t, u)[1] = c * Apply(r, u)[1] + (-s) * Apply(r, u)[2]
       /\ Apply(t, u)[2] = s * Apply(r, u)[1] + c * Apply(r, u)[2]
       /\ Apply(t, u)[3] = Apply(r, u)[3]
  <2> DEFINE n(i, j) == r.num[i][j]
  <2>1. u[1] \in Int /\ u[2] \in Int /\ u[3] \in Int
    BY Axes
  <2>2. /\ n(1, 1) \in Int /\ n(1, 2) \in Int /\ n(1, 3) \in Int
        /\ n(2, 1) \in Int /\ n(2, 2) \in Int /\ n(2, 3) \in Int
    BY <1>4, Axes
  <2>3. /\ Apply(r, u)[1] = n(1, 1) * u[1] + n(1, 2) * u[2] + n(1, 3) * u[3]
        /\ Apply(r, u)[2] = n(2, 1) * u[1] + n(2, 2) * u[2] + n(2, 3) * u[3]
        /\ Apply(r, u)[3] = n(3, 1) * u[1] + n(3, 2) * u[2] + n(3, 3) * u[3]
    BY <1>4, AppliedVector, Axes
  <2>4. /\ Apply(t, u)[1] = t.num[1][1] * u[1] + t.num[1][2] * u[2] + t.num[1][3] * u[3]
        /\ Apply(t, u)[2] = t.num[2][1] * u[1] + t.num[2][2] * u[2] + t.num[2][3] * u[3]
        /\ Apply(t, u)[3] = t.num[3][1] * u[1] + t.num[3][2] * u[2] + t.num[3][3] * u[3]
    BY <1>7, AppliedVector, Axes
  <2>5. /\ t.num[1][1] = c * n(1, 1) + (-s) * n(2, 1) /\ t.num[1][2] = c * n(1, 2) + (-s) * n(2, 2)
        /\ t.num[1][3] = c * n(1, 3) + (-s) * n(2, 3)
        /\ t.num[2][1] = s * n(1, 1) + c * n(2, 1) /\ t.num[2][2] = s * n(1, 2) + c * n(2, 2)
        /\ t.num[2][3] = s * n(1, 3) + c * n(2, 3)
        /\ t.num[3][1] = n(3, 1) /\ t.num[3][2] = n(3, 2) /\ t.num[3][3] = n(3, 3)
    BY <1>5, Axes
  <2> HIDE DEF n
  <2>6. /\ (c * n(1, 1) + (-s) * n(2, 1)) * u[1] + (c * n(1, 2) + (-s) * n(2, 2)) * u[2]
             + (c * n(1, 3) + (-s) * n(2, 3)) * u[3]
           = c * (n(1, 1) * u[1] + n(1, 2) * u[2] + n(1, 3) * u[3])
             + (-s) * (n(2, 1) * u[1] + n(2, 2) * u[2] + n(2, 3) * u[3])
        /\ (s * n(1, 1) + c * n(2, 1)) * u[1] + (s * n(1, 2) + c * n(2, 2)) * u[2]
             + (s * n(1, 3) + c * n(2, 3)) * u[3]
           = s * (n(1, 1) * u[1] + n(1, 2) * u[2] + n(1, 3) * u[3])
             + c * (n(2, 1) * u[1] + n(2, 2) * u[2] + n(2, 3) * u[3])
    BY <2>1, <2>2
  <2>7. Apply(t, u)[1] = c * Apply(r, u)[1] + (-s) * Apply(r, u)[2]
    BY <2>3, <2>4, <2>5, <2>6, Zenon
  <2>8. Apply(t, u)[2] = s * Apply(r, u)[1] + c * Apply(r, u)[2]
    BY <2>3, <2>4, <2>5, <2>6, Zenon
  <2>9. Apply(t, u)[3] = Apply(r, u)[3]
    BY <2>3, <2>4, <2>5, Zenon
  <2> QED BY <2>7, <2>8, <2>9
<1>11. /\ Apply(t, u)[1] = 0 /\ Apply(t, u)[2] = 0 /\ Apply(t, u)[3] = t.den * l
  <2>1. Apply(r, u)[1] = 0 /\ Apply(r, u)[2] = 0 /\ Apply(r, u)[3] = r.den * l
    BY DEF Upright
  <2>2. c * 0 + (-s) * 0 = 0 /\ s * 0 + c * 0 = 0
    OBVIOUS
  <2> QED BY <1>6, <1>10, <2>1, <2>2, Zenon
<1> QED BY <1>9, <1>11 DEF Upright, t

\* The quotient of a division with remainder.
LEMMA QuotientOf ==
  ASSUME NEW n \in Int, NEW d \in Nat \ {0}
  PROVE  n \div d \in Int /\ d * (n \div d) <= n /\ n < d * (n \div d) + d
  OBVIOUS

\* Nearest is within half of its denominator.
LEMMA NearestHalf ==
  ASSUME NEW num \in Int, NEW h \in Nat \ {0}
  PROVE  /\ Nearest(num, 2 * h) \in Int
         /\ -h <= (2 * h) * Nearest(num, 2 * h) - num
         /\ (2 * h) * Nearest(num, 2 * h) - num <= h
<1> DEFINE d == 2 * h
<1>1. d \in Nat \ {0} /\ d \div 2 = h
  OBVIOUS
<1>2. CASE num >= 0
  <2> DEFINE q == (num + h) \div d
  <2>1. Nearest(num, d) = q
    BY <1>1, <1>2, Zenon DEF Nearest
  <2>2. q \in Int /\ d * q <= num + h /\ num + h < d * q + d
    <3>1. num + h \in Int
      OBVIOUS
    <3> HIDE DEF d
    <3> QED BY <1>1, <3>1, QuotientOf
  <2> HIDE DEF q
  <2>3. d * q \in Int
    BY <2>2
  <2>4. -h <= d * q - num /\ d * q - num <= h
    <3> DEFINE p == d * q
    <3>1. p \in Int /\ p <= num + h /\ num + h < p + 2 * h
      BY <2>2, <2>3
    <3> HIDE DEF p
    <3>2. -h <= p - num /\ p - num <= h
      BY <3>1
    <3> QED BY <3>2 DEF p
  <2> QED BY <2>1, <2>2, <2>4
<1>3. CASE ~ (num >= 0)
  <2> DEFINE q == (h - num) \div d
  <2>1. Nearest(num, d) = -q
    BY <1>1, <1>3, Zenon DEF Nearest
  <2>2. q \in Int /\ d * q <= h - num /\ h - num < d * q + d
    <3>1. h - num \in Int
      OBVIOUS
    <3> HIDE DEF d
    <3> QED BY <1>1, <3>1, QuotientOf
  <2> HIDE DEF q
  <2>3. d * q \in Int /\ d * (-q) = -(d * q)
    BY <2>2
  <2>4. -h <= -(d * q) - num /\ -(d * q) - num <= h
    <3> DEFINE p == d * q
    <3>1. p \in Int /\ p <= h - num /\ h - num < p + 2 * h
      BY <2>2, <2>3
    <3> HIDE DEF p
    <3>2. -h <= -p - num /\ -p - num <= h
      BY <3>1
    <3> QED BY <3>2 DEF p
  <2>5. -q \in Int
    BY <2>2
  <2> QED BY <2>1, <2>3, <2>4, <2>5
<1> QED BY <1>2, <1>3

LEMMA NearestExact ==
  ASSUME NEW n \in Int, NEW h \in Nat \ {0}
  PROVE  Nearest(n * (2 * h), 2 * h) = n
<1> DEFINE q == Nearest(n * (2 * h), 2 * h)
<1>1. /\ q \in Int /\ -h <= (2 * h) * q - n * (2 * h) /\ (2 * h) * q - n * (2 * h) <= h
  <2>1. n * (2 * h) \in Int
    OBVIOUS
  <2> QED BY <2>1, NearestHalf
<1> HIDE DEF q
<1>2. (2 * h) * q - n * (2 * h) = (2 * h) * (q - n)
  BY <1>1
<1>3. ASSUME q - n >= 1 PROVE FALSE
  <2>1. (2 * h) * (q - n) >= 2 * h
    BY <1>1, <1>3
  <2> QED BY <1>1, <1>2, <2>1
<1>4. ASSUME q - n <= -1 PROVE FALSE
  <2>1. (2 * h) * (q - n) <= -(2 * h)
    BY <1>1, <1>4
  <2> QED BY <1>1, <1>2, <2>1
<1> QED BY <1>1, <1>3, <1>4 DEF q

\* A component of an acceleration on the motion channel, over a denominator.
AccelShown(a, den) == SaturateToInt16(1000 * a, den * AccelScale(1))

LEMMA AccelScaleIs == AccelScale(1) = 8192
  BY SMT DEF AccelScale

\* It is n, unless that is out of range.
Rounded(n, a, den) ==
  /\ AccelShown(a, den) = Clamp(n, -32768, 32767)
  /\ -(4096 * den) <= 8192 * (den * n) - 1000 * a
  /\ 8192 * (den * n) - 1000 * a <= 4096 * den

LEMMA NearestShown ==
  ASSUME NEW a \in Int, NEW den \in Nat \ {0}
  PROVE  \E n \in Int : Rounded(n, a, den)
<1> DEFINE h == 4096 * den
           num == 1000 * a
<1>1. h \in Nat \ {0} /\ num \in Int /\ 2 * h = den * 8192
  BY SMT
<1>2. PICK n \in Int : n = Nearest(num, 2 * h) /\ -h <= (2 * h) * n - num /\ (2 * h) * n - num <= h
  <2> HIDE DEF h, num
  <2>1. /\ Nearest(num, 2 * h) \in Int /\ -h <= (2 * h) * Nearest(num, 2 * h) - num
        /\ (2 * h) * Nearest(num, 2 * h) - num <= h
    BY <1>1, NearestHalf
  <2> QED BY <2>1, Zenon
<1>3. AccelShown(a, den) = Clamp(n, -32768, 32767)
  BY <1>1, <1>2, AccelScaleIs, SMT DEF AccelShown, SaturateToInt16, RoundClamp
<1>4. (2 * h) * n = 8192 * (den * n)
  BY <1>2, SMT
<1> DEFINE q == 8192 * (den * n)
<1>5. q \in Int /\ (2 * h) * n = q
  BY <1>2, <1>4, SMT
<1> HIDE DEF q
<1>6. -h <= q - num /\ q - num <= h
  <2> HIDE DEF h, num
  <2> QED BY <1>2, <1>5, SMT
<1>7. Rounded(n, a, den)
  <2> DEFINE z == den * n
  <2>1. z \in Int
    BY <1>2, SMT
  <2> HIDE DEF z
  <2>2. -(4096 * den) <= 8192 * z - 1000 * a /\ 8192 * z - 1000 * a <= 4096 * den
    BY <1>6, <2>1, SMT DEF z, q
  <2> QED BY <1>3, <2>2, SMT DEF Rounded, z
<1>8. n \in Int
  BY <1>2
<1> QED BY <1>7, <1>8

\* A push shows to within half a milli-g.
LEMMA PushShown ==
  ASSUME NEW a \in Int, NEW den \in Nat \ {0}, -(15 * den) <= a, a <= 15 * den
  PROVE  /\ AccelShown(Push * a, den) \in Int
         /\ -den <= 2 * (den * AccelShown(Push * a, den) - 125 * a)
         /\ 2 * (den * AccelShown(Push * a, den) - 125 * a) <= den
<1>1. Push * a \in Int /\ 1000 * (Push * a) = 1024000 * a
  BY SMT DEF Push
<1>2. PICK n \in Int : Rounded(n, Push * a, den)
  <2>1. Push * a \in Int
    BY <1>1, SMT
  <2> QED BY <2>1, NearestShown, Zenon
<1> DEFINE p == den * n
<1>3. p \in Int /\ -(4096 * den) <= 8192 * p - 1024000 * a /\ 8192 * p - 1024000 * a <= 4096 * den
  BY <1>1, <1>2, SMT DEF Rounded
<1>4. -den <= 2 * (p - 125 * a) /\ 2 * (p - 125 * a) <= den
  <2> HIDE DEF p
  <2> QED BY <1>3, SMT
<1>5. -(1876 * den) <= p /\ p <= 1876 * den
  <2> HIDE DEF p
  <2> QED BY <1>3, <1>4, SMT
<1>6. -1876 <= n /\ n <= 1876
  <2>1. ASSUME n >= 1877 PROVE FALSE
    <3>1. den * n >= den * 1877
      BY <2>1, SMT
    <3> QED BY <1>5, <3>1, SMT
  <2>2. ASSUME n <= -1877 PROVE FALSE
    <3>1. den * n <= den * (-1877)
      BY <2>2, SMT
    <3> QED BY <1>5, <3>1, SMT
  <2> QED BY <2>1, <2>2, SMT
<1>7. AccelShown(Push * a, den) = n
  BY <1>2, <1>6, SMT DEF Clamp, Rounded
<1> QED BY <1>2, <1>4, <1>7, SMT

\* A push of a whole number of units shows exactly.
LEMMA WholePushShown ==
  ASSUME NEW n \in -15 .. 15, NEW den \in Nat \ {0}, NEW a, a = den * n
  PROVE  AccelShown(Push * a, den) = 125 * n
<1>1. a \in Int /\ -(15 * den) <= a /\ a <= 15 * den
  BY SMT
<1> DEFINE x == AccelShown(Push * a, den)
<1>2. x \in Int /\ -den <= 2 * (den * x - 125 * a) /\ 2 * (den * x - 125 * a) <= den
  BY <1>1, PushShown
<1> HIDE DEF x
<1> DEFINE e == x - 125 * n
<1>3. e \in Int /\ den * x - 125 * a = den * e
  BY <1>2, SMT
<1>4. e = 0
  <2> HIDE DEF e
  <2>1. ASSUME e >= 1 PROVE FALSE
    <3>1. den * e >= den
      BY <1>3, <2>1, SMT
    <3> QED BY <1>2, <1>3, <3>1, SMT
  <2>2. ASSUME e <= -1 PROVE FALSE
    <3>1. den * e <= -den
      BY <1>3, <2>2, SMT
    <3> QED BY <1>2, <1>3, <3>1, SMT
  <2> QED BY <1>3, <2>1, <2>2, SMT
<1> QED BY <1>2, <1>4, SMT DEF x

LEMMA StrongPushShown ==
  ASSUME NEW a \in Int, NEW den \in Nat \ {0}, a >= 5 * den
  PROVE  AccelShown(a, den) > 0
<1>1. PICK n \in Int : Rounded(n, a, den)
  BY NearestShown, Zenon
<1> DEFINE p == den * n
<1>2. p \in Int /\ -(4096 * den) <= 8192 * p - 1000 * a
  BY <1>1, SMT DEF Rounded
<1>3. p > 0
  <2> HIDE DEF p
  <2> QED BY <1>2, SMT
<1>4. n > 0
  <2> SUFFICES ASSUME n <= 0 PROVE FALSE
    BY <1>1
  <2>1. den * n <= 0
    BY SMT
  <2> QED BY <1>2, <1>3, <2>1
<1> QED BY <1>1, <1>4, SMT DEF Clamp, Rounded

\* Still on a channel.
LEMMA NoneShown ==
  ASSUME NEW h \in Nat \ {0}
  PROVE  SaturateToInt16(0, 2 * h) = 0
<1>1. Nearest(0, 2 * h) = 0
  <2>1. 0 * (2 * h) = 0 /\ 0 \in Int
    OBVIOUS
  <2> QED BY <2>1, NearestExact, Zenon
<1> QED BY <1>1, SMT DEF SaturateToInt16, RoundClamp, Clamp

\* Two components within half of what they stand for are, together, of the length
\* of what they stand for.
LEMMA LengthShown ==
  ASSUME NEW x \in Int, NEW y \in Int, NEW a \in Int, NEW b \in Int, NEW den \in Nat \ {0},
         NEW p \in Nat \ {0},
         -den <= 2 * (den * x - a), 2 * (den * x - a) <= den,
         -den <= 2 * (den * y - b), 2 * (den * y - b) <= den,
         a * a + b * b = (den * p) * (den * p)
  PROVE  Magnitude(x * x + y * y - p * p) <= 2 * p
<1> DEFINE e == den * x - a
           f == den * y - b
           d == den * den
           k == x * x + y * y - p * p
<1>1. /\ e \in Int /\ f \in Int /\ -den <= 2 * e /\ 2 * e <= den /\ -den <= 2 * f /\ 2 * f <= den
      /\ d \in Nat \ {0} /\ k \in Int /\ den \in Int
      /\ den * x = a + e /\ den * y = b + f
  OBVIOUS
<1>2. d * k = 2 * (a * e + b * f) + (e * e + f * f)
  <2>1. d * k = (den * x) * (den * x) + (den * y) * (den * y) - (den * p) * (den * p)
    OBVIOUS
  <2>2. (den * x) * (den * x) + (den * y) * (den * y) = (a + e) * (a + e) + (b + f) * (b + f)
    BY <1>1, Zenon
  <2>3. (a + e) * (a + e) + (b + f) * (b + f)
          = (a * a + b * b) + (2 * (a * e + b * f) + (e * e + f * f))
    <3> HIDE DEF e, f
    <3> QED BY <1>1
  <2> HIDE DEF k, d, e, f
  <2>4. d * k \in Int /\ (den * p) * (den * p) \in Int /\ 2 * (a * e + b * f) + (e * e + f * f) \in Int
    BY <1>1
  <2> QED BY <2>1, <2>2, <2>3, <2>4
<1> HIDE DEF e, f, d, k
\* The sum of the components is no more than one and a half times the length.
<1>3. ASSUME NEW s \in Int, s * s <= 2 * ((den * p) * (den * p))
      PROVE  2 * s <= 3 * (den * p)
  <2> DEFINE l == den * p
  <2>1. l \in Nat /\ s * s <= 2 * (l * l)
    BY <1>3
  <2> HIDE DEF l
  <2> SUFFICES ASSUME 2 * s >= 3 * l + 1 PROVE FALSE
    BY <2>1 DEF l
  <2>2. (2 * s) * (2 * s) >= (3 * l + 1) * (3 * l + 1)
    BY <2>1
  <2>3. (2 * s) * (2 * s) = 4 * (s * s) /\ (3 * l + 1) * (3 * l + 1) = 9 * (l * l) + 6 * l + 1
        /\ l * l >= 0 /\ s * s \in Int /\ l * l \in Int
    BY <2>1
  <2> DEFINE ll == l * l  ss == s * s
  <2>4. ll \in Int /\ ss \in Int /\ ll >= 0 /\ ss <= 2 * ll /\ 4 * ss >= 9 * ll + 6 * l + 1
    BY <2>1, <2>2, <2>3
  <2> HIDE DEF ll, ss
  <2> QED BY <2>1, <2>4
<1> DEFINE aa == Magnitude(a)
           bb == Magnitude(b)
<1>4. /\ aa \in Nat /\ bb \in Nat /\ aa * aa = a * a /\ bb * bb = b * b
      /\ (a = aa \/ a = -aa) /\ (b = bb \/ b = -bb)
  BY DEF Magnitude
<1> HIDE DEF aa, bb
<1>5. 2 * (aa + bb) <= 3 * (den * p)
  <2>1. (aa + bb) * (aa + bb) + (aa - bb) * (aa - bb) = 2 * (aa * aa + bb * bb)
    BY <1>4
  <2>2. (aa - bb) * (aa - bb) >= 0 /\ (aa - bb) * (aa - bb) \in Int
        /\ (aa + bb) * (aa + bb) \in Int /\ aa + bb \in Int
    BY <1>4
  <2>3. aa * aa + bb * bb = (den * p) * (den * p) /\ (den * p) * (den * p) \in Int
    BY <1>4
  <2>4. (aa + bb) * (aa + bb) <= 2 * ((den * p) * (den * p))
    BY <2>1, <2>2, <2>3
  <2> QED BY <1>3, <2>2, <2>4
<1>6. ASSUME NEW c \in Int, NEW cc \in Nat, NEW g \in Int, c = cc \/ c = -cc,
             -den <= 2 * g, 2 * g <= den
      PROVE  /\ -(cc * den) <= 2 * (c * g) /\ 2 * (c * g) <= cc * den
             /\ 0 <= g * g /\ 4 * (g * g) <= den * den
  <2>1. -(cc * den) <= cc * (2 * g) /\ cc * (2 * g) <= cc * den
    BY <1>6
  <2>2. 2 * (c * g) = cc * (2 * g) \/ 2 * (c * g) = -(cc * (2 * g))
    BY <1>6
  <2>3. cc * (2 * g) \in Int /\ cc * den \in Int /\ 2 * (c * g) \in Int
    BY <1>6
  <2>4. 0 <= (den - 2 * g) * (den + 2 * g)
    BY <1>6
  <2>5. (den - 2 * g) * (den + 2 * g) = den * den - 4 * (g * g) /\ 0 <= g * g
        /\ den * den \in Int /\ g * g \in Int
    BY <1>6
  <2>6. -(cc * den) <= 2 * (c * g) /\ 2 * (c * g) <= cc * den
    BY <2>1, <2>2, <2>3
  <2> QED BY <2>4, <2>5, <2>6
<1>7. /\ -(aa * den) <= 2 * (a * e) /\ 2 * (a * e) <= aa * den /\ 0 <= e * e /\ 4 * (e * e) <= den * den
      /\ -(bb * den) <= 2 * (b * f) /\ 2 * (b * f) <= bb * den /\ 0 <= f * f /\ 4 * (f * f) <= den * den
  BY <1>1, <1>4, <1>6
<1>8. 2 * (aa * den + bb * den) <= 3 * (d * p) /\ d <= d * p
  <2>1. den * (2 * (aa + bb)) <= den * (3 * (den * p))
    <3>1. 2 * (aa + bb) \in Int /\ 3 * (den * p) \in Int
      BY <1>4
    <3> DEFINE v == 2 * (aa + bb)  w == 3 * (den * p)
    <3>2. v \in Int /\ w \in Int /\ v <= w
      BY <1>5, <3>1
    <3> HIDE DEF v, w
    <3>3. den * v <= den * w
      BY <3>2
    <3> QED BY <3>3 DEF v, w
  <2>2. den * (2 * (aa + bb)) = 2 * (aa * den + bb * den) /\ den * (3 * (den * p)) = 3 * (d * p)
    BY <1>4 DEF d
  <2>3. d <= d * p
    BY <1>1
  <2> QED BY <2>1, <2>2, <2>3
<1>9. -(4 * (d * p)) <= 2 * (d * k) /\ 2 * (d * k) <= 4 * (d * p)
  <2> DEFINE ae == a * e  bf == b * f  ee == e * e  ff == f * f  dp == d * p  dk == d * k
             ad == aa * den  bd == bb * den
  <2>1. /\ ae \in Int /\ bf \in Int /\ ee \in Int /\ ff \in Int /\ dp \in Int /\ dk \in Int /\ d \in Int
        /\ ad \in Int /\ bd \in Int
    BY <1>1, <1>4
  <2>2. /\ -ad <= 2 * ae /\ 2 * ae <= ad /\ 0 <= ee /\ 4 * ee <= d
        /\ -bd <= 2 * bf /\ 2 * bf <= bd /\ 0 <= ff /\ 4 * ff <= d
        /\ 2 * (ad + bd) <= 3 * dp /\ d <= dp /\ dk = 2 * (ae + bf) + (ee + ff)
    BY <1>2, <1>7, <1>8 DEF d
  <2> HIDE DEF ae, bf, ee, ff, dp, dk, ad, bd
  <2>3. -(4 * dp) <= 2 * dk /\ 2 * dk <= 4 * dp
    BY <2>1, <2>2
  <2> QED BY <2>3 DEF dp, dk
<1>10. k <= 2 * p
  <2> SUFFICES ASSUME k >= 2 * p + 1 PROVE FALSE
    BY <1>1
  <2>1. d * k >= d * (2 * p + 1) /\ d * (2 * p + 1) = 2 * (d * p) + d
    BY <1>1
  <2> DEFINE dk == d * k  dp == d * p
  <2>2. dk \in Int /\ dp \in Int /\ dk >= 2 * dp + d /\ 2 * dk <= 4 * dp
    BY <1>1, <1>9, <2>1
  <2> HIDE DEF dk, dp
  <2> QED BY <1>1, <2>2
<1>11. k >= -(2 * p)
  <2> SUFFICES ASSUME k <= -(2 * p) - 1 PROVE FALSE
    BY <1>1
  <2>1. d * k <= d * (-(2 * p) - 1) /\ d * (-(2 * p) - 1) = -(2 * (d * p)) - d
    BY <1>1
  <2> DEFINE dk == d * k  dp == d * p
  <2>2. dk \in Int /\ dp \in Int /\ dk <= -(2 * dp) - d /\ -(4 * dp) <= 2 * dk
    BY <1>1, <1>9, <2>1
  <2> HIDE DEF dk, dp
  <2> QED BY <1>1, <2>2
<1>12. Magnitude(k) <= 2 * p
  BY <1>1, <1>10, <1>11 DEF Magnitude
<1> QED BY <1>12 DEF k

\* What is assumed of a mounting.
LEMMA MountingFacts ==
  ASSUME NEW m \in Mountings
  PROVE  /\ m.up \in Vector /\ m.forward \in Vector /\ m.trim \in Vector
         /\ m.length \in 1 .. 15
         /\ Dot(m.up, m.up) = m.length * m.length
         /\ Dot(m.forward, m.forward) = m.length * m.length
         /\ Dot(m.up, m.forward) = 0
         /\ \A i \in Axis : m.length * Right(m)[i] = Cross(m.forward, m.up)[i]
         /\ \A i \in Axis : -8190 <= m.trim[i] /\ m.trim[i] <= 8190
<1>1. /\ m.up \in Vector /\ m.forward \in Vector /\ m.trim \in Vector
      /\ m.length \in Nat \ {0} /\ Push * m.length <= 2 * OneG
      /\ Dot(m.up, m.up) = m.length * m.length
      /\ Dot(m.forward, m.forward) = m.length * m.length
      /\ Dot(m.up, m.forward) = 0
      /\ \A i \in Axis : m.length * Right(m)[i] = Cross(m.forward, m.up)[i]
      /\ \A i \in Axis : Magnitude(m.trim[i]) <= OneG
  BY MountingAssumption, Zenon DEF Vector
<1>2. m.length \in 1 .. 15
  BY <1>1, SMT DEF Push, OneG
<1>3. \A i \in Axis : -8190 <= m.trim[i] /\ m.trim[i] <= 8190
  <2>1. \A i \in Axis : m.trim[i] \in Int
    BY <1>1, SMT DEF Vector
  <2> QED BY <1>1, <2>1, SMT DEF Magnitude, OneG
<1> QED BY <1>1, <1>2, <1>3

\* Gravity on an axis, of one of the mounting's units.
Unit(m) == OneG \div m.length

LEMMA GravityWithinG ==
  ASSUME NEW m \in Mountings, NEW i \in Axis
  PROVE  /\ Unit(m) \in Nat /\ Unit(m) * m.up[i] \in Int
         /\ -8190 <= Unit(m) * m.up[i] /\ Unit(m) * m.up[i] <= 8190
<1>1. m.length \in Nat \ {0} /\ m.up \in Vector /\ Dot(m.up, m.up) = m.length * m.length
  BY MountingFacts, SMT
<1>2. -m.length <= m.up[i] /\ m.up[i] <= m.length /\ m.up[i] \in Int
  <2>1. m.length \in Nat
    BY <1>1
  <2> QED BY <1>1, <2>1, AxisWithinLength, SMT DEF Vector
<1> DEFINE k == Unit(m)
           l == m.length
           x == m.up[i]
<1>3. k \in Nat /\ l * k <= 8190
  <2>1. l * (8190 \div l) <= 8190 /\ 8190 \div l \in Nat
    BY <1>1, SMT
  <2> QED BY <2>1, SMT DEF Unit, OneG
<1> HIDE DEF k, l, x
<1>4. l \in Nat /\ x \in Int /\ -l <= x /\ x <= l
  BY <1>1, <1>2 DEF l, x
<1>5. k * x <= k * l /\ k * (-l) <= k * x
  BY <1>3, <1>4, SMT
<1>6. k * l = l * k /\ k * (-l) = -(l * k) /\ k * x \in Int /\ l * k \in Int
  BY <1>3, <1>4, SMT
<1> DEFINE kx == k * x
           lk == l * k
<1>7. kx \in Int /\ lk \in Int /\ kx <= lk /\ -lk <= kx /\ lk <= 8190
  BY <1>3, <1>5, <1>6, SMT
<1> HIDE DEF kx, lk
<1>8. -8190 <= kx /\ kx <= 8190
  BY <1>7, SMT
<1> QED BY <1>3, <1>6, <1>8, SMT DEF kx, k, x

LEMMA MountingUpright ==
  ASSUME NEW m \in Mountings, NEW yaw \in 0 .. 3
  PROVE  Upright(RebuildRotation(Bias(m), yaw), m.up, m.length)
<1>1. m.length \in Nat \ {0} /\ m.up \in Vector /\ Dot(m.up, m.up) = m.length * m.length
  BY MountingFacts, SMT
<1>2. RebuildRotation(Bias(m), yaw) = Multiply(RotationAboutZ(yaw), Level(Bias(m)))
  BY Zenon DEF RebuildRotation, Bias
<1>3. Level(Bias(m)) = RotationAligningVector(m.up, m.length, Up, 1)
  BY Zenon DEF Level, Bias
<1>4. Upright(RotationAligningVector(m.up, m.length, Up, 1), m.up, m.length)
  BY <1>1, LevelIsUpright, Zenon
<1>5. Upright(Level(Bias(m)), m.up, m.length)
  BY <1>3, <1>4, Zenon
<1>6. Upright(Multiply(RotationAboutZ(yaw), Level(Bias(m))), m.up, m.length)
  BY <1>1, <1>5, UprightTurned, Zenon
<1> QED BY <1>2, <1>6, Zenon

\* A turn is linear.
SumOf(w, k, u, v) == \A i \in Axis : w[i] = k * u[i] + v[i]

LEMMA TurnIsLinear ==
  ASSUME NEW r, Turns(r), NEW u \in Vector, NEW v \in Vector, NEW k \in Int, NEW w \in Vector,
         SumOf(w, k, u, v), NEW i \in Axis
  PROVE  Apply(r, w)[i] = k * Apply(r, u)[i] + Apply(r, v)[i]
<1> DEFINE n(j) == r.num[i][j]
<1>1. r.num \in [Axis -> Vector]
  BY DEF Turns
<1>2. n(1) \in Int /\ n(2) \in Int /\ n(3) \in Int
  BY <1>1 DEF Vector, Axis
<1>3. /\ u[1] \in Int /\ u[2] \in Int /\ u[3] \in Int /\ v[1] \in Int /\ v[2] \in Int /\ v[3] \in Int
      /\ w[1] = k * u[1] + v[1] /\ w[2] = k * u[2] + v[2] /\ w[3] = k * u[3] + v[3]
  BY Axes DEF SumOf
<1>4. /\ Apply(r, w)[i] = n(1) * w[1] + n(2) * w[2] + n(3) * w[3]
      /\ Apply(r, u)[i] = n(1) * u[1] + n(2) * u[2] + n(3) * u[3]
      /\ Apply(r, v)[i] = n(1) * v[1] + n(2) * v[2] + n(3) * v[3]
  BY <1>1, AppliedVector
<1> HIDE DEF n
<1>5. n(1) * (k * u[1] + v[1]) + n(2) * (k * u[2] + v[2]) + n(3) * (k * u[3] + v[3])
        = k * (n(1) * u[1] + n(2) * u[2] + n(3) * u[3]) + (n(1) * v[1] + n(2) * v[2] + n(3) * v[3])
  BY <1>2, <1>3
<1> QED BY <1>3, <1>4, <1>5, Zenon

LEMMA TurnScales ==
  ASSUME NEW r, Turns(r), NEW u \in Vector, NEW k \in Int, NEW i \in Axis
  PROVE  Scaled(k, u) \in Vector /\ Apply(r, Scaled(k, u))[i] = k * Apply(r, u)[i]
<1> DEFINE z == [j \in Axis |-> 0]
<1>1. z \in Vector /\ Scaled(k, u) \in Vector
      /\ SumOf(Scaled(k, u), k, u, z)
  BY DEF Vector, Scaled, SumOf
<1>2. Apply(r, z)[i] = 0 /\ Apply(r, u)[i] \in Int
  <2>1. r.num \in [Axis -> Vector]
    BY DEF Turns
  <2>2. r.num[i][1] \in Int /\ r.num[i][2] \in Int /\ r.num[i][3] \in Int
    BY <2>1 DEF Vector, Axis
  <2>3. Apply(r, z)[i] = r.num[i][1] * z[1] + r.num[i][2] * z[2] + r.num[i][3] * z[3]
    BY <1>1, <2>1, AppliedVector
  <2>4. z[1] = 0 /\ z[2] = 0 /\ z[3] = 0
    BY Axes
  <2>5. Apply(r, u) \in Vector
    BY <2>1, AppliedVector
  <2> QED BY <2>2, <2>3, <2>4, <2>5 DEF Vector
<1> HIDE DEF z
<1>3. Apply(r, Scaled(k, u))[i] = k * Apply(r, u)[i] + Apply(r, z)[i]
  BY <1>1, TurnIsLinear
<1> QED BY <1>1, <1>2, <1>3

\* What is level in an upright box has nothing on Z, and keeps its length.
LEMMA LevelStaysLevel ==
  ASSUME NEW r, NEW u \in Vector, NEW l \in Nat \ {0}, Upright(r, u, l),
         NEW v \in Vector, Dot(u, v) = 0
  PROVE  /\ Apply(r, v) \in Vector
         /\ Apply(r, v)[3] = 0
         /\ Apply(r, v)[1] * Apply(r, v)[1] + Apply(r, v)[2] * Apply(r, v)[2]
              = r.den * r.den * Dot(v, v)
<1>1. /\ Turns(r) /\ r.den \in Nat \ {0} /\ r.num \in [Axis -> Vector]
      /\ Apply(r, u)[1] = 0 /\ Apply(r, u)[2] = 0 /\ Apply(r, u)[3] = r.den * l
  BY DEF Upright, Turns
<1> DEFINE a == Apply(r, v)
<1>2. a \in Vector
  BY <1>1, AppliedVector
<1>3. Dot(Apply(r, u), a) = r.den * r.den * Dot(u, v) /\ Dot(a, a) = r.den * r.den * Dot(v, v)
  BY <1>1, TurnKeepsDot, Zenon
<1> HIDE DEF a
<1>4. a[1] \in Int /\ a[2] \in Int /\ a[3] \in Int
  BY <1>2, Axes
<1>5. (r.den * l) * a[3] = 0
  <2>1. Dot(Apply(r, u), a) = 0 * a[1] + 0 * a[2] + (r.den * l) * a[3]
    BY <1>1, Zenon DEF Dot
  <2>2. 0 * a[1] + 0 * a[2] + (r.den * l) * a[3] = (r.den * l) * a[3]
    BY <1>1, <1>4
  <2>3. r.den * r.den * 0 = 0
    BY <1>1
  <2> QED BY <1>3, <2>1, <2>2, <2>3, Zenon
<1>6. a[3] = 0
  BY <1>1, <1>4, <1>5
<1>7. Dot(a, a) = a[1] * a[1] + a[2] * a[2]
  <2>1. Dot(a, a) = a[1] * a[1] + a[2] * a[2] + 0 * 0
    BY <1>6, Zenon DEF Dot
  <2> QED BY <1>4, <2>1
<1> QED BY <1>2, <1>3, <1>6, <1>7, Zenon DEF a

\* When forward is on X, X is what is along forward.
OnX(r, f, l) == Apply(r, f) = <<r.den * l, 0, 0>>

LEMMA AlongForward ==
  ASSUME NEW r, Turns(r), NEW l \in Nat \ {0}, NEW f \in Vector, OnX(r, f, l),
         NEW v \in Vector
  PROVE  Apply(r, v)[1] \in Int /\ l * Apply(r, v)[1] = r.den * Dot(f, v)
<1>1. r.den \in Nat \ {0} /\ r.num \in [Axis -> Vector]
  BY DEF Turns
<1> DEFINE a == Apply(r, v)
           d == r.den
<1>2. a \in Vector
  BY <1>1, AppliedVector
<1>3. Dot(Apply(r, f), a) = d * d * Dot(f, v)
  BY TurnKeepsDot, Zenon
<1> HIDE DEF a
<1>4. a[1] \in Int /\ a[2] \in Int /\ a[3] \in Int
  BY <1>2, Axes
<1>5. Dot(Apply(r, f), a) = (d * l) * a[1]
  <2>1. Apply(r, f)[1] = d * l /\ Apply(r, f)[2] = 0 /\ Apply(r, f)[3] = 0
    BY DEF OnX
  <2>2. Dot(Apply(r, f), a) = (d * l) * a[1] + 0 * a[2] + 0 * a[3]
    BY <2>1, Zenon DEF Dot
  <2>3. (d * l) * a[1] + 0 * a[2] + 0 * a[3] = (d * l) * a[1]
    BY <1>1, <1>4
  <2> QED BY <2>2, <2>3, Zenon
<1> DEFINE p == Dot(f, v)
<1>6. p \in Int
  <2>1. f[1] \in Int /\ f[2] \in Int /\ f[3] \in Int /\ v[1] \in Int /\ v[2] \in Int /\ v[3] \in Int
    BY Axes
  <2> QED BY <2>1 DEF Dot
<1>7. d \in Nat \ {0} /\ (d * l) * a[1] = d * d * p
  BY <1>1, <1>3, <1>5, Zenon
<1> HIDE DEF p, d
<1>8. l * a[1] = d * p
  <2> DEFINE s == l * a[1] - d * p
  <2>1. s \in Int /\ d * s = 0
    BY <1>4, <1>6, <1>7
  <2>2. s = 0
    <3> HIDE DEF s
    <3> QED BY <1>7, <2>1
  <2>3. l * a[1] \in Int /\ d * p \in Int
    BY <1>4, <1>6, <1>7
  <2> QED BY <2>2, <2>3
<1> QED BY <1>4, <1>8 DEF a, p, d

\* What the sensor reads on an axis, before it is trimmed.
RawReading(m, push, i) == Clamp(Unit(m) * m.up[i] + push[i] + m.trim[i], -32768, 32767)

LEMMA SampleAxis ==
  ASSUME NEW m \in Mountings, NEW push \in Vector, NEW turn
  PROVE  /\ SampleOf(m, push, turn).accel \in Vector
         /\ \A i \in Axis : SampleOf(m, push, turn).accel[i]
                              = Clamp(RawReading(m, push, i) - m.trim[i], -32768, 32767)
<1> DEFINE s == SampleOf(m, push, turn).accel
<1>1. s = [i \in Axis |-> Clamp(RawReading(m, push, i) - m.trim[i], -32768, 32767)]
  <2>1. Bias(m).size = Unit(m)
    BY Zenon DEF Bias, Unit
  <2>2. s = ApplyRawAccelBias([i \in Axis |-> Clamp(Bias(m).size * m.up[i] + push[i] + m.trim[i],
                                                    -32768, 32767)], m.trim)
    BY SMT DEF SampleOf
  <2> HIDE DEF s
  <2> QED BY <2>1, <2>2, SMT DEF ApplyRawAccelBias, Trimmed, RawReading
<1>2. ASSUME NEW i \in Axis
      PROVE  Clamp(RawReading(m, push, i) - m.trim[i], -32768, 32767) \in Int
  <2>1. Unit(m) * m.up[i] \in Int /\ push[i] \in Int /\ m.trim[i] \in Int
    BY GravityWithinG, MountingFacts, SMT DEF Vector
  <2> DEFINE g == Unit(m) * m.up[i]
  <2>2. RawReading(m, push, i) = Clamp(g + push[i] + m.trim[i], -32768, 32767)
    BY SMT DEF RawReading
  <2> HIDE DEF g
  <2>3. g \in Int
    BY <2>1 DEF g
  <2> QED BY <2>1, <2>2, <2>3, SMT DEF Clamp
<1> HIDE DEF s
<1>3. s \in Vector
  BY <1>1, <1>2, SMT DEF Vector
<1> QED BY <1>1, <1>3, SMT DEF s

WithinTwoG(push) == \A i \in Axis : -16380 <= push[i] /\ push[i] <= 16380

\* Within two g, a sample is gravity and the push, and the trim is made up for.
LEMMA SampleIsSum ==
  ASSUME NEW m \in Mountings, NEW push \in Vector, NEW turn,
         WithinTwoG(push), NEW i \in Axis
  PROVE  SampleOf(m, push, turn).accel[i] = Unit(m) * m.up[i] + push[i]
<1> DEFINE g == Unit(m) * m.up[i]
<1>1. g \in Int /\ -8190 <= g /\ g <= 8190
  BY GravityWithinG, SMT
<1>2. RawReading(m, push, i) = Clamp(g + push[i] + m.trim[i], -32768, 32767)
  BY SMT DEF RawReading
<1> HIDE DEF g
<1>3. /\ push[i] \in Int /\ -16380 <= push[i] /\ push[i] <= 16380
      /\ m.trim[i] \in Int /\ -8190 <= m.trim[i] /\ m.trim[i] <= 8190
  BY MountingFacts, SMT DEF Vector, WithinTwoG
<1>4. SampleOf(m, push, turn).accel[i] = Clamp(RawReading(m, push, i) - m.trim[i], -32768, 32767)
  BY SampleAxis, SMT
<1>5. RawReading(m, push, i) = g + push[i] + m.trim[i]
  BY <1>1, <1>2, <1>3, SMT DEF Clamp
<1>6. SampleOf(m, push, turn).accel[i] = g + push[i]
  BY <1>1, <1>3, <1>4, <1>5, SMT DEF Clamp
<1> QED BY <1>6 DEF g

\* A reading at the end of the range keeps its sign.
LEMMA StrikeKeepsSign ==
  ASSUME NEW m \in Mountings, NEW turn, NEW i \in Axis
  PROVE  LET s == SampleOf(m, Scaled(40000, m.forward), turn).accel[i]
         IN  /\ s \in Int /\ m.forward[i] \in Int
             /\ m.forward[i] > 0 => s >= 15430
             /\ m.forward[i] < 0 => s <= -15430
<1> DEFINE push == Scaled(40000, m.forward)
           g == Unit(m) * m.up[i]
           s == SampleOf(m, push, turn).accel[i]
<1>1. g \in Int /\ -8190 <= g /\ g <= 8190
  BY GravityWithinG, SMT
<1>2. RawReading(m, push, i) = Clamp(g + push[i] + m.trim[i], -32768, 32767)
  BY SMT DEF RawReading
<1> HIDE DEF g
<1>3. /\ m.forward[i] \in Int /\ push[i] = 40000 * m.forward[i] /\ push \in Vector
      /\ m.trim[i] \in Int /\ -8190 <= m.trim[i] /\ m.trim[i] <= 8190
  BY MountingFacts, SMT DEF Vector, Scaled
<1> HIDE DEF push
<1>4. s = Clamp(RawReading(m, push, i) - m.trim[i], -32768, 32767)
  BY <1>3, SampleAxis, SMT
<1> HIDE DEF s
<1> DEFINE w == RawReading(m, push, i)
<1>5. w \in Int /\ (m.forward[i] > 0 => w >= 23620) /\ (m.forward[i] < 0 => w <= -23620)
  BY <1>1, <1>2, <1>3, SMT DEF Clamp
<1> HIDE DEF w
<1>6. s = Clamp(w - m.trim[i], -32768, 32767)
  BY <1>4 DEF w
<1>7. s \in Int /\ (m.forward[i] > 0 => s >= 15430) /\ (m.forward[i] < 0 => s <= -15430)
  BY <1>3, <1>5, <1>6, SMT DEF Clamp
<1> QED BY <1>3, <1>7 DEF s, push

\* What is processed is the turned sample, less gravity on Z.
LEMMA Processed ==
  ASSUME NEW m \in Mountings, NEW yaw \in 0 .. 3, NEW s \in Vector
  PROVE  LET r == RebuildRotation(Bias(m), yaw)
             a == ProcessAccel(Bias(m), yaw, s)
         IN  /\ Apply(r, s)[1] \in Int /\ Apply(r, s)[2] \in Int /\ Apply(r, s)[3] \in Int
             /\ a[1] = Apply(r, s)[1] /\ a[2] = Apply(r, s)[2]
             /\ a[3] = Apply(r, s)[3] - r.den * m.length * Unit(m)
<1> DEFINE r == RebuildRotation(Bias(m), yaw)
           e == r.den * m.length * Unit(m)
           g == <<0, 0, e>>
           t == Apply(r, s)
<1>1. ProcessAccel(Bias(m), yaw, s) = Minus(t, g)
  <2>1. Bias(m).valid = TRUE /\ Bias(m).length = m.length /\ Bias(m).size = Unit(m)
    BY Zenon DEF Bias, Unit
  <2> QED BY <2>1, Zenon DEF ProcessAccel
<1>2. t \in Vector /\ e \in Int
  <2>1. r.num \in [Axis -> Vector] /\ r.den \in Nat \ {0}
    BY MountingUpright, Zenon DEF Upright, Turns
  <2>2. m.length \in Nat \ {0}
    BY MountingFacts, SMT
  <2>3. Unit(m) \in Nat
    BY GravityWithinG, Axes
  <2>4. t \in Vector
    BY <2>1, AppliedVector, Zenon
  <2> HIDE DEF r
  <2> QED BY <2>1, <2>2, <2>3, <2>4, SMT
<1> HIDE DEF r, e, t
<1>3. g[1] = 0 /\ g[2] = 0 /\ g[3] = e
  OBVIOUS
<1>4. t[1] \in Int /\ t[2] \in Int /\ t[3] \in Int
  BY <1>2, Axes
<1> HIDE DEF g
<1>5. Minus(t, g)[1] = t[1] /\ Minus(t, g)[2] = t[2] /\ Minus(t, g)[3] = t[3] - e
  BY <1>2, <1>3, <1>4, SMT DEF Minus, Plus, Scaled, Axis
<1> QED BY <1>1, <1>4, <1>5, Zenon DEF r, t, e

\* Gravity is gone, and the push is left, turned.
LEMMA PushIsLeft ==
  ASSUME NEW m \in Mountings, NEW yaw \in 0 .. 3, NEW push \in Vector, NEW turn,
         WithinTwoG(push), NEW i \in Axis
  PROVE  ProcessAccel(Bias(m), yaw, SampleOf(m, push, turn).accel)[i]
           = Apply(RebuildRotation(Bias(m), yaw), push)[i]
<1> DEFINE r == RebuildRotation(Bias(m), yaw)
           s == SampleOf(m, push, turn).accel
           k == Unit(m)
           l == m.length
           a == ProcessAccel(Bias(m), yaw, s)
           p == Apply(r, push)
<1>1. l \in Nat \ {0} /\ m.up \in Vector
  BY MountingFacts, SMT
<1>2. k \in Nat
  BY GravityWithinG, Axes
<1>3. /\ Turns(r) /\ r.den \in Nat \ {0} /\ r.num \in [Axis -> Vector]
      /\ Apply(r, m.up)[1] = 0 /\ Apply(r, m.up)[2] = 0 /\ Apply(r, m.up)[3] = r.den * l
  BY MountingUpright, Zenon DEF Upright, Turns
<1>4. s \in Vector
  BY SampleAxis
<1>5. SumOf(s, k, m.up, push)
  BY SampleIsSum DEF SumOf
<1>6. /\ a[1] = Apply(r, s)[1] /\ a[2] = Apply(r, s)[2]
      /\ a[3] = Apply(r, s)[3] - r.den * l * k
  BY <1>4, Processed, Zenon
<1>7. p \in Vector
  BY <1>3, AppliedVector, Zenon
<1> HIDE DEF r, s, k, l, a, p
<1>8. \A j \in Axis : Apply(r, s)[j] = k * Apply(r, m.up)[j] + p[j]
  <2>1. k \in Int /\ Turns(r) /\ m.up \in Vector /\ s \in Vector
    BY <1>1, <1>2, <1>3, <1>4
  <2>2. \A j \in Axis : Apply(r, s)[j] = k * Apply(r, m.up)[j] + Apply(r, push)[j]
    <3> SUFFICES ASSUME NEW j \in Axis
                 PROVE  Apply(r, s)[j] = k * Apply(r, m.up)[j] + Apply(r, push)[j]
      OBVIOUS
    <3>1. push \in Vector
      OBVIOUS
    <3> QED BY <1>5, <2>1, <3>1, TurnIsLinear
  <2> QED BY <2>2, Zenon DEF p
<1>9. /\ Apply(r, s)[1] = k * 0 + p[1] /\ Apply(r, s)[2] = k * 0 + p[2]
      /\ Apply(r, s)[3] = k * (r.den * l) + p[3]
  BY <1>3, <1>8, Axes, Zenon
<1>10. p[1] \in Int /\ p[2] \in Int /\ p[3] \in Int
  BY <1>7, Axes
<1>11. a[1] = p[1]
  BY <1>2, <1>6, <1>9, <1>10
<1>12. a[2] = p[2]
  BY <1>2, <1>6, <1>9, <1>10
<1>13. a[3] = p[3]
  <2> DEFINE d == r.den
  <2>1. d \in Int /\ l \in Int /\ k \in Int /\ p[3] \in Int
    BY <1>1, <1>2, <1>3, <1>10
  <2>2. a[3] = (k * (d * l) + p[3]) - d * l * k
    BY <1>6, <1>9, Zenon
  <2> HIDE DEF d
  <2>3. (k * (d * l) + p[3]) - d * l * k = p[3]
    BY <2>1
  <2> QED BY <2>2, <2>3, Zenon
<1>14. i = 1 \/ i = 2 \/ i = 3
  BY DEF Axis
<1> QED BY <1>11, <1>12, <1>13, <1>14, Zenon DEF r, s, a, p

\* The motion channel, as a function of the processed readings.
MotionShown(m, yaw, push, turn) == MotionPayload(Bias(m), yaw, SampleOf(m, push, turn), 1, 1)
Levelled(m, yaw) == RebuildRotation(Bias(m), yaw)

LEMMA Triple ==
  ASSUME NEW f, f = [i \in Axis |-> f[i]], NEW x, NEW y, NEW z, f[1] = x, f[2] = y, f[3] = z
  PROVE  f = <<x, y, z>>
<1>1. DOMAIN f = 1 .. 3 /\ DOMAIN <<x, y, z>> = 1 .. 3
  BY DEF Axis
<1>2. \A i \in 1 .. 3 : f[i] = <<x, y, z>>[i]
  <2> SUFFICES ASSUME NEW i \in 1 .. 3 PROVE f[i] = <<x, y, z>>[i]
    OBVIOUS
  <2>1. i = 1 \/ i = 2 \/ i = 3
    OBVIOUS
  <2> QED BY <2>1
<1>3. <<x, y, z>> = [i \in 1 .. 3 |-> <<x, y, z>>[i]]
  OBVIOUS
<1>4. f = [i \in 1 .. 3 |-> f[i]]
  BY DEF Axis
<1> QED BY <1>2, <1>3, <1>4

\* A push shows as what is left of it, turned.
LEMMA PushedShows ==
  ASSUME NEW m \in Mountings, NEW yaw \in 0 .. 3, NEW push \in Vector, WithinTwoG(push), NEW turn
  PROVE  \A i \in Axis : MotionShown(m, yaw, push, turn).accel[i]
           = AccelShown(Apply(Levelled(m, yaw), push)[i], Levelled(m, yaw).den)
<1>1. TAKE i \in Axis
<1> DEFINE a == ProcessAccel(Bias(m), yaw, SampleOf(m, push, turn).accel)
           d == Levelled(m, yaw).den
           shows == MotionShown(m, yaw, push, turn).accel
<1>2. shows = [j \in Axis |-> AccelShown(a[j], d)]
  BY SMT DEF MotionShown, MotionPayload, AccelShown, Levelled
<1>3. a[i] = Apply(Levelled(m, yaw), push)[i]
  BY PushIsLeft DEF Levelled
<1> HIDE DEF a, d, shows
<1>4. shows[i] = AccelShown(a[i], d)
  BY <1>2
<1> QED BY <1>3, <1>4, Zenon DEF shows, d

\* A push along a direction of the mounting's length.
Direction(m, v) == v \in Vector /\ Dot(v, v) = m.length * m.length

LEMMA DirectionShows ==
  ASSUME NEW m \in Mountings, NEW yaw \in 0 .. 3, NEW v, Direction(m, v), NEW turn, NEW i \in Axis
  PROVE  LET r == Levelled(m, yaw)
         IN  /\ Apply(r, v)[i] \in Int
             /\ -(15 * r.den) <= Apply(r, v)[i] /\ Apply(r, v)[i] <= 15 * r.den
             /\ MotionShown(m, yaw, Scaled(Push, v), turn).accel[i]
                  = AccelShown(Push * Apply(r, v)[i], r.den)
<1> DEFINE r == Levelled(m, yaw)
           l == m.length
           a == Apply(r, v)
<1>1. v \in Vector /\ Dot(v, v) = l * l /\ l \in 1 .. 15
  BY MountingFacts, SMT DEF Direction
<1>2. Turns(r) /\ r.den \in Nat \ {0} /\ r.num \in [Axis -> Vector]
  BY MountingUpright, Zenon DEF Upright, Turns, Levelled
<1>3. a \in Vector /\ Dot(a, a) = r.den * r.den * Dot(v, v)
  BY <1>1, <1>2, TurnKeepsDot, AppliedVector, Zenon
<1>4. WithinTwoG(Scaled(Push, v)) /\ Scaled(Push, v) \in Vector
  <2>1. \A j \in Axis : v[j] \in Int /\ -l <= v[j] /\ v[j] <= l
    <3>1. l \in Nat
      BY <1>1
    <3> QED BY <1>1, <3>1, AxisWithinLength, SMT DEF Vector
  <2>2. \A j \in Axis : Scaled(Push, v)[j] = 1024 * v[j]
    BY SMT DEF Scaled, Push
  <2>3. Push * l <= 16380
    BY MountingAssumption, SMT DEF Push, OneG
  <2>4. 1024 * l <= 16380
    BY <2>3, SMT DEF Push
  <2> HIDE DEF l
  <2>5. WithinTwoG(Scaled(Push, v))
    BY <1>1, <2>1, <2>2, <2>4, SMT DEF WithinTwoG
  <2>6. Push \in Int
    BY SMT DEF Push
  <2> QED BY <1>1, <1>2, <2>5, <2>6, TurnScales, Axes
<1>5. MotionShown(m, yaw, Scaled(Push, v), turn).accel[i] = AccelShown(Apply(r, Scaled(Push, v))[i], r.den)
  BY <1>4, PushedShows, Zenon
<1>6. Apply(r, Scaled(Push, v))[i] = Push * a[i]
  <2>1. Push \in Int
    BY SMT DEF Push
  <2> QED BY <1>1, <1>2, <2>1, TurnScales, Zenon
<1> HIDE DEF r, a, l
<1>7. -(r.den * l) <= a[i] /\ a[i] <= r.den * l /\ a[i] \in Int
  <2> DEFINE n == r.den * l
  <2>1. n \in Nat /\ n * n = r.den * r.den * (l * l)
    BY <1>1, <1>2, SMT
  <2>2. Dot(a, a) = n * n
    BY <1>1, <1>3, <2>1, Zenon
  <2> HIDE DEF n
  <2>3. -n <= a[i] /\ a[i] <= n /\ a[i] \in Int
    <3>1. a[i] \in Int
      BY <1>3, SMT DEF Vector
    <3>2. -n <= a[i] /\ a[i] <= n
      BY <1>3, <2>1, <2>2, AxisWithinLength, Zenon
    <3> QED BY <3>1, <3>2
  <2> QED BY <2>3 DEF n
<1>8. -(15 * r.den) <= a[i] /\ a[i] <= 15 * r.den
  <2>1. r.den * l <= r.den * 15
    BY <1>1, <1>2, SMT
  <2> QED BY <1>1, <1>2, <1>7, <2>1, SMT
<1> QED BY <1>5, <1>6, <1>7, <1>8 DEF r, a

\* A push of n units, in milli-g.
MilliG(n) == 125 * n

\* What is turned onto an axis shows on it, whole.
LEMMA WholeShows ==
  ASSUME NEW m \in Mountings, NEW yaw \in 0 .. 3, NEW v, Direction(m, v), NEW turn, NEW i \in Axis,
         NEW n \in {0, m.length, -m.length}, Apply(Levelled(m, yaw), v)[i] = Levelled(m, yaw).den * n
  PROVE  MotionShown(m, yaw, Scaled(Push, v), turn).accel[i] = MilliG(n)
<1> DEFINE d == Levelled(m, yaw).den
           a == Apply(Levelled(m, yaw), v)[i]
<1>1. n \in -15 .. 15
  BY MountingFacts, SMT
<1>2. d \in Nat \ {0}
  BY MountingUpright, Zenon DEF Upright, Turns, Levelled
<1>3. a = d * n /\ MotionShown(m, yaw, Scaled(Push, v), turn).accel[i] = AccelShown(Push * a, d)
  BY DirectionShows, SMT
<1> HIDE DEF d, a
<1>4. AccelShown(Push * a, d) = 125 * n
  BY <1>1, <1>2, <1>3, WholePushShown
<1> QED BY <1>3, <1>4 DEF MilliG

LEMMA ShownAccel ==
  ASSUME NEW m, NEW yaw, NEW push, NEW turn, NEW x, NEW y, NEW z,
         MotionShown(m, yaw, push, turn).accel[1] = x,
         MotionShown(m, yaw, push, turn).accel[2] = y,
         MotionShown(m, yaw, push, turn).accel[3] = z
  PROVE  MotionShown(m, yaw, push, turn).accel = <<x, y, z>>
<1> DEFINE f == MotionShown(m, yaw, push, turn).accel
<1>1. f = [i \in Axis |-> f[i]]
  BY SMT DEF MotionShown, MotionPayload
<1> HIDE DEF f
<1>2. f[1] = x /\ f[2] = y /\ f[3] = z
  BY DEF f
<1> QED BY <1>1, <1>2, Triple DEF f

\* What is up shows on Z.
LEMMA UpShows ==
  ASSUME NEW m \in Mountings, NEW yaw \in 0 .. 3, NEW turn
  PROVE  MotionShown(m, yaw, Scaled(Push, m.up), turn).accel = <<0, 0, 125 * m.length>>
<1> DEFINE r == Levelled(m, yaw)
           x(i) == MotionShown(m, yaw, Scaled(Push, m.up), turn).accel[i]
           l == m.length
<1>1. Direction(m, m.up)
  BY MountingFacts, SMT DEF Direction
<1>2. /\ r.den \in Nat \ {0} /\ l \in Nat
      /\ Apply(r, m.up)[1] = 0 /\ Apply(r, m.up)[2] = 0 /\ Apply(r, m.up)[3] = r.den * l
  <2>1. l \in Nat
    BY MountingFacts, SMT
  <2> QED BY <2>1, MountingUpright, Zenon DEF Upright, Turns, Levelled
<1>3. Apply(r, m.up)[1] = r.den * 0 /\ Apply(r, m.up)[2] = r.den * 0
  BY <1>2
<1>4. 0 \in {0, l, -l} /\ l \in {0, l, -l}
  OBVIOUS
<1>5. x(1) = MilliG(0) /\ x(2) = MilliG(0)
  <2>1. x(1) = MilliG(0)
    BY <1>1, <1>3, <1>4, WholeShows, Axes
  <2>2. x(2) = MilliG(0)
    BY <1>1, <1>3, <1>4, WholeShows, Axes
  <2> QED BY <2>1, <2>2
<1>6. x(3) = MilliG(l)
  BY <1>1, <1>2, <1>4, WholeShows, Axes
<1>7. x(1) = 0 /\ x(2) = 0
  BY <1>5, SMT DEF MilliG
<1> QED BY <1>6, <1>7, ShownAccel, SMT DEF MilliG

LEMMA ForwardShows ==
  ASSUME NEW m \in Mountings, NEW yaw \in YawsOf(m), NEW turn
  PROVE  MotionShown(m, yaw, Scaled(Push, m.forward), turn).accel = <<125 * m.length, 0, 0>>
<1> DEFINE r == Levelled(m, yaw)
           x(i) == MotionShown(m, yaw, Scaled(Push, m.forward), turn).accel[i]
           l == m.length
<1>1. Direction(m, m.forward) /\ l \in Nat
  BY MountingFacts, SMT DEF Direction
<1>2. yaw \in 0 .. 3 /\ Apply(r, m.forward) = <<r.den * l, 0, 0>>
  BY Zenon DEF YawsOf, Levelled
<1>3. r.den \in Nat \ {0}
  BY <1>2, MountingUpright, Zenon DEF Upright, Turns, Levelled
<1>4. /\ Apply(r, m.forward)[1] = r.den * l
      /\ Apply(r, m.forward)[2] = r.den * 0 /\ Apply(r, m.forward)[3] = r.den * 0
  <2>1. r.den * 0 = 0
    BY <1>3
  <2> HIDE DEF r
  <2>2. /\ Apply(r, m.forward)[1] = r.den * l
        /\ Apply(r, m.forward)[2] = 0 /\ Apply(r, m.forward)[3] = 0
    BY <1>2
  <2> QED BY <2>1, <2>2
<1>5. 0 \in {0, l, -l} /\ l \in {0, l, -l}
  OBVIOUS
<1>6. x(2) = MilliG(0) /\ x(3) = MilliG(0)
  <2>1. x(2) = MilliG(0)
    BY <1>1, <1>2, <1>4, <1>5, WholeShows, Axes
  <2>2. x(3) = MilliG(0)
    BY <1>1, <1>2, <1>4, <1>5, WholeShows, Axes
  <2> QED BY <2>1, <2>2
<1>7. x(1) = MilliG(l)
  BY <1>1, <1>2, <1>4, <1>5, WholeShows, Axes
<1>8. x(2) = 0 /\ x(3) = 0
  BY <1>6, SMT DEF MilliG
<1> QED BY <1>7, <1>8, ShownAccel, SMT DEF MilliG

\* What is level shows off Z, and of its length.
LEMMA LevelShows ==
  ASSUME NEW m \in Mountings, NEW yaw \in 0 .. 3, NEW turn
  PROVE  LET s == MotionShown(m, yaw, Scaled(Push, m.forward), turn).accel
             p == 125 * m.length
         IN  s[3] = 0 /\ Magnitude(s[1] * s[1] + s[2] * s[2] - p * p) <= 2 * p
<1> DEFINE r == Levelled(m, yaw)
           s == MotionShown(m, yaw, Scaled(Push, m.forward), turn).accel
           l == m.length
           d == r.den
           a == Apply(r, m.forward)
           x == s[1]
           y == s[2]
           p == 125 * l
<1>1. Direction(m, m.forward) /\ m.forward \in Vector /\ Dot(m.forward, m.forward) = l * l
  BY MountingFacts, SMT DEF Direction
<1>2. l \in Nat \ {0} /\ m.up \in Vector /\ Dot(m.up, m.forward) = 0
  BY MountingFacts, SMT
<1>3. d \in Nat \ {0} /\ Upright(r, m.up, l)
  BY MountingUpright, Zenon DEF Upright, Turns, Levelled
<1>4. a[3] = 0 /\ a[1] * a[1] + a[2] * a[2] = d * d * (l * l)
  <2> HIDE DEF r, l
  <2>1. a[3] = 0 /\ a[1] * a[1] + a[2] * a[2] = d * d * Dot(m.forward, m.forward)
    BY <1>1, <1>2, <1>3, LevelStaysLevel, Zenon
  <2> QED BY <1>1, <2>1, Zenon
<1>5. s[3] = 0
  <2>1. a[3] = d * 0 /\ 0 \in {0, l, -l}
    BY <1>3, <1>4
  <2>2. s[3] = MilliG(0)
    BY <1>1, <2>1, WholeShows, Axes
  <2> HIDE DEF s
  <2> QED BY <2>2, SMT DEF MilliG
<1>6. /\ a[1] \in Int /\ -(15 * d) <= a[1] /\ a[1] <= 15 * d /\ x = AccelShown(Push * a[1], d)
      /\ a[2] \in Int /\ -(15 * d) <= a[2] /\ a[2] <= 15 * d /\ y = AccelShown(Push * a[2], d)
  BY <1>1, DirectionShows, Axes, SMT
<1> HIDE DEF r, s, l, d, a
<1> DEFINE b == 125 * a[1]
           c == 125 * a[2]
<1>7. x \in Int /\ -d <= 2 * (d * x - b) /\ 2 * (d * x - b) <= d
  <2> HIDE DEF x
  <2> QED BY <1>3, <1>6, PushShown
<1>8. y \in Int /\ -d <= 2 * (d * y - c) /\ 2 * (d * y - c) <= d
  <2> HIDE DEF y
  <2> QED BY <1>3, <1>6, PushShown
<1>9. b \in Int /\ c \in Int /\ p \in Nat \ {0} /\ b * b + c * c = (d * p) * (d * p)
  <2>1. b \in Int /\ c \in Int /\ p \in Nat \ {0}
    BY <1>2, <1>6, SMT
  <2>2. b * b + c * c = 15625 * (a[1] * a[1] + a[2] * a[2])
    BY <1>6, SMT
  <2>3. (d * p) * (d * p) = 15625 * (d * d * (l * l))
    BY <1>2, <1>3, SMT
  <2> HIDE DEF b, c, p
  <2> QED BY <1>4, <2>1, <2>2, <2>3, SMT
<1> HIDE DEF x, y, b, c, p
<1>10. Magnitude(x * x + y * y - p * p) <= 2 * p
  BY <1>3, <1>7, <1>8, <1>9, LengthShown
<1> QED BY <1>5, <1>10, SMT DEF x, y, p, s, l

\* Right is at right angles to up and to forward, and of their length.
LEMMA RightIsSquare ==
  ASSUME NEW u \in Vector, NEW f \in Vector, NEW l \in Nat \ {0}, NEW w \in Vector,
         Dot(u, u) = l * l, Dot(f, f) = l * l, Dot(u, f) = 0,
         \A i \in Axis : l * w[i] = Cross(f, u)[i]
  PROVE  Dot(u, w) = 0 /\ Dot(f, w) = 0 /\ Dot(w, w) = l * l
<1> DEFINE a == u[1]  b == u[2]  c == u[3]  p == f[1]  q == f[2]  s == f[3]
           x == w[1]  y == w[2]  z == w[3]
<1>1. /\ a \in Int /\ b \in Int /\ c \in Int /\ p \in Int /\ q \in Int /\ s \in Int
      /\ x \in Int /\ y \in Int /\ z \in Int
  BY Axes
<1>2. /\ a * a + b * b + c * c = l * l /\ p * p + q * q + s * s = l * l /\ a * p + b * q + c * s = 0
  BY DEF Dot
<1>3. l * x = q * c - s * b /\ l * y = s * a - p * c /\ l * z = p * b - q * a
  <2>1. Cross(f, u)[1] = q * c - s * b /\ Cross(f, u)[2] = s * a - p * c /\ Cross(f, u)[3] = p * b - q * a
    BY DEF Cross
  <2> QED BY <2>1, Axes
<1>4. Dot(u, w) = a * x + b * y + c * z /\ Dot(f, w) = p * x + q * y + s * z
      /\ Dot(w, w) = x * x + y * y + z * z
  BY Zenon DEF Dot
<1> HIDE DEF a, b, c, p, q, s, x, y, z
<1>5. a * x + b * y + c * z = 0
  <2>1. l * (a * x + b * y + c * z) = a * (l * x) + b * (l * y) + c * (l * z)
    BY <1>1
  <2>2. a * (q * c - s * b) + b * (s * a - p * c) + c * (p * b - q * a) = 0
    BY <1>1
  <2> DEFINE t == a * x + b * y + c * z
  <2>3. t \in Int /\ l * t = 0
    BY <1>1, <1>3, <2>1, <2>2
  <2> HIDE DEF t
  <2>4. t = 0
    BY <2>3
  <2> QED BY <2>4 DEF t
<1>6. p * x + q * y + s * z = 0
  <2>1. l * (p * x + q * y + s * z) = p * (l * x) + q * (l * y) + s * (l * z)
    BY <1>1
  <2>2. p * (q * c - s * b) + q * (s * a - p * c) + s * (p * b - q * a) = 0
    BY <1>1
  <2> DEFINE t == p * x + q * y + s * z
  <2>3. t \in Int /\ l * t = 0
    BY <1>1, <1>3, <2>1, <2>2
  <2> HIDE DEF t
  <2>4. t = 0
    BY <2>3
  <2> QED BY <2>4 DEF t
<1>7. x * x + y * y + z * z = l * l
  <2>1. l * l * (x * x + y * y + z * z) = (l * x) * (l * x) + (l * y) * (l * y) + (l * z) * (l * z)
    BY <1>1
  <2>2. (q * c - s * b) * (q * c - s * b) + (s * a - p * c) * (s * a - p * c)
          + (p * b - q * a) * (p * b - q * a)
          = (a * a + b * b + c * c) * (p * p + q * q + s * s)
            - (a * p + b * q + c * s) * (a * p + b * q + c * s)
    BY <1>1
  <2> DEFINE t == x * x + y * y + z * z
             k == l * l
  <2>3. t \in Int /\ k \in Nat \ {0}
    BY <1>1
  <2>4. k * t = k * k - 0 * 0
    BY <1>2, <1>3, <2>1, <2>2, Zenon
  <2> HIDE DEF t, k
  <2>5. k * (t - k) = 0
    BY <2>3, <2>4
  <2>6. t = k
    BY <2>3, <2>5
  <2> QED BY <2>6 DEF t, k
<1> QED BY <1>4, <1>5, <1>6, <1>7, Zenon

\* What is to the right shows on Y.
LEMMA RightShows ==
  ASSUME NEW m \in Mountings, NEW yaw \in YawsOf(m), NEW turn
  PROVE  LET s == MotionShown(m, yaw, Scaled(Push, Right(m)), turn).accel
         IN  s[1] = 0 /\ Magnitude(s[2]) = 125 * m.length /\ s[3] = 0
<1> DEFINE r == Levelled(m, yaw)
           l == m.length
           d == r.den
           w == Right(m)
           a == Apply(r, w)
           s == MotionShown(m, yaw, Scaled(Push, w), turn).accel
<1>1. /\ l \in Nat \ {0} /\ m.up \in Vector /\ m.forward \in Vector
      /\ Dot(m.up, m.up) = l * l /\ Dot(m.forward, m.forward) = l * l /\ Dot(m.up, m.forward) = 0
      /\ \A i \in Axis : l * w[i] = Cross(m.forward, m.up)[i]
  BY MountingFacts, SMT
<1>2. w \in Vector
  <2>1. \A i \in Axis : Cross(m.forward, m.up)[i] \in Int
    <3>1. /\ m.forward[1] \in Int /\ m.forward[2] \in Int /\ m.forward[3] \in Int
          /\ m.up[1] \in Int /\ m.up[2] \in Int /\ m.up[3] \in Int
      BY <1>1, Axes
    <3> QED BY <3>1, SMT DEF Cross, Axis
  <2>2. \A i \in Axis : Cross(m.forward, m.up)[i] \div m.length \in Int
    BY <1>1, <2>1, SMT
  <2> QED BY <2>2, Zenon DEF Right, Vector
<1>3. Dot(m.up, w) = 0 /\ Dot(m.forward, w) = 0 /\ Dot(w, w) = l * l
  BY <1>1, <1>2, RightIsSquare
<1>4. Direction(m, w)
  BY <1>2, <1>3, Zenon DEF Direction
<1>5. yaw \in 0 .. 3 /\ OnX(r, m.forward, l)
  BY Zenon DEF YawsOf, Levelled, OnX
<1>6. d \in Nat \ {0} /\ Turns(r) /\ Upright(r, m.up, l)
  BY <1>5, MountingUpright, Zenon DEF Upright, Turns, Levelled
<1>7. a \in Vector /\ a[3] = 0 /\ a[1] * a[1] + a[2] * a[2] = d * d * (l * l)
  <2> HIDE DEF r, l, w
  <2>1. a \in Vector /\ a[3] = 0 /\ a[1] * a[1] + a[2] * a[2] = d * d * Dot(w, w)
    BY <1>1, <1>2, <1>3, <1>6, LevelStaysLevel, Zenon
  <2> QED BY <1>3, <2>1, Zenon
<1>8. a[1] \in Int /\ l * a[1] = d * 0
  <2>1. a[1] \in Int /\ l * a[1] = d * Dot(m.forward, w)
    <3>1. Turns(r) /\ l \in Nat \ {0} /\ m.forward \in Vector /\ OnX(r, m.forward, l) /\ w \in Vector
      BY <1>1, <1>2, <1>5, <1>6
    <3> HIDE DEF r, l, w
    <3> QED BY <3>1, AlongForward, Zenon
  <2> QED BY <1>3, <2>1, Zenon
<1>9. a[1] = d * 0 /\ a[3] = d * 0 /\ 0 \in {0, l, -l} /\ l \in {0, l, -l} /\ -l \in {0, l, -l}
  <2> HIDE DEF a, l, d
  <2>1. a[1] = 0 /\ d * 0 = 0
    BY <1>1, <1>6, <1>8
  <2> QED BY <1>7, <2>1
<1>10. a[2] = d * l \/ a[2] = d * (-l)
  <2> HIDE DEF a, l, d
  <2>1. a[1] = 0 /\ a[2] \in Int /\ d * (-l) = -(d * l)
    BY <1>1, <1>6, <1>7, <1>9, Axes
  <2> DEFINE y == a[2]  n == d * l
  <2>2. y \in Int /\ n \in Int
    BY <1>1, <1>6, <2>1
  <2>3. y * y = n * n
    <3>1. 0 * 0 + y * y = d * d * (l * l)
      BY <1>7, <2>1, Zenon
    <3>2. 0 * 0 + y * y = y * y /\ d * d * (l * l) = n * n
      BY <1>1, <1>6, <2>2
    <3> QED BY <3>1, <3>2, Zenon
  <2> HIDE DEF y, n
  <2>4. (y - n) * (y + n) = 0
    BY <2>2, <2>3
  <2>5. y = n \/ y = -n
    BY <2>2, <2>4
  <2> QED BY <2>1, <2>5 DEF y, n
<1>11. s[1] = MilliG(0)
  BY <1>4, <1>5, <1>9, WholeShows, Axes
<1>12. s[3] = MilliG(0)
  BY <1>4, <1>5, <1>9, WholeShows, Axes
<1>13. s[2] = MilliG(l) \/ s[2] = MilliG(-l)
  <2>1. CASE a[2] = d * l
    BY <1>4, <1>5, <1>9, <2>1, WholeShows, Axes
  <2>2. CASE a[2] = d * (-l)
    BY <1>4, <1>5, <1>9, <2>2, WholeShows, Axes
  <2> QED BY <1>10, <2>1, <2>2, Zenon
<1> HIDE DEF l, s
<1>14. s[1] = 0 /\ s[3] = 0 /\ Magnitude(s[2]) = 125 * l
  BY <1>1, <1>11, <1>12, <1>13, SMT DEF MilliG, Magnitude
<1> QED BY <1>14 DEF s, l

\* A strike from behind shows forward.
LEMMA StrikeShows ==
  ASSUME NEW m \in Mountings, NEW yaw \in YawsOf(m), NEW turn
  PROVE  MotionShown(m, yaw, Scaled(40000, m.forward), turn).accel[1] > 0
<1> DEFINE r == Levelled(m, yaw)
           l == m.length
           d == r.den
           f == m.forward
           push == Scaled(40000, f)
           s == SampleOf(m, push, turn).accel
           a == ProcessAccel(Bias(m), yaw, s)
           x == Apply(r, s)[1]
<1>1. l \in Nat \ {0} /\ f \in Vector /\ Dot(f, f) = l * l
  BY MountingFacts, SMT
<1>2. push \in Vector
  BY <1>1, SMT DEF Scaled, Vector
<1>3. s \in Vector
  <2> HIDE DEF push
  <2> QED BY <1>2, SampleAxis
<1>4. yaw \in 0 .. 3 /\ OnX(r, f, l)
  BY Zenon DEF YawsOf, Levelled, OnX
<1>5. d \in Nat \ {0} /\ Turns(r)
  BY <1>4, MountingUpright, Zenon DEF Upright, Turns, Levelled
<1>6. \A i \in Axis : /\ s[i] \in Int /\ f[i] \in Int
                      /\ f[i] > 0 => s[i] >= 15430
                      /\ f[i] < 0 => s[i] <= -15430
  BY StrikeKeepsSign
<1>7. MotionShown(m, yaw, push, turn).accel[1] = AccelShown(a[1], d)
  BY Axes, SMT DEF MotionShown, MotionPayload, AccelShown, Levelled
<1> HIDE DEF push, s
<1>8. a[1] = x
  BY <1>3, <1>4, Processed DEF Levelled
<1>9. x \in Int /\ l * x = d * Dot(f, s)
  BY <1>1, <1>3, <1>4, <1>5, AlongForward, Zenon
<1> HIDE DEF l, d, f, a, x, r
<1>10. ASSUME NEW i \in Axis
       PROVE  f[i] * f[i] \in Int /\ f[i] * s[i] \in Int
              /\ 15430 * (f[i] * f[i]) <= l * (f[i] * s[i])
  <2> DEFINE g == f[i]  t == s[i]
  <2>1. g \in Int /\ t \in Int /\ (g > 0 => t >= 15430) /\ (g < 0 => t <= -15430)
    BY <1>6
  <2>2. -l <= g /\ g <= l /\ l \in Nat
    BY <1>1, AxisWithinLength
  <2> HIDE DEF g, t
  <2>3. g * g \in Int /\ g * t \in Int
    BY <2>1
  <2>4. ASSUME g = 0 PROVE 15430 * (g * g) <= l * (g * t)
    <3>1. g * g = 0 /\ g * t = 0 /\ l * 0 = 0
      BY <2>1, <2>2, <2>4
    <3> QED BY <3>1
  <2>5. ASSUME g > 0 PROVE 15430 * (g * g) <= l * (g * t)
    <3>1. 15430 * g <= g * t /\ g * g <= l * g
      BY <2>1, <2>2, <2>5
    <3>2. l * (15430 * g) <= l * (g * t)
      BY <2>1, <2>2, <2>3, <3>1
    <3>3. l * (15430 * g) = 15430 * (l * g) /\ l * g \in Int /\ l * (g * t) \in Int
      BY <2>1, <2>2, <2>3
    <3> QED BY <2>3, <3>1, <3>2, <3>3
  <2>6. ASSUME g < 0 PROVE 15430 * (g * g) <= l * (g * t)
    <3>1. 15430 * (-g) <= g * t /\ g * g <= l * (-g)
      BY <2>1, <2>2, <2>6
    <3>2. l * (15430 * (-g)) <= l * (g * t)
      BY <2>1, <2>2, <2>3, <3>1
    <3>3. l * (15430 * (-g)) = 15430 * (l * (-g)) /\ l * (-g) \in Int /\ l * (g * t) \in Int
      BY <2>1, <2>2, <2>3
    <3> QED BY <2>3, <3>1, <3>2, <3>3
  <2>7. 15430 * (g * g) <= l * (g * t)
    BY <2>1, <2>4, <2>5, <2>6
  <2> QED BY <2>3, <2>7 DEF g, t
<1> DEFINE p == Dot(f, s)
<1>11. p \in Int /\ 15430 * (l * l) <= l * p
  <2> DEFINE sq(i) == f[i] * f[i]
             pr(i) == f[i] * s[i]
  <2>1. /\ sq(1) \in Int /\ sq(2) \in Int /\ sq(3) \in Int /\ pr(1) \in Int /\ pr(2) \in Int /\ pr(3) \in Int
        /\ 15430 * sq(1) <= l * pr(1) /\ 15430 * sq(2) <= l * pr(2) /\ 15430 * sq(3) <= l * pr(3)
    BY <1>10, Axes
  <2>2. p = pr(1) + pr(2) + pr(3) /\ l * l = sq(1) + sq(2) + sq(3)
    BY <1>1, Zenon DEF Dot
  <2> HIDE DEF sq, pr, p
  <2>3. l * p = l * pr(1) + l * pr(2) + l * pr(3)
        /\ l * pr(1) \in Int /\ l * pr(2) \in Int /\ l * pr(3) \in Int
    BY <1>1, <2>1, <2>2
  <2> QED BY <2>1, <2>2, <2>3
<1> HIDE DEF p
<1>12. p >= 15430 * l
  <2> SUFFICES ASSUME p <= 15430 * l - 1 PROVE FALSE
    BY <1>1, <1>11
  <2>1. l * p <= l * (15430 * l - 1)
    BY <1>1, <1>11
  <2>2. l * (15430 * l - 1) = 15430 * (l * l) - l /\ l * l \in Int /\ l * p \in Int
    BY <1>1, <1>11
  <2> QED BY <1>1, <1>11, <2>1, <2>2
<1>13. x >= 15430 * d
  <2> SUFFICES ASSUME x <= 15430 * d - 1 PROVE FALSE
    BY <1>5, <1>9
  <2>1. l * x <= l * (15430 * d - 1)
    BY <1>1, <1>5, <1>9
  <2>2. l * (15430 * d - 1) = 15430 * (l * d) - l /\ l * d \in Int /\ l * x \in Int
    BY <1>1, <1>5, <1>9
  <2>3. d * p >= d * (15430 * l) /\ d * (15430 * l) = 15430 * (l * d) /\ d * p \in Int
    BY <1>1, <1>5, <1>11, <1>12
  <2>4. l * x = d * p
    BY <1>9 DEF p
  <2> QED BY <1>1, <2>1, <2>2, <2>3, <2>4
<1>14. x >= 5 * d
  BY <1>5, <1>9, <1>13
<1>15. AccelShown(x, d) > 0
  BY <1>5, <1>9, <1>14, StrongPushShown
<1>16. MotionShown(m, yaw, push, turn).accel[1] > 0
  BY <1>7, <1>8, <1>15, Zenon
<1> QED BY <1>16 DEF push, f

LEMMA NothingTurned ==
  ASSUME NEW r, Turns(r), NEW v \in Vector, v[1] = 0, v[2] = 0, v[3] = 0, NEW i \in Axis
  PROVE  Apply(r, v)[i] = 0
<1>1. r.num \in [Axis -> Vector]
  BY DEF Turns
<1>2. r.num[i][1] \in Int /\ r.num[i][2] \in Int /\ r.num[i][3] \in Int
  BY <1>1 DEF Vector, Axis
<1>3. Apply(r, v)[i] = r.num[i][1] * v[1] + r.num[i][2] * v[2] + r.num[i][3] * v[3]
  BY <1>1, AppliedVector
<1> QED BY <1>2, <1>3

\* At rest nothing shows.
LEMMA RestShows ==
  ASSUME NEW m \in Mountings, NEW yaw \in 0 .. 3
  PROVE  MotionShown(m, yaw, Still, Still) = [accel |-> Still, gyro |-> Still]
<1> DEFINE r == Levelled(m, yaw)
           d == r.den
           all == MotionShown(m, yaw, Still, Still)
           left == ProcessGyro(Bias(m), yaw, Plus(Drift, Still))
           none == Minus(Plus(Drift, Still), Drift)
<1>1. d \in Nat \ {0} /\ Turns(r)
  BY MountingUpright, Zenon DEF Upright, Turns, Levelled
<1>2. Still \in Vector /\ WithinTwoG(Still) /\ Still[1] = 0 /\ Still[2] = 0 /\ Still[3] = 0
  BY SMT DEF Still, Vector, WithinTwoG, Axis
<1>3. none \in Vector /\ none[1] = 0 /\ none[2] = 0 /\ none[3] = 0
  <2>1. \A i \in Axis : Drift[i] \in Int
    BY SMT DEF Drift, Axis
  <2>2. \A i \in Axis : Still[i] = 0
    BY <1>2 DEF Axis
  <2>3. \A i \in Axis : Plus(Drift, Still)[i] = Drift[i]
    BY <2>1, <2>2, SMT DEF Plus
  <2>4. none = [i \in Axis |-> Plus(Drift, Still)[i] + Scaled(-1, Drift)[i]]
    BY Zenon DEF Minus, Plus
  <2>5. \A i \in Axis : Scaled(-1, Drift)[i] = -Drift[i]
    BY <2>1, SMT DEF Scaled
  <2> HIDE DEF none
  <2>6. \A i \in Axis : none[i] = 0
    BY <2>1, <2>3, <2>4, <2>5, SMT
  <2>7. none = [i \in Axis |-> none[i]]
    BY <2>4
  <2> QED BY <2>6, <2>7, Axes, SMT DEF Vector
<1>4. left = Apply(r, none)
  BY Zenon DEF ProcessGyro, Levelled, Bias
<1>5. \A i \in Axis : all.accel[i] = AccelShown(Apply(r, Still)[i], d)
  BY <1>2, PushedShows, Zenon
<1>6. all = [accel |-> all.accel, gyro |-> all.gyro]
      /\ all.accel = [i \in Axis |-> all.accel[i]]
  BY SMT DEF MotionShown, MotionPayload
<1>7. all.gyro = [i \in Axis |-> SaturateToInt16(200 * left[i], 2 * d * GyroScaleTenths(1))]
  BY SMT DEF MotionShown, MotionPayload, SampleOf, Levelled
<1> HIDE DEF all, left, none, r
<1>8. \A i \in Axis : Apply(r, Still)[i] = 0 /\ left[i] = 0
  BY <1>1, <1>2, <1>3, <1>4, NothingTurned
<1> HIDE DEF d
<1>9. AccelShown(0, d) = 0
  <2> DEFINE h == 4096 * d
  <2>1. h \in Nat \ {0} /\ 1000 * 0 = 0 /\ d * 8192 = 2 * h
    BY <1>1, SMT
  <2>2. AccelShown(0, d) = SaturateToInt16(0, 2 * h)
    BY <2>1, AccelScaleIs, SMT DEF AccelShown
  <2> HIDE DEF h
  <2> QED BY <2>1, <2>2, NoneShown
<1>10. \A i \in Axis : SaturateToInt16(200 * left[i], 2 * d * GyroScaleTenths(1)) = 0
  <2> DEFINE h == 655 * d
  <2>1. h \in Nat \ {0} /\ 200 * 0 = 0 /\ 2 * d * 655 = 2 * h
    BY <1>1, SMT
  <2>2. GyroScaleTenths(1) = 655
    BY SMT DEF GyroScaleTenths
  <2>3. \A i \in Axis : SaturateToInt16(200 * left[i], 2 * d * GyroScaleTenths(1)) = SaturateToInt16(0, 2 * h)
    BY <1>8, <2>1, <2>2, SMT
  <2> HIDE DEF h
  <2>4. SaturateToInt16(0, 2 * h) = 0
    BY <2>1, NoneShown
  <2> QED BY <2>3, <2>4, SMT
<1>11. all.accel[1] = 0 /\ all.accel[2] = 0 /\ all.accel[3] = 0
  <2>1. \A i \in Axis : all.accel[i] = 0
    BY <1>5, <1>8, <1>9, Zenon
  <2> QED BY <2>1, Axes
<1>12. all.accel = Still
  BY <1>6, <1>11, Triple DEF Still
<1>13. all.gyro = [i \in Axis |-> 0]
  <2> DEFINE shows(i) == SaturateToInt16(200 * left[i], 2 * d * GyroScaleTenths(1))
  <2>1. all.gyro = [i \in Axis |-> shows(i)] /\ \A i \in Axis : shows(i) = 0
    BY <1>7, <1>10, SMT
  <2> HIDE DEF shows
  <2> QED BY <2>1, Zenon
<1>14. all.gyro = Still
  <2>1. all.gyro = [i \in Axis |-> all.gyro[i]] /\ all.gyro[1] = 0 /\ all.gyro[2] = 0 /\ all.gyro[3] = 0
    BY <1>13, Axes
  <2> QED BY <2>1, Triple DEF Still
<1>15. all = [accel |-> Still, gyro |-> Still]
  BY <1>6, <1>12, <1>14, Zenon
<1> QED BY <1>15 DEF all

\* What the invariant asks of a motion packet.
IsLevelled(asked, packet) ==
  LET push == 125 * asked.mounting.length
      x == packet.accel[1]
      y == packet.accel[2]
      z == packet.accel[3]
  IN  CASE asked.way = "rest" -> packet = [accel |-> Still, gyro |-> Still]
        [] asked.way = "up" -> packet.accel = <<0, 0, push>>
        [] asked.way = "level" -> z = 0 /\ Magnitude(x * x + y * y - push * push) <= 2 * push
        [] asked.way = "forward" -> packet.accel = <<push, 0, 0>>
        [] asked.way = "right" -> x = 0 /\ Magnitude(y) = push /\ z = 0
        [] asked.way = "strike" -> x > 0

\* What is asked of a box in a mounting, whatever its yaw setting, and with one that
\* makes forward read forward.
Struck(m) == Scaled(40000, m.forward)
LevelledAtAnyYaw(m, yaw) ==
  /\ IsLevelled([mounting |-> m, way |-> "rest"], MotionShown(m, yaw, Still, Still))
  /\ IsLevelled([mounting |-> m, way |-> "up"], MotionShown(m, yaw, Scaled(Push, m.up), Still))
  /\ IsLevelled([mounting |-> m, way |-> "level"],
                MotionShown(m, yaw, Scaled(Push, m.forward), Still))
LevelledAtItsYaw(m, yaw) ==
  /\ IsLevelled([mounting |-> m, way |-> "forward"],
                MotionShown(m, yaw, Scaled(Push, m.forward), Still))
  /\ IsLevelled([mounting |-> m, way |-> "right"],
                MotionShown(m, yaw, Scaled(Push, Right(m)), Scaled(-TurnRate, m.up)))
  /\ IsLevelled([mounting |-> m, way |-> "strike"], MotionShown(m, yaw, Struck(m), Still))

LEMMA MountingIsLevelled ==
  ASSUME NEW m \in Mountings, NEW yaw \in 0 .. 3
  PROVE  LevelledAtAnyYaw(m, yaw) /\ (yaw \in YawsOf(m) => LevelledAtItsYaw(m, yaw))
<1>1. IsLevelled([mounting |-> m, way |-> "rest"], MotionShown(m, yaw, Still, Still))
  BY RestShows, SMT DEF IsLevelled
<1>2. IsLevelled([mounting |-> m, way |-> "up"], MotionShown(m, yaw, Scaled(Push, m.up), Still))
  <2> DEFINE s == MotionShown(m, yaw, Scaled(Push, m.up), Still)
             asked == [mounting |-> m, way |-> "up"]
  <2>1. s.accel = <<0, 0, 125 * m.length>>
    BY UpShows
  <2>2. asked.way = "up" /\ asked.mounting = m
    OBVIOUS
  <2> HIDE DEF s, asked
  <2>3. IsLevelled(asked, s)
    BY <2>1, <2>2, SMT DEF IsLevelled
  <2> QED BY <2>3 DEF s, asked
<1>3. IsLevelled([mounting |-> m, way |-> "level"],
                 MotionShown(m, yaw, Scaled(Push, m.forward), Still))
  BY LevelShows, SMT DEF IsLevelled
<1>4. ASSUME yaw \in YawsOf(m)
      PROVE  IsLevelled([mounting |-> m, way |-> "forward"],
                        MotionShown(m, yaw, Scaled(Push, m.forward), Still))
  <2> DEFINE s == MotionShown(m, yaw, Scaled(Push, m.forward), Still)
             asked == [mounting |-> m, way |-> "forward"]
  <2>1. s.accel = <<125 * m.length, 0, 0>>
    BY <1>4, ForwardShows
  <2>2. asked.way = "forward" /\ asked.mounting = m
    OBVIOUS
  <2> HIDE DEF s, asked
  <2>3. IsLevelled(asked, s)
    BY <2>1, <2>2, SMT DEF IsLevelled
  <2> QED BY <2>3 DEF s, asked
<1>5. ASSUME yaw \in YawsOf(m)
      PROVE  IsLevelled([mounting |-> m, way |-> "right"],
                        MotionShown(m, yaw, Scaled(Push, Right(m)), Scaled(-TurnRate, m.up)))
  BY <1>5, RightShows, SMT DEF IsLevelled
<1>6. ASSUME yaw \in YawsOf(m)
      PROVE  IsLevelled([mounting |-> m, way |-> "strike"],
                        MotionShown(m, yaw, Struck(m), Still))
  BY <1>6, StrikeShows, SMT DEF IsLevelled, Struck
<1>7. LevelledAtAnyYaw(m, yaw)
  BY <1>1, <1>2, <1>3, Zenon DEF LevelledAtAnyYaw
<1>8. ASSUME yaw \in YawsOf(m) PROVE LevelledAtItsYaw(m, yaw)
  BY <1>4, <1>5, <1>6, <1>8, Zenon DEF LevelledAtItsYaw
<1> QED BY <1>7, <1>8

LEMMA MovedShows ==
  ASSUME NEW m, NEW yaw, NEW way, NEW push, NEW turn, Moved(m, yaw, way, push, turn),
         IsLevelled([mounting |-> m, way |-> way], MotionShown(m, yaw, push, turn))
  PROVE  IsLevelled(given', shown')
<1>1. given' = [mounting |-> m, way |-> way] /\ shown' = MotionShown(m, yaw, push, turn)
  BY Zenon DEF Moved, Once, Show, MotionShown
<1> QED BY <1>1, Zenon

LEMMA MotionStep ==
  ASSUME Motion
  PROVE  IsLevelled(given', shown')
<1>1. PICK m \in Mountings :
        \/ \E yaw \in 0 .. 3 :
             \/ Moved(m, yaw, "rest", Still, Still)
             \/ Moved(m, yaw, "up", Scaled(Push, m.up), Still)
             \/ Moved(m, yaw, "level", Scaled(Push, m.forward), Still)
        \/ \E yaw \in YawsOf(m) :
             \/ Moved(m, yaw, "forward", Scaled(Push, m.forward), Still)
             \/ Moved(m, yaw, "right", Scaled(Push, Right(m)), Scaled(-TurnRate, m.up))
             \/ Moved(m, yaw, "strike", Struck(m), Still)
  BY SMT DEF Motion, Struck
<1>2. CASE \E yaw \in 0 .. 3 :
             \/ Moved(m, yaw, "rest", Still, Still)
             \/ Moved(m, yaw, "up", Scaled(Push, m.up), Still)
             \/ Moved(m, yaw, "level", Scaled(Push, m.forward), Still)
  <2>1. PICK yaw \in 0 .. 3 :
           \/ Moved(m, yaw, "rest", Still, Still)
           \/ Moved(m, yaw, "up", Scaled(Push, m.up), Still)
           \/ Moved(m, yaw, "level", Scaled(Push, m.forward), Still)
    BY <1>2, Zenon
  <2>2. LevelledAtAnyYaw(m, yaw)
    BY MountingIsLevelled
  <2> QED BY <2>1, <2>2, MovedShows, Zenon DEF LevelledAtAnyYaw
<1>3. CASE \E yaw \in YawsOf(m) :
             \/ Moved(m, yaw, "forward", Scaled(Push, m.forward), Still)
             \/ Moved(m, yaw, "right", Scaled(Push, Right(m)), Scaled(-TurnRate, m.up))
             \/ Moved(m, yaw, "strike", Struck(m), Still)
  <2>1. PICK yaw \in YawsOf(m) :
           \/ Moved(m, yaw, "forward", Scaled(Push, m.forward), Still)
           \/ Moved(m, yaw, "right", Scaled(Push, Right(m)), Scaled(-TurnRate, m.up))
           \/ Moved(m, yaw, "strike", Struck(m), Still)
    BY <1>3, Zenon
  <2>2. LevelledAtItsYaw(m, yaw)
    <3>1. yaw \in 0 .. 3
      BY SMT DEF YawsOf
    <3> QED BY <3>1, MountingIsLevelled
  <2> QED BY <2>1, <2>2, MovedShows, Zenon DEF LevelledAtItsYaw
<1> QED BY <1>1, <1>2, <1>3

\* However the box is mounted, a zero makes the kart at rest read zero on every axis,
\* puts what is up on Z and what is level off it, loses none of a push, and with the
\* yaw set puts forward on positive X; a reading at the end of the range keeps its
\* sign (MotionProcessor, applyRawAccelBias).
THEOREM ZeroLevels == Spec => []LevelledByZero
<1>1. Init => LevelledByZero
  BY DEF Init, LevelledByZero
<1>2. LevelledByZero /\ [Next]_vars => LevelledByZero'
  <2> SUFFICES ASSUME LevelledByZero, [Next]_vars
               PROVE  LevelledByZero'
    OBVIOUS
  <2>1. CASE Next
    <3>1. CASE kind' = "motion"
      <4>1. Motion
        BY <2>1, <3>1, KindOfStep
      <4>2. IsLevelled(given', shown')
        BY <4>1, MotionStep
      <4> QED BY <4>2, Zenon DEF LevelledByZero, IsLevelled
    <3>2. CASE kind' # "motion"
      BY <3>2, Zenon DEF LevelledByZero
    <3> QED BY <3>1, <3>2
  <2>2. CASE UNCHANGED vars
    BY <2>2, Zenon DEF vars, LevelledByZero
  <2> QED BY <2>1, <2>2
<1> QED BY <1>1, <1>2, PTL DEF Spec

-----------------------------------------------------------------------------
(* The six position measurement.                                             *)

Characterizers ==
  [seeded : BOOLEAN, hasPrevious : BOOLEAN, accepted : Nat, steadyRun : 0 .. Settle,
   previous : Vector, min : Vector, max : Vector]

\* The run of steady steps that ends at the last of the poses: all of its steps are
\* steady, and before it is the first pose or a step that is not, unless it is whole.
RunOf(c, p) ==
  /\ c.steadyRun < Len(p)
  /\ \A j \in Len(p) - c.steadyRun + 1 .. Len(p) : Steady(p[j], p[j - 1])
  /\ c.steadyRun < Settle /\ c.steadyRun # Len(p) - 1
     => ~ Steady(p[Len(p) - c.steadyRun], p[Len(p) - c.steadyRun - 1])

\* The extremes are those of the readings at which the box had settled.
ExtremesOf(c, p) ==
  /\ c.seeded = (Settled(p) # {})
  /\ IsFiniteSet(Settled(p)) /\ c.accepted = Cardinality(Settled(p))
  /\ \A n \in Settled(p) : \A i \in Axis : c.min[i] <= p[n][i] /\ p[n][i] <= c.max[i]
  /\ Settled(p) # {} => \A i \in Axis : /\ \E n \in Settled(p) : p[n][i] = c.min[i]
                                       /\ \E n \in Settled(p) : p[n][i] = c.max[i]

\* What the characterizer knows of the poses it was given.
Tracks(c, p) ==
  /\ c \in Characterizers /\ p \in Seq(Vector) /\ Len(p) > 0
  /\ c.hasPrevious = TRUE /\ c.previous = p[Len(p)]
  /\ RunOf(c, p) /\ ExtremesOf(c, p)

PosesTracked == kind = "pose" => Tracks(shown, given.poses)

LEMMA Appended ==
  ASSUME NEW p \in Seq(Vector), NEW raw \in Vector
  PROVE  /\ Append(p, raw) \in Seq(Vector) /\ Len(Append(p, raw)) = Len(p) + 1
         /\ Append(p, raw)[Len(p) + 1] = raw
         /\ \A i \in 1 .. Len(p) : Append(p, raw)[i] = p[i]
         /\ Len(p) \in Nat /\ DOMAIN p = 1 .. Len(p)
         /\ DOMAIN Append(p, raw) = 1 .. Len(p) + 1
         /\ \A i \in 1 .. Len(p) : p[i] \in Vector
  OBVIOUS

\* A pose after which the box is settled.
SettledAt(p, i) == i > Settle + 1 /\ \A j \in i - Settle .. i : Steady(p[j], p[j - 1])

\* One more pose does not change what came before it.
LEMMA SettledAppended ==
  ASSUME NEW p \in Seq(Vector), NEW raw \in Vector
  PROVE  /\ SettledAt(Append(p, raw), Len(p) + 1)
            => Settled(Append(p, raw)) = Settled(p) \cup {Len(p) + 1}
         /\ ~ SettledAt(Append(p, raw), Len(p) + 1) => Settled(Append(p, raw)) = Settled(p)
         /\ Settled(p) \subseteq 1 .. Len(p)
<1> DEFINE n == Len(p)
           q == Append(p, raw)
<1>1. /\ n \in Nat /\ DOMAIN p = 1 .. n /\ DOMAIN q = 1 .. n + 1
      /\ \A i \in 1 .. n : q[i] = p[i]
  BY Appended
<1>2. Settled(p) = {i \in 1 .. n : SettledAt(p, i)}
  BY <1>1, Zenon DEF Settled, SettledAt
<1>3. Settled(q) = {i \in 1 .. n + 1 : SettledAt(q, i)}
  BY <1>1, Zenon DEF Settled, SettledAt
<1> HIDE DEF n, q
<1>4. ASSUME NEW i \in 1 .. n
      PROVE  SettledAt(q, i) <=> SettledAt(p, i)
  <2> SUFFICES ASSUME i > Settle + 1
               PROVE  (\A j \in i - Settle .. i : Steady(q[j], q[j - 1]))
                      <=> (\A j \in i - Settle .. i : Steady(p[j], p[j - 1]))
    BY DEF SettledAt
  <2>1. ASSUME NEW j \in i - Settle .. i
        PROVE  q[j] = p[j] /\ q[j - 1] = p[j - 1]
    <3>1. j \in 1 .. n /\ j - 1 \in 1 .. n
      BY <1>1, CharacterizerAssumption
    <3> QED BY <1>1, <3>1
  <2> QED BY <2>1, Zenon
<1>5. 1 .. n + 1 = (1 .. n) \cup {n + 1}
  BY <1>1
<1>6. /\ SettledAt(q, n + 1) => Settled(q) = Settled(p) \cup {n + 1}
      /\ ~ SettledAt(q, n + 1) => Settled(q) = Settled(p)
  BY <1>2, <1>3, <1>4, <1>5, Zenon
<1>7. Settled(p) \subseteq 1 .. n
  BY <1>2
<1> QED BY <1>6, <1>7 DEF n, q

\* The next pose settles the box exactly when the run before it is whole and the
\* step to it is steady; otherwise the run goes on or starts again.
LEMMA RunGoesOn ==
  ASSUME NEW c, NEW p, Tracks(c, p), NEW raw \in Vector, Steady(raw, c.previous),
         c.steadyRun < Settle
  PROVE  /\ ~ SettledAt(Append(p, raw), Len(p) + 1)
         /\ RunOf([c EXCEPT !.previous = raw, !.hasPrevious = TRUE, !.steadyRun = @ + 1],
                  Append(p, raw))
<1> DEFINE n == Len(p)
           q == Append(p, raw)
           r == c.steadyRun
           d == [c EXCEPT !.previous = raw, !.hasPrevious = TRUE, !.steadyRun = @ + 1]
<1>1. /\ c \in Characterizers /\ p \in Seq(Vector) /\ n > 0 /\ c.previous = p[n] /\ RunOf(c, p)
  BY DEF Tracks
<1>2. r \in 0 .. Settle /\ d.steadyRun = r + 1 /\ Settle \in Nat
  BY <1>1, CharacterizerAssumption DEF Characterizers
<1>3. /\ n \in Nat /\ Len(q) = n + 1 /\ q[n + 1] = raw /\ \A i \in 1 .. n : q[i] = p[i]
  BY <1>1, Appended
<1>4. /\ r < n /\ \A j \in n - r + 1 .. n : Steady(p[j], p[j - 1])
      /\ r < Settle /\ r # n - 1 => ~ Steady(p[n - r], p[n - r - 1])
  BY <1>1 DEF RunOf
<1>5. Steady(q[n + 1], q[n])
  BY <1>1, <1>3
<1>6. r < Settle
  OBVIOUS
<1> HIDE DEF n, q, r, d
<1>7. ~ SettledAt(q, n + 1)
  <2>1. CASE r = n - 1
    <3>1. ~ (n + 1 > Settle + 1)
      BY <1>2, <1>3, <1>6, <2>1
    <3> QED BY <3>1 DEF SettledAt
  <2>2. CASE r # n - 1
    <3>1. ~ Steady(p[n - r], p[n - r - 1])
      BY <1>4, <1>6, <2>2
    <3>2. n - r \in 1 .. n /\ n - r - 1 \in 1 .. n /\ n - r \in (n + 1) - Settle .. n + 1
      BY <1>2, <1>3, <1>4, <1>6, <2>2
    <3>3. q[n - r] = p[n - r] /\ q[n - r - 1] = p[n - r - 1]
      BY <1>3, <3>2
    <3> QED BY <3>1, <3>2, <3>3, Zenon DEF SettledAt
  <2> QED BY <2>1, <2>2
<1>8. RunOf(d, q)
  <2>1. d.steadyRun < Len(q)
    BY <1>2, <1>3, <1>4
  <2>2. ASSUME NEW j \in Len(q) - d.steadyRun + 1 .. Len(q)
        PROVE  Steady(q[j], q[j - 1])
    <3>1. j \in n - r + 1 .. n + 1
      BY <1>2, <1>3
    <3>2. CASE j = n + 1
      <4>1. j - 1 = n
        BY <1>3, <3>2
      <4> QED BY <1>5, <3>2, <4>1
    <3>3. CASE j \in n - r + 1 .. n
      <4>1. j \in 1 .. n /\ j - 1 \in 1 .. n
        BY <1>2, <1>3, <1>4, <3>3
      <4>2. q[j] = p[j] /\ q[j - 1] = p[j - 1]
        BY <1>3, <4>1
      <4> QED BY <1>4, <3>3, <4>2
    <3> QED BY <1>2, <1>3, <3>1, <3>2, <3>3
  <2>3. ASSUME d.steadyRun < Settle, d.steadyRun # Len(q) - 1
        PROVE  ~ Steady(q[Len(q) - d.steadyRun], q[Len(q) - d.steadyRun - 1])
    <3>1. /\ Len(q) - d.steadyRun = n - r /\ Len(q) - d.steadyRun - 1 = n - r - 1
          /\ n - r \in 1 .. n /\ n - r - 1 \in 1 .. n /\ r # n - 1
      BY <1>2, <1>3, <1>4, <2>3
    <3>2. q[n - r] = p[n - r] /\ q[n - r - 1] = p[n - r - 1]
      BY <1>3, <3>1
    <3> QED BY <1>4, <1>6, <3>1, <3>2
  <2> QED BY <2>1, <2>2, <2>3 DEF RunOf
<1> QED BY <1>7, <1>8 DEF n, q, d

LEMMA RunEnds ==
  ASSUME NEW c, NEW p, Tracks(c, p), NEW raw \in Vector, ~ Steady(raw, c.previous)
  PROVE  /\ ~ SettledAt(Append(p, raw), Len(p) + 1)
         /\ RunOf([c EXCEPT !.previous = raw, !.hasPrevious = TRUE, !.steadyRun = 0], Append(p, raw))
<1> DEFINE n == Len(p)
           q == Append(p, raw)
           d == [c EXCEPT !.previous = raw, !.hasPrevious = TRUE, !.steadyRun = 0]
<1>1. /\ c \in Characterizers /\ p \in Seq(Vector) /\ n > 0 /\ c.previous = p[n]
  BY DEF Tracks
<1>2. d.steadyRun = 0 /\ Settle \in Nat
  BY <1>1, CharacterizerAssumption DEF Characterizers
<1>3. /\ n \in Nat /\ Len(q) = n + 1 /\ q[n + 1] = raw /\ \A i \in 1 .. n : q[i] = p[i]
  BY <1>1, Appended
<1>4. ~ Steady(q[n + 1], q[n])
  BY <1>1, <1>3
<1> HIDE DEF n, q, d
<1>5. (n + 1) - 1 = n /\ n + 1 \in (n + 1) - Settle .. n + 1
  BY <1>2, <1>3
<1>6. ~ SettledAt(q, n + 1)
  BY <1>4, <1>5, Zenon DEF SettledAt
<1>7. RunOf(d, q)
  <2>1. d.steadyRun < Len(q) /\ Len(q) - d.steadyRun + 1 .. Len(q) = {}
    BY <1>2, <1>3
  <2>2. Len(q) - d.steadyRun = n + 1 /\ Len(q) - d.steadyRun - 1 = n
    BY <1>2, <1>3
  <2> QED BY <1>4, <2>1, <2>2 DEF RunOf
<1> QED BY <1>6, <1>7 DEF n, q, d

LEMMA RunIsWhole ==
  ASSUME NEW c, NEW p, Tracks(c, p), NEW raw \in Vector, Steady(raw, c.previous),
         ~ (c.steadyRun < Settle), NEW d, d.steadyRun = c.steadyRun
  PROVE  SettledAt(Append(p, raw), Len(p) + 1) /\ RunOf(d, Append(p, raw))
<1> DEFINE n == Len(p)
           q == Append(p, raw)
           r == c.steadyRun
<1>1. /\ c \in Characterizers /\ p \in Seq(Vector) /\ n > 0 /\ c.previous = p[n] /\ RunOf(c, p)
  BY DEF Tracks
<1>2. r \in 0 .. Settle /\ d.steadyRun = r /\ Settle \in Nat
  BY <1>1, CharacterizerAssumption DEF Characterizers
<1>3. /\ n \in Nat /\ Len(q) = n + 1 /\ q[n + 1] = raw /\ \A i \in 1 .. n : q[i] = p[i]
  BY <1>1, Appended
<1>4. r < n /\ \A j \in n - r + 1 .. n : Steady(p[j], p[j - 1])
  BY <1>1 DEF RunOf
<1>5. Steady(q[n + 1], q[n])
  BY <1>1, <1>3
<1>6. r = Settle
  BY <1>2
<1> HIDE DEF n, q, r
<1>7. ASSUME NEW j \in n - r + 1 .. n + 1
      PROVE  Steady(q[j], q[j - 1])
  <2>1. CASE j = n + 1
    <3>1. j - 1 = n
      BY <1>3, <2>1
    <3> QED BY <1>5, <2>1, <3>1
  <2>2. CASE j \in n - r + 1 .. n
    <3>1. j \in 1 .. n /\ j - 1 \in 1 .. n
      BY <1>2, <1>3, <1>4, <2>2
    <3>2. q[j] = p[j] /\ q[j - 1] = p[j - 1]
      BY <1>3, <3>1
    <3> QED BY <1>4, <2>2, <3>2
  <2> QED BY <1>2, <1>3, <2>1, <2>2
<1>8. SettledAt(q, n + 1)
  <2>1. n + 1 > Settle + 1 /\ (n + 1) - Settle = n - r + 1
    BY <1>2, <1>3, <1>4, <1>6
  <2> QED BY <1>7, <2>1, Zenon DEF SettledAt
<1>9. RunOf(d, q)
  <2>1. d.steadyRun < Len(q) /\ ~ (d.steadyRun < Settle)
    BY <1>2, <1>3, <1>4, <1>6
  <2>2. \A j \in Len(q) - d.steadyRun + 1 .. Len(q) : j \in n - r + 1 .. n + 1
    BY <1>2, <1>3
  <2> QED BY <1>7, <2>1, <2>2 DEF RunOf
<1> QED BY <1>8, <1>9 DEF n, q

\* What the characterizer keeps is right for one more pose that does not settle.
LEMMA ExtremesKept ==
  ASSUME NEW c, NEW p, Tracks(c, p), NEW raw \in Vector,
         ~ SettledAt(Append(p, raw), Len(p) + 1), NEW d,
         d.seeded = c.seeded, d.accepted = c.accepted, d.min = c.min, d.max = c.max
  PROVE  ExtremesOf(d, Append(p, raw))
<1> DEFINE q == Append(p, raw)
<1>1. p \in Seq(Vector) /\ ExtremesOf(c, p)
  BY DEF Tracks
<1>2. Settled(q) = Settled(p) /\ Settled(p) \subseteq 1 .. Len(p)
  BY <1>1, SettledAppended
<1>3. \A i \in Settled(p) : q[i] = p[i]
  BY <1>1, <1>2, Appended
<1> HIDE DEF q
<1> QED BY <1>1, <1>2, <1>3 DEF ExtremesOf, q

\* And for one that does.
LEMMA ExtremesWidened ==
  ASSUME NEW c, NEW p, Tracks(c, p), NEW raw \in Vector,
         SettledAt(Append(p, raw), Len(p) + 1), NEW b \in Characterizers,
         b.seeded = c.seeded, b.accepted = c.accepted, b.min = c.min, b.max = c.max
  PROVE  Widened(b, raw) \in Characterizers /\ ExtremesOf(Widened(b, raw), Append(p, raw))
<1> DEFINE q == Append(p, raw)
           n == Len(p)
           d == Widened(b, raw)
           S == Settled(p)
<1>1. p \in Seq(Vector) /\ ExtremesOf(c, p) /\ c \in Characterizers
  BY DEF Tracks
<1>2. Settled(q) = S \cup {n + 1} /\ S \subseteq 1 .. n
  BY <1>1, SettledAppended
<1>3. n \in Nat /\ q[n + 1] = raw /\ \A i \in S : q[i] = p[i] /\ p[i] \in Vector
  BY <1>1, <1>2, Appended
<1>4. c.min \in Vector /\ c.max \in Vector /\ c.accepted \in Nat
  BY <1>1 DEF Characterizers
<1>5. /\ d.seeded = TRUE /\ d.accepted = c.accepted + 1
      /\ d.min = [i \in Axis |-> IF ~b.seeded \/ raw[i] < c.min[i] THEN raw[i] ELSE c.min[i]]
      /\ d.max = [i \in Axis |-> IF ~b.seeded \/ raw[i] > c.max[i] THEN raw[i] ELSE c.max[i]]
      /\ d.hasPrevious = b.hasPrevious /\ d.previous = b.previous /\ d.steadyRun = b.steadyRun
      /\ d = [seeded |-> d.seeded, hasPrevious |-> d.hasPrevious, accepted |-> d.accepted,
              steadyRun |-> d.steadyRun, previous |-> d.previous, min |-> d.min, max |-> d.max]
  <2> DEFINE low == [i \in Axis |-> IF ~b.seeded \/ raw[i] < b.min[i] THEN raw[i] ELSE b.min[i]]
             high == [i \in Axis |-> IF ~b.seeded \/ raw[i] > b.max[i] THEN raw[i] ELSE b.max[i]]
  <2>1. d = [b EXCEPT !.seeded = TRUE, !.accepted = b.accepted + 1, !.min = low, !.max = high]
    BY DEF Widened
  <2>2. /\ low = [i \in Axis |-> IF ~b.seeded \/ raw[i] < c.min[i] THEN raw[i] ELSE c.min[i]]
        /\ high = [i \in Axis |-> IF ~b.seeded \/ raw[i] > c.max[i] THEN raw[i] ELSE c.max[i]]
    BY Zenon
  <2> HIDE DEF low, high, d
  <2>3. /\ d.seeded = TRUE /\ d.accepted = b.accepted + 1 /\ d.min = low /\ d.max = high
        /\ d.hasPrevious = b.hasPrevious /\ d.previous = b.previous /\ d.steadyRun = b.steadyRun
    BY <2>1 DEF Characterizers
  <2>4. d = [seeded |-> d.seeded, hasPrevious |-> d.hasPrevious, accepted |-> d.accepted,
             steadyRun |-> d.steadyRun, previous |-> d.previous, min |-> d.min, max |-> d.max]
    BY <2>1 DEF Characterizers
  <2> QED BY <2>2, <2>3, <2>4, Zenon
<1>6. b.seeded = (S # {})
  BY <1>1 DEF ExtremesOf
<1> HIDE DEF q, n, d, S
<1>7. ASSUME NEW i \in Axis
      PROVE  /\ raw[i] \in Int /\ c.min[i] \in Int /\ c.max[i] \in Int
             /\ S = {} => d.min[i] = raw[i] /\ d.max[i] = raw[i]
             /\ S # {} => /\ d.min[i] = IF raw[i] < c.min[i] THEN raw[i] ELSE c.min[i]
                          /\ d.max[i] = IF raw[i] > c.max[i] THEN raw[i] ELSE c.max[i]
  <2>1. raw[i] \in Int /\ c.min[i] \in Int /\ c.max[i] \in Int
    BY <1>4 DEF Vector
  <2>2. /\ d.min[i] = IF S = {} \/ raw[i] < c.min[i] THEN raw[i] ELSE c.min[i]
        /\ d.max[i] = IF S = {} \/ raw[i] > c.max[i] THEN raw[i] ELSE c.max[i]
    <3>1. d.min[i] = IF ~b.seeded \/ raw[i] < c.min[i] THEN raw[i] ELSE c.min[i]
      BY <1>5, Zenon
    <3>2. d.max[i] = IF ~b.seeded \/ raw[i] > c.max[i] THEN raw[i] ELSE c.max[i]
      BY <1>5, Zenon
    <3>3. ~b.seeded <=> S = {}
      BY <1>6, Zenon
    <3> QED BY <3>1, <3>2, <3>3, Zenon
  <2> QED BY <2>1, <2>2
<1>8. d.min \in Vector /\ d.max \in Vector
  <2>1. \A i \in Axis : d.min[i] \in Int /\ d.max[i] \in Int
    BY <1>7
  <2>2. d.min = [i \in Axis |-> d.min[i]] /\ d.max = [i \in Axis |-> d.max[i]]
    BY <1>5
  <2> QED BY <2>1, <2>2, Zenon DEF Vector
<1>9. d \in Characterizers
  <2>1. /\ b.hasPrevious \in BOOLEAN /\ b.steadyRun \in 0 .. Settle /\ b.previous \in Vector
    BY DEF Characterizers
  <2>2. d.accepted \in Nat
    BY <1>4, <1>5
  <2> QED BY <1>5, <1>8, <2>1, <2>2, Zenon DEF Characterizers
<1>10. IsFiniteSet(S) /\ c.accepted = Cardinality(S)
       /\ \A m \in S : \A i \in Axis : c.min[i] <= p[m][i] /\ p[m][i] <= c.max[i]
  BY <1>1 DEF ExtremesOf, S
<1>11. IsFiniteSet(Settled(q)) /\ d.accepted = Cardinality(Settled(q))
  <2>1. n + 1 \notin S
    BY <1>2, <1>3
  <2> QED BY <1>2, <1>5, <1>10, <2>1, FS_AddElement
<1>12. ASSUME NEW m \in Settled(q), NEW i \in Axis
       PROVE  d.min[i] <= q[m][i] /\ q[m][i] <= d.max[i]
  <2>1. CASE m = n + 1
    <3>1. q[m][i] = raw[i]
      BY <1>3, <2>1
    <3> QED BY <1>7, <3>1
  <2>2. CASE m \in S
    <3>1. q[m][i] = p[m][i] /\ p[m][i] \in Int
      BY <1>3, <2>2 DEF Vector
    <3>2. c.min[i] <= p[m][i] /\ p[m][i] <= c.max[i] /\ S # {}
      BY <1>10, <2>2
    <3> QED BY <1>7, <3>1, <3>2
  <2> QED BY <1>2, <2>1, <2>2
<1>13. ASSUME NEW i \in Axis
       PROVE  /\ \E m \in Settled(q) : q[m][i] = d.min[i]
              /\ \E m \in Settled(q) : q[m][i] = d.max[i]
  <2>1. n + 1 \in Settled(q) /\ q[n + 1][i] = raw[i]
    BY <1>2, <1>3
  <2>2. S # {} => /\ \E m \in Settled(q) : q[m][i] = c.min[i]
                  /\ \E m \in Settled(q) : q[m][i] = c.max[i]
    <3> SUFFICES ASSUME S # {}
                 PROVE  /\ \E m \in Settled(q) : q[m][i] = c.min[i]
                        /\ \E m \in Settled(q) : q[m][i] = c.max[i]
      OBVIOUS
    <3>1. /\ \E m \in S : p[m][i] = c.min[i]
          /\ \E m \in S : p[m][i] = c.max[i]
      BY <1>1 DEF ExtremesOf, S
    <3> QED BY <1>2, <1>3, <3>1
  <2>3. d.min[i] = raw[i] \/ (S # {} /\ d.min[i] = c.min[i])
    BY <1>7
  <2>4. d.max[i] = raw[i] \/ (S # {} /\ d.max[i] = c.max[i])
    BY <1>7
  <2> QED BY <2>1, <2>2, <2>3, <2>4
<1>14. d.seeded = (Settled(q) # {})
  <2>1. Settled(q) # {}
    BY <1>2
  <2> QED BY <1>5, <2>1, Zenon
<1>15. ExtremesOf(d, q)
  BY <1>11, <1>12, <1>13, <1>14 DEF ExtremesOf
<1> QED BY <1>9, <1>15 DEF d, q

LEMMA FirstPose ==
  ASSUME NEW raw \in Vector
  PROVE  Tracks(AddSample(FreshCharacterizer, raw), Append(<<>>, raw))
<1> DEFINE p == Append(<<>>, raw)
           c == AddSample(FreshCharacterizer, raw)
<1>1. /\ c = [seeded |-> FALSE, hasPrevious |-> TRUE, accepted |-> 0, steadyRun |-> 0,
              previous |-> raw, min |-> Origin, max |-> Origin]
  BY DEF AddSample, FreshCharacterizer
<1>2. Origin \in Vector /\ 0 \in 0 .. Settle
  BY CharacterizerAssumption DEF Origin, Vector, Axis
<1>3. p \in Seq(Vector) /\ Len(p) = 1 /\ p[1] = raw /\ DOMAIN p = 1 .. 1
  OBVIOUS
<1> HIDE DEF p, c
<1>4. c \in Characterizers
  BY <1>1, <1>2 DEF Characterizers
<1>5. Settled(p) = {}
  <2>1. \A i \in 1 .. 1 : ~ (i > Settle + 1)
    BY CharacterizerAssumption
  <2> QED BY <1>3, <2>1 DEF Settled
<1>6. RunOf(c, p)
  <2>1. c.steadyRun = 0 /\ 0 = Len(p) - 1 /\ 0 < Len(p) /\ Len(p) - 0 + 1 .. Len(p) = {}
    BY <1>1, <1>3
  <2> QED BY <2>1 DEF RunOf
<1>7. ExtremesOf(c, p)
  <2>1. c.seeded = FALSE /\ c.accepted = 0
    BY <1>1
  <2>2. c.seeded = (Settled(p) # {})
    BY <1>5, <2>1, Zenon
  <2> QED BY <1>5, <2>1, <2>2, FS_EmptySet DEF ExtremesOf
<1>8. c.hasPrevious = TRUE /\ c.previous = p[Len(p)]
  BY <1>1, <1>3
<1> QED BY <1>3, <1>4, <1>6, <1>7, <1>8 DEF Tracks, c, p

LEMMA NextPose ==
  ASSUME NEW c, NEW p, Tracks(c, p), NEW raw \in Vector
  PROVE  Tracks(AddSample(c, raw), Append(p, raw))
<1> DEFINE q == Append(p, raw)
           d == AddSample(c, raw)
           next == [c EXCEPT !.previous = raw, !.hasPrevious = TRUE]
<1>1. c \in Characterizers /\ p \in Seq(Vector) /\ c.hasPrevious = TRUE
  BY DEF Tracks
<1>2. q \in Seq(Vector) /\ Len(q) = Len(p) + 1 /\ q[Len(q)] = raw /\ Len(q) > 0
  BY <1>1, Appended
<1>3. /\ next \in Characterizers /\ next.previous = raw /\ next.hasPrevious = TRUE
      /\ next.seeded = c.seeded /\ next.accepted = c.accepted /\ next.steadyRun = c.steadyRun
      /\ next.min = c.min /\ next.max = c.max
  BY <1>1 DEF Characterizers
<1>4. c.steadyRun \in 0 .. Settle
  BY <1>1 DEF Characterizers
<1>5. CASE ~ Steady(raw, c.previous)
  <2> DEFINE e == [c EXCEPT !.previous = raw, !.hasPrevious = TRUE, !.steadyRun = 0]
  <2>1. d = e
    BY <1>1, <1>5 DEF AddSample
  <2>2. e \in Characterizers
    <3>1. 0 \in 0 .. Settle
      BY CharacterizerAssumption
    <3> QED BY <1>1, <3>1 DEF Characterizers
  <2>3. /\ e.previous = raw /\ e.hasPrevious = TRUE /\ e.seeded = c.seeded
        /\ e.accepted = c.accepted /\ e.min = c.min /\ e.max = c.max
    BY <1>1 DEF Characterizers
  <2>4. ~ SettledAt(q, Len(p) + 1) /\ RunOf(e, q)
    BY <1>5, RunEnds
  <2> HIDE DEF q, d, next, e
  <2>5. ExtremesOf(e, q)
    BY <2>3, <2>4, ExtremesKept DEF q
  <2> QED BY <1>2, <2>1, <2>2, <2>3, <2>4, <2>5 DEF Tracks, q, d
<1>6. CASE Steady(raw, c.previous) /\ c.steadyRun < Settle
  <2> DEFINE e == [c EXCEPT !.previous = raw, !.hasPrevious = TRUE, !.steadyRun = @ + 1]
  <2>1. d = e
    BY <1>1, <1>6 DEF AddSample
  <2>2. e \in Characterizers
    <3>1. c.steadyRun + 1 \in 0 .. Settle
      BY <1>4, <1>6, CharacterizerAssumption
    <3> QED BY <1>1, <3>1 DEF Characterizers
  <2>3. /\ e.previous = raw /\ e.hasPrevious = TRUE /\ e.seeded = c.seeded
        /\ e.accepted = c.accepted /\ e.min = c.min /\ e.max = c.max
    BY <1>1 DEF Characterizers
  <2>4. ~ SettledAt(q, Len(p) + 1) /\ RunOf(e, q)
    BY <1>6, RunGoesOn
  <2> HIDE DEF q, d, next, e
  <2>5. ExtremesOf(e, q)
    BY <2>3, <2>4, ExtremesKept DEF q
  <2> QED BY <1>2, <2>1, <2>2, <2>3, <2>4, <2>5 DEF Tracks, q, d
<1>7. CASE Steady(raw, c.previous) /\ ~ (c.steadyRun < Settle)
  <2> DEFINE e == Widened(next, raw)
  <2>1. d = e
    BY <1>1, <1>7 DEF AddSample
  <2>2. e.previous = next.previous /\ e.hasPrevious = next.hasPrevious /\ e.steadyRun = next.steadyRun
    <3> HIDE DEF next
    <3> QED BY <1>3 DEF Widened, Characterizers
  <2> HIDE DEF next, e, d
  <2>3. e.steadyRun = c.steadyRun
    BY <1>3, <2>2
  <2>4. SettledAt(q, Len(p) + 1) /\ RunOf(e, q)
    BY <1>7, <2>3, RunIsWhole
  <2>5. e \in Characterizers /\ ExtremesOf(e, q)
    BY <1>3, <2>4, ExtremesWidened DEF e
  <2> HIDE DEF q
  <2> QED BY <1>2, <1>3, <2>1, <2>2, <2>4, <2>5 DEF Tracks, q, d
<1> QED BY <1>5, <1>6, <1>7

\* What the characterizer tracks is what FacesAreSettled says.
LEMMA TrackedAreSettled ==
  ASSUME PosesTracked
  PROVE  FacesAreSettled
<1> SUFFICES ASSUME kind = "pose"
             PROVE  /\ shown.accepted = Cardinality(Settled(given.poses))
                    /\ \A i \in Axis, n \in Settled(given.poses) :
                         given.poses[n][i] \in shown.min[i] .. shown.max[i]
                    /\ shown.seeded =>
                         \A i \in Axis : {shown.min[i], shown.max[i]}
                           \subseteq {given.poses[n][i] : n \in Settled(given.poses)}
                    /\ \A i \in Axis :
                         Fit(shown, i).complete
                         => \E m, n \in Settled(given.poses) :
                              given.poses[m][i] - given.poses[n][i] >= MinSpan
  BY DEF FacesAreSettled
<1> DEFINE p == given.poses
           S == Settled(p)
<1>1. shown \in Characterizers /\ p \in Seq(Vector) /\ ExtremesOf(shown, p)
  BY DEF PosesTracked, Tracks
<1>2. /\ shown.seeded = (S # {}) /\ shown.accepted = Cardinality(S)
      /\ \A n \in S : \A i \in Axis : shown.min[i] <= p[n][i] /\ p[n][i] <= shown.max[i]
      /\ S # {} => \A i \in Axis : /\ \E n \in S : p[n][i] = shown.min[i]
                                   /\ \E n \in S : p[n][i] = shown.max[i]
  BY <1>1 DEF ExtremesOf
<1>3. \A i \in Axis : shown.min[i] \in Int /\ shown.max[i] \in Int
  BY <1>1 DEF Characterizers, Vector
<1>4. \A n \in S : \A i \in Axis : p[n][i] \in Int
  <2>1. S \subseteq 1 .. Len(p)
    <3>1. DOMAIN p = 1 .. Len(p)
      BY <1>1
    <3> QED BY <3>1, Zenon DEF Settled
  <2>2. \A n \in S : p[n] \in Vector
    BY <1>1, <2>1
  <2> QED BY <2>2 DEF Vector
<1> HIDE DEF p, S
<1>5. \A i \in Axis, n \in S : p[n][i] \in shown.min[i] .. shown.max[i]
  BY <1>2, <1>3, <1>4
<1>6. shown.seeded => \A i \in Axis : {shown.min[i], shown.max[i]} \subseteq {p[n][i] : n \in S}
  <2> SUFFICES ASSUME S # {}, NEW i \in Axis
               PROVE  {shown.min[i], shown.max[i]} \subseteq {p[n][i] : n \in S}
    BY <1>2
  <2>1. (\E n \in S : p[n][i] = shown.min[i]) /\ (\E n \in S : p[n][i] = shown.max[i])
    BY <1>2
  <2> QED BY <2>1
<1>7. ASSUME NEW i \in Axis, Fit(shown, i).complete
      PROVE  \E m, n \in S : p[m][i] - p[n][i] >= MinSpan
  <2>1. shown.seeded /\ shown.max[i] - shown.min[i] >= MinSpan
    BY <1>7, Zenon DEF Fit
  <2>2. (\E n \in S : p[n][i] = shown.min[i]) /\ (\E n \in S : p[n][i] = shown.max[i])
    BY <1>2, <2>1
  <2> QED BY <2>1, <2>2
<1> QED BY <1>2, <1>5, <1>6, <1>7 DEF p, S

LEMMA CharacterizeStep ==
  ASSUME PosesTracked, Characterize
  PROVE  Tracks(shown', given'.poses)
<1>1. PICK raw \in Poses :
        LET before == IF kind = "none" THEN <<>> ELSE given.poses
        IN  /\ Len(before) < MaxPoses
            /\ Show("pose", [poses |-> Append(before, raw)],
                    AddSample(IF kind = "none" THEN FreshCharacterizer ELSE shown, raw))
  BY DEF Characterize
<1>2. raw \in Vector /\ kind \in {"none", "pose"}
  BY MeasurementAssumption DEF Vector, Characterize
<1>3. CASE kind = "none"
  <2>1. shown' = AddSample(FreshCharacterizer, raw) /\ given' = [poses |-> Append(<<>>, raw)]
    BY <1>1, <1>3 DEF Show
  <2>2. given'.poses = Append(<<>>, raw)
    BY <2>1
  <2> QED BY <1>2, <2>1, <2>2, FirstPose
<1>4. CASE kind = "pose"
  <2>1. shown' = AddSample(shown, raw) /\ given' = [poses |-> Append(given.poses, raw)]
    BY <1>1, <1>4 DEF Show
  <2>2. given'.poses = Append(given.poses, raw)
    BY <2>1
  <2>3. Tracks(shown, given.poses)
    BY <1>4 DEF PosesTracked
  <2> QED BY <1>2, <2>1, <2>2, <2>3, NextPose
<1> QED BY <1>2, <1>3, <1>4

\* The extremes an axis is judged by are those of the readings at which the box
\* had settled, for every sequence of readings and every threshold
\* (AccelCharacterizer).
THEOREM FacesSettled == Spec => []FacesAreSettled
<1>1. Init => PosesTracked
  BY DEF Init, PosesTracked
<1>2. PosesTracked /\ [Next]_vars => PosesTracked'
  <2> SUFFICES ASSUME PosesTracked, [Next]_vars
               PROVE  PosesTracked'
    OBVIOUS
  <2>1. CASE Next
    <3>1. kind' = "pose" => Tracks(shown', given'.poses)
      BY <2>1, KindOfStep, CharacterizeStep
    <3> QED BY <3>1, Zenon DEF PosesTracked, Tracks, RunOf, ExtremesOf, Characterizers, Vector
  <2>2. CASE UNCHANGED vars
    BY <2>2 DEF vars, PosesTracked, Tracks, RunOf, ExtremesOf, Characterizers, Vector
  <2> QED BY <2>1, <2>2
<1>3. PosesTracked => FacesAreSettled
  BY TrackedAreSettled
<1> QED BY <1>1, <1>2, <1>3, PTL DEF Spec

-----------------------------------------------------------------------------
(* UBX frames.                                                               *)

Pair == Byte \X Byte
SumStep(c, x) == <<(c[1] + x) % 256, (c[2] + c[1] + x) % 256>>

LEMMA ByteSum ==
  ASSUME NEW a \in Byte, NEW x \in Byte
  PROVE  (a + x) % 256 = IF a + x < 256 THEN a + x ELSE (a + x) - 256
<1>1. a \in Nat /\ x \in Nat /\ a < 256 /\ x < 256
  BY DEF Byte
<1>2. (a + x) % 256 \in 0 .. 255 /\ a + x = 256 * ((a + x) \div 256) + ((a + x) % 256)
      /\ (a + x) \div 256 \in Nat
  BY <1>1
<1> QED BY <1>1, <1>2

\* Different bytes have different sums with the same byte.
LEMMA ByteSumsDiffer ==
  ASSUME NEW a \in Byte, NEW b \in Byte, NEW x \in Byte, a # b
  PROVE  (a + x) % 256 # (b + x) % 256
<1>1. /\ (a + x) % 256 = IF a + x < 256 THEN a + x ELSE (a + x) - 256
      /\ (b + x) % 256 = IF b + x < 256 THEN b + x ELSE (b + x) - 256
  BY ByteSum
<1>2. a \in Nat /\ x \in Nat /\ a < 256 /\ x < 256 /\ b \in Nat /\ b < 256
  BY DEF Byte
<1> QED BY <1>1, <1>2

LEMMA SumStepPair ==
  ASSUME NEW c \in Pair, NEW x \in Byte
  PROVE  SumStep(c, x) \in Pair
<1>1. c[1] + x \in Nat /\ c[2] + c[1] + x \in Nat
  <2>1. c[1] \in Byte /\ c[2] \in Byte
    BY DEF Pair
  <2>2. c[1] \in Nat /\ c[2] \in Nat /\ x \in Nat
    BY <2>1 DEF Byte
  <2> QED BY <2>2
<1>2. \A n \in Nat : n % 256 \in 0 .. 255
  OBVIOUS
<1>3. (c[1] + x) % 256 \in Byte /\ (c[2] + c[1] + x) % 256 \in Byte
  BY <1>1, <1>2 DEF Byte
<1> QED BY <1>3 DEF SumStep, Pair

\* The checksum after each byte.
LEMMA ChecksumSteps ==
  ASSUME NEW d, NEW n \in Nat, DOMAIN d = 1 .. n, \A i \in 1 .. n : d[i] \in Byte
  PROVE  \E v \in [0 .. n -> Pair] :
           /\ v[0] = <<0, 0>> /\ Checksum(d) = v[n]
           /\ \A k \in 1 .. n : v[k] = SumStep(v[k - 1], d[k])
<1> DEFINE F == [k \in 1 .. n |-> [x \in Pair |-> SumStep(x, d[k])]]
           G(iter) == [s \in SUBSET (1 .. n) |->
                         IF s = {} THEN <<0, 0>> ELSE SumStep(iter[s \ {Max(s)}], d[Max(s)])]
           it == CHOOSE iter : iter = G(iter)
<1>1. F \in [1 .. n -> [Pair -> Pair]]
  BY SumStepPair
<1>0. <<0, 0>> \in Pair
  BY DEF Pair, Byte
<1>2. PICK g \in [SUBSET (1 .. n) -> Pair] : FoldsTo(g, <<0, 0>>, F, n)
  BY <1>0, <1>1, FoldExists
<1>3. ASSUME NEW f \in [SUBSET (1 .. n) -> Pair], NEW s \in SUBSET (1 .. n), s # {}
      PROVE  F[Max(s)][f[s \ {Max(s)}]] = SumStep(f[s \ {Max(s)}], d[Max(s)])
  <2>1. Max(s) \in 1 .. n /\ s \ {Max(s)} \in SUBSET (1 .. n)
    BY <1>3, GreatestOf
  <2>2. f[s \ {Max(s)}] \in Pair
    BY <2>1
  <2> QED BY <2>1, <2>2
<1>4. g = G(g)
  BY <1>2, <1>3 DEF FoldsTo
<1> HIDE DEF F
<1>5. it = G(it)
  <2> HIDE DEF G
  <2> QED BY <1>4
<1>6. Checksum(d) = it[1 .. n]
  BY Zenon DEF Checksum, FoldLeft, MapThenFoldSet, SumStep
<1> HIDE DEF it
<1> DEFINE v == [k \in 0 .. n |-> it[1 .. k]]
<1>7. v[0] = <<0, 0>>
  <2>1. 1 .. 0 = {} /\ {} \in SUBSET (1 .. n)
    OBVIOUS
  <2>2. it[{}] = <<0, 0>>
    BY <1>5, <2>1
  <2> QED BY <2>1, <2>2
<1>8. ASSUME NEW k \in 1 .. n
      PROVE  v[k] = SumStep(v[k - 1], d[k])
  <2>1. /\ 1 .. k \in SUBSET (1 .. n) /\ 1 .. k # {} /\ Max(1 .. k) = k
        /\ (1 .. k) \ {k} = 1 .. k - 1 /\ k - 1 \in 0 .. n
    BY FirstIndices
  <2>2. \A s \in SUBSET (1 .. n) :
          s # {} => it[s] = SumStep(it[s \ {Max(s)}], d[Max(s)])
    BY <1>5
  <2>3. it[1 .. k] = SumStep(it[(1 .. k) \ {Max(1 .. k)}], d[Max(1 .. k)])
    BY <2>1, <2>2
  <2>4. v[k] = it[1 .. k] /\ v[k - 1] = it[1 .. k - 1]
    BY <2>1
  <2> HIDE DEF v
  <2> QED BY <2>1, <2>3, <2>4
<1> HIDE DEF v
<1>9. \A k \in 0 .. n : v[k] \in Pair
  <2> DEFINE S == {k \in 0 .. n : v[k] \in Pair}
  <2>1. 0 \in S
    BY <1>0, <1>7
  <2>2. \A k \in 0 .. n - 1 : k \in S => k + 1 \in S
    <3> SUFFICES ASSUME NEW k \in 0 .. n - 1, v[k] \in Pair
                 PROVE  k + 1 \in 0 .. n /\ v[k + 1] \in Pair
      OBVIOUS
    <3>1. k + 1 \in 1 .. n /\ k = (k + 1) - 1
      OBVIOUS
    <3>2. v[k + 1] = SumStep(v[k], d[k + 1])
      BY <1>8, <3>1
    <3>3. d[k + 1] \in Byte
      BY <3>1
    <3> QED BY <3>1, <3>2, <3>3, SumStepPair
  <2>3. 0 .. n \subseteq S
    <3> HIDE DEF S
    <3> QED BY <2>1, <2>2, InductionUpTo
  <2> QED BY <2>3
<1>10. v \in [0 .. n -> Pair] /\ Checksum(d) = v[n]
  BY <1>6, <1>9 DEF v
<1> QED BY <1>7, <1>8, <1>10

LEMMA ChecksumPair ==
  ASSUME NEW s \in Seq(Byte)
  PROVE  Checksum(s) \in Pair
<1>1. Len(s) \in Nat /\ DOMAIN s = 1 .. Len(s) /\ \A i \in 1 .. Len(s) : s[i] \in Byte
  OBVIOUS
<1>2. PICK v \in [0 .. Len(s) -> Pair] : Checksum(s) = v[Len(s)]
  BY <1>1, ChecksumSteps
<1>3. Len(s) \in 0 .. Len(s)
  BY <1>1
<1> QED BY <1>2, <1>3

\* Sums that differ stay different over the same byte, and different bytes make them
\* differ.
LEMMA SumsApart ==
  ASSUME NEW c \in Pair, NEW d \in Pair, NEW x \in Byte, NEW y \in Byte
  PROVE  /\ c[1] # d[1] => SumStep(c, x)[1] # SumStep(d, x)[1]
         /\ x # y => SumStep(c, x)[1] # SumStep(c, y)[1]
<1>1. c[1] \in Byte /\ d[1] \in Byte
  BY DEF Pair
<1>2. SumStep(c, x)[1] = (c[1] + x) % 256 /\ SumStep(d, x)[1] = (d[1] + x) % 256
      /\ SumStep(c, y)[1] = (c[1] + y) % 256
  BY DEF SumStep
<1>3. c[1] # d[1] => (c[1] + x) % 256 # (d[1] + x) % 256
  BY <1>1, ByteSumsDiffer
<1>4. x # y => (c[1] + x) % 256 # (c[1] + y) % 256
  <2>1. c[1] + x = x + c[1] /\ c[1] + y = y + c[1]
    BY <1>1 DEF Byte
  <2> QED BY <1>1, <2>1, ByteSumsDiffer
<1> QED BY <1>2, <1>3, <1>4

\* One wrong byte shows in the checksum.
LEMMA ChecksumSeesError ==
  ASSUME NEW s \in Seq(Byte), NEW t \in Seq(Byte), Len(t) = Len(s),
         NEW i \in 1 .. Len(s), s[i] # t[i],
         \A j \in 1 .. Len(s) : j # i => s[j] = t[j]
  PROVE  Checksum(s) # Checksum(t)
<1> DEFINE n == Len(s)
<1>1. /\ n \in Nat /\ DOMAIN s = 1 .. n /\ DOMAIN t = 1 .. n
      /\ \A j \in 1 .. n : s[j] \in Byte /\ t[j] \in Byte
  OBVIOUS
<1>2. PICK v \in [0 .. n -> Pair] :
        /\ v[0] = <<0, 0>> /\ Checksum(s) = v[n]
        /\ \A k \in 1 .. n : v[k] = SumStep(v[k - 1], s[k])
  BY <1>1, ChecksumSteps
<1>3. PICK w \in [0 .. n -> Pair] :
        /\ w[0] = <<0, 0>> /\ Checksum(t) = w[n]
        /\ \A k \in 1 .. n : w[k] = SumStep(w[k - 1], t[k])
  BY <1>1, ChecksumSteps
<1>4. i \in 1 .. n /\ s[i] # t[i] /\ \A j \in 1 .. n : j # i => s[j] = t[j]
  OBVIOUS
<1> HIDE DEF n
<1> DEFINE S == {k \in 0 .. n : IF k < i THEN v[k] = w[k] ELSE v[k][1] # w[k][1]}
<1>5. 0 \in S
  <2>1. 0 \in 0 .. n /\ 0 < i /\ v[0] = w[0]
    BY <1>1, <1>2, <1>3, <1>4
  <2> QED BY <2>1
<1>6. ASSUME NEW k \in 0 .. n - 1, k \in S
      PROVE  k + 1 \in S
  <2>1. k + 1 \in 1 .. n /\ k \in 0 .. n /\ k + 1 \in 0 .. n /\ (k + 1) - 1 = k
    BY <1>1
  <2>2. v[k + 1] = SumStep(v[k], s[k + 1]) /\ w[k + 1] = SumStep(w[k], t[k + 1])
    BY <1>2, <1>3, <2>1
  <2>3. v[k] \in Pair /\ w[k] \in Pair /\ s[k + 1] \in Byte /\ t[k + 1] \in Byte
    BY <1>1, <2>1
  <2>4. CASE k + 1 < i
    <3>1. k < i /\ s[k + 1] = t[k + 1]
      BY <1>1, <1>4, <2>1, <2>4
    <3> QED BY <1>6, <2>1, <2>2, <2>4, <3>1
  <2>5. CASE k + 1 = i
    <3>1. k < i /\ s[k + 1] # t[k + 1] /\ ~ k + 1 < i
      BY <1>1, <1>4, <2>1, <2>5
    <3>2. v[k] = w[k]
      BY <1>6, <3>1
    <3>3. v[k + 1][1] # w[k + 1][1]
      BY <2>2, <2>3, <3>1, <3>2, SumsApart
    <3> QED BY <2>1, <3>1, <3>3
  <2>6. CASE k + 1 > i
    <3>1. ~ k < i /\ s[k + 1] = t[k + 1] /\ ~ k + 1 < i
      BY <1>1, <1>4, <2>1, <2>6
    <3>2. v[k][1] # w[k][1]
      BY <1>6, <3>1
    <3>3. v[k + 1][1] # w[k + 1][1]
      BY <2>2, <2>3, <3>1, <3>2, SumsApart
    <3> QED BY <2>1, <3>1, <3>3
  <2> QED BY <1>4, <2>1, <2>4, <2>5, <2>6
<1>7. 0 .. n \subseteq S
  <2> HIDE DEF S
  <2> QED BY <1>1, <1>5, <1>6, InductionUpTo
<1>8. n \in S /\ ~ n < i
  BY <1>1, <1>4, <1>7
<1>9. v[n][1] # w[n][1]
  BY <1>8
<1> QED BY <1>2, <1>3, <1>9

\* A frame as it leaves the driver: what it carries between the two bytes it starts
\* with and its checksum.
Body(class, id, payload) == <<class, id>> \o LittleEndian16(Len(payload)) \o payload
Framed(body) == <<181, 98>> \o body \o Checksum(body)

\* Sequence w is s and then t.
AreJoined(w, s, t) ==
  /\ w \in Seq(Byte) /\ Len(w) = Len(s) + Len(t)
  /\ \A i \in 1 .. Len(s) : w[i] = s[i]
  /\ \A i \in 1 .. Len(t) : w[Len(s) + i] = t[i]

LEMMA Joined ==
  ASSUME NEW s \in Seq(Byte), NEW t \in Seq(Byte)
  PROVE  AreJoined(s \o t, s, t)
<1>1. Len(s) \in Nat /\ Len(t) \in Nat
  OBVIOUS
<1>2. /\ s \o t \in Seq(Byte) /\ Len(s \o t) = Len(s) + Len(t)
      /\ \A i \in 1 .. Len(s) + Len(t) :
           (s \o t)[i] = IF i <= Len(s) THEN s[i] ELSE t[i - Len(s)]
  BY ConcatProperties
<1>3. (\A i \in 1 .. Len(s) : (s \o t)[i] = s[i]) /\ (\A i \in 1 .. Len(t) : (s \o t)[Len(s) + i] = t[i])
  BY <1>1, <1>2
<1> QED BY <1>2, <1>3, Zenon DEF AreJoined

ReadsAs(f, body) ==
  /\ f \in Seq(Byte) /\ Len(f) = Len(body) + 4
  /\ f[1] = 181 /\ f[2] = 98
  /\ \A i \in 1 .. Len(body) : f[i + 2] = body[i]
  /\ f[Len(body) + 3] = Checksum(body)[1] /\ f[Len(body) + 4] = Checksum(body)[2]

LEMMA FrameBytes ==
  ASSUME NEW body \in Seq(Byte)
  PROVE  ReadsAs(Framed(body), body)
<1> DEFINE n == Len(body)
           c == Checksum(body)
           f == Framed(body)
<1>1. c \in Seq(Byte) /\ Len(c) = 2
  <2>1. c \in Pair
    BY ChecksumPair
  <2> HIDE DEF c
  <2>2. PICK a \in Byte, b \in Byte : c = <<a, b>>
    BY <2>1 DEF Pair
  <2> QED BY <2>2
<1>2. n \in Nat /\ body \in Seq(Byte) /\ Len(body) = n
  OBVIOUS
<1> HIDE DEF c, n
<1>3. <<181, 98>> \in Seq(Byte) /\ Len(<<181, 98>>) = 2
  BY DEF Byte
<1> DEFINE g == <<181, 98>> \o body
<1>4. /\ g \in Seq(Byte) /\ Len(g) = n + 2 /\ g[1] = 181 /\ g[2] = 98
      /\ \A i \in 1 .. n : g[i + 2] = body[i]
  <2>1. g \in Seq(Byte) /\ Len(g) = 2 + n
    BY <1>2, <1>3
  <2>2. g[1] = 181 /\ g[2] = 98
    BY <1>2, <1>3
  <2>3. \A i \in 1 .. n : g[i + 2] = body[i]
    BY <1>2, <1>3
  <2> QED BY <1>2, <2>1, <2>2, <2>3
<1>5. f = g \o c
  BY DEF Framed, c
<1> HIDE DEF g, f
<1>6. AreJoined(f, g, c)
  <2>1. AreJoined(g \o c, g, c)
    BY <1>1, <1>4, Joined
  <2> QED BY <1>5, <2>1, Zenon
<1>7. /\ f \in Seq(Byte) /\ Len(f) = n + 4 /\ \A i \in 1 .. n + 2 : f[i] = g[i]
      /\ f[n + 3] = c[1] /\ f[n + 4] = c[2]
  BY <1>1, <1>2, <1>4, <1>6 DEF AreJoined
<1>8. f[1] = 181 /\ f[2] = 98 /\ \A i \in 1 .. n : f[i + 2] = body[i]
  BY <1>2, <1>4, <1>7
<1> QED BY <1>7, <1>8 DEF f, c, n, ReadsAs

\* What a frame carries is what its checksum is computed of, on both sides.
LEMMA CarriedBytes ==
  ASSUME NEW f \in Seq(Byte), Len(f) >= 4
  PROVE  LET s == SubSeq(f, 3, Len(f) - 2)
             t == SubSeq(f, Len(f) - 1, Len(f))
         IN  /\ s \in Seq(Byte) /\ Len(s) = Len(f) - 4
             /\ \A i \in 1 .. Len(f) - 4 : s[i] = f[i + 2]
             /\ t \in Seq(Byte) /\ Len(t) = 2
             /\ t[1] = f[Len(f) - 1] /\ t[2] = f[Len(f)]
<1> DEFINE s == SubSeq(f, 3, Len(f) - 2)
           t == SubSeq(f, Len(f) - 1, Len(f))
           n == Len(f)
<1>0. n \in Nat /\ n >= 4 /\ Len(f) = n /\ DOMAIN f = 1 .. n
  OBVIOUS
<1>1. \A i \in 3 .. n - 2 : f[i] \in Byte
  BY <1>0
<1>2. \A i \in n - 1 .. n : f[i] \in Byte
  BY <1>0
<1> HIDE DEF n
<1>3. s \in Seq(Byte) /\ Len(s) = n - 4 /\ \A i \in 1 .. n - 4 : s[i] = f[i + 2]
  <2>1. s \in Seq(Byte) /\ Len(s) = IF 3 <= n - 2 THEN (n - 2) - 3 + 1 ELSE 0
    BY <1>0, <1>1, SubSeqProperties
  <2>2. \A i \in 1 .. (n - 2) - 3 + 1 : s[i] = f[3 + i - 1]
    BY <1>0, SubSeqProperties
  <2> QED BY <1>0, <2>1, <2>2
<1>4. t \in Seq(Byte) /\ Len(t) = 2 /\ t[1] = f[n - 1] /\ t[2] = f[n]
  BY <1>0, <1>2
<1> QED BY <1>0, <1>3, <1>4

\* A frame of a payload that fits its length field.
Carries(body) == body \in Seq(Byte) /\ Len(body) >= 4 /\ Len(body) = 4 + body[3] + 256 * body[4]

LEMMA SumOfPair ==
  ASSUME NEW c \in Pair
  PROVE  c = <<c[1], c[2]>>
  BY DEF Pair

LEMMA ByteIsNat ==
  ASSUME NEW x \in Byte
  PROVE  x \in Nat /\ x < 256
  BY DEF Byte

LEMMA WrongLength ==
  ASSUME NEW n, NEW x \in Nat, NEW y \in Nat, NEW b \in Nat,
         x < 256, y < 256, b < 256, n = 4 + x + 256 * y
  PROVE  /\ n + 4 = 8 + b + 256 * y => b = x
         /\ n + 4 = 8 + x + 256 * b => b = y
  OBVIOUS

\* A frame that arrives whole is accepted.
LEMMA WholeFrameIsValid ==
  ASSUME NEW body, Carries(body)
  PROVE  ValidFrame(Framed(body))
<1> DEFINE f == Framed(body)
           n == Len(body)
<1>1. body \in Seq(Byte) /\ n \in Nat /\ n >= 4 /\ n = 4 + body[3] + 256 * body[4]
  BY DEF Carries
<1>2. /\ f \in Seq(Byte) /\ Len(f) = n + 4 /\ f[1] = 181 /\ f[2] = 98
      /\ \A i \in 1 .. n : f[i + 2] = body[i]
      /\ f[n + 3] = Checksum(body)[1] /\ f[n + 4] = Checksum(body)[2]
  <2>1. ReadsAs(f, body)
    BY <1>1, FrameBytes
  <2> HIDE DEF f
  <2> QED BY <2>1 DEF ReadsAs
<1> HIDE DEF f
<1> DEFINE s == SubSeq(f, 3, Len(f) - 2)
           t == SubSeq(f, Len(f) - 1, Len(f))
<1>3. /\ s \in Seq(Byte) /\ Len(s) = Len(f) - 4
      /\ \A i \in 1 .. Len(f) - 4 : s[i] = f[i + 2]
      /\ t \in Seq(Byte) /\ Len(t) = 2
      /\ t[1] = f[Len(f) - 1] /\ t[2] = f[Len(f)]
  <2>1. Len(f) >= 4
    BY <1>1, <1>2
  <2> QED BY <1>2, <2>1, CarriedBytes
<1> HIDE DEF s, t
<1>4. s = body
  <2>1. Len(f) - 4 = Len(body)
    BY <1>1, <1>2
  <2>2. Len(s) = Len(body) /\ \A i \in 1 .. Len(body) : s[i] = body[i]
    BY <1>2, <1>3, <2>1
  <2> QED BY <1>1, <1>3, <2>2
<1> HIDE DEF n
<1>5. t = Checksum(body)
  <2>1. t[1] = Checksum(body)[1] /\ t[2] = Checksum(body)[2]
    <3>1. (n + 4) - 1 = n + 3
      BY <1>1
    <3> QED BY <1>2, <1>3, <3>1
  <2>2. Checksum(body) = <<Checksum(body)[1], Checksum(body)[2]>>
    BY <1>1, ChecksumPair, SumOfPair
  <2>3. t = <<t[1], t[2]>>
    BY <1>3
  <2> QED BY <2>1, <2>2, <2>3
<1>6. f[5] = body[3] /\ f[6] = body[4]
  <2>1. 3 \in 1 .. n /\ 4 \in 1 .. n /\ 3 + 2 = 5 /\ 4 + 2 = 6
    BY <1>1
  <2> QED BY <1>2, <2>1
<1>7. body[3] \in Nat /\ body[4] \in Nat
  <2>1. body[3] \in Byte /\ body[4] \in Byte
    BY <1>1 DEF n
  <2> QED BY <2>1, ByteIsNat
<1>8. Len(f) >= Overhead /\ Len(f) = Overhead + f[5] + 256 * f[6]
  <2>1. n + 4 = 8 + body[3] + 256 * body[4]
    BY <1>1, <1>7
  <2>2. n + 4 >= 8
    BY <1>1
  <2> QED BY <1>2, <1>6, <2>1, <2>2 DEF Overhead
<1>9. t = Checksum(s)
  BY <1>4, <1>5
<1> QED BY <1>2, <1>8, <1>9, Zenon DEF ValidFrame, s, t, f

\* A frame with a byte wrong is not.
LEMMA DamagedFrameIsNot ==
  ASSUME NEW body, Carries(body),
         NEW i \in DOMAIN Framed(body), NEW b \in Byte, b # Framed(body)[i]
  PROVE  ~ ValidFrame([Framed(body) EXCEPT ![i] = b])
<1> DEFINE f == Framed(body)
           g == [f EXCEPT ![i] = b]
           n == Len(body)
<1>1. body \in Seq(Byte) /\ n \in Nat /\ n >= 4 /\ n = 4 + body[3] + 256 * body[4]
  BY DEF Carries
<1>2. /\ f \in Seq(Byte) /\ Len(f) = n + 4 /\ f[1] = 181 /\ f[2] = 98
      /\ \A j \in 1 .. n : f[j + 2] = body[j]
      /\ f[n + 3] = Checksum(body)[1] /\ f[n + 4] = Checksum(body)[2]
  <2>1. ReadsAs(f, body)
    BY <1>1, FrameBytes
  <2> HIDE DEF f
  <2> QED BY <2>1 DEF ReadsAs
<1>3. i \in DOMAIN f /\ b # f[i]
  OBVIOUS
<1> HIDE DEF f
<1>4. i \in 1 .. n + 4 /\ DOMAIN f = 1 .. n + 4
  BY <1>1, <1>2, <1>3
<1>5. /\ g \in Seq(Byte) /\ Len(g) = n + 4 /\ g[i] = b
      /\ \A j \in 1 .. n + 4 : j # i => g[j] = f[j]
  <2>1. g \in Seq(Byte) /\ Len(g) = Len(f)
    BY <1>2, <1>3
  <2>2. g[i] = b /\ \A j \in DOMAIN f : j # i => g[j] = f[j]
    BY <1>3, Zenon
  <2> QED BY <1>2, <1>4, <2>1, <2>2
<1> HIDE DEF g
<1> SUFFICES ASSUME ValidFrame(g)
             PROVE  FALSE
  BY DEF g, f
<1> DEFINE s == SubSeq(g, 3, Len(g) - 2)
           t == SubSeq(g, Len(g) - 1, Len(g))
<1>6. /\ g[1] = 181 /\ g[2] = 98
      /\ Len(g) = Overhead + g[5] + 256 * g[6]
      /\ t = Checksum(s)
  BY Zenon DEF ValidFrame
<1>7. /\ s \in Seq(Byte) /\ Len(s) = n
      /\ \A j \in 1 .. n : s[j] = g[j + 2]
      /\ t[1] = g[n + 3] /\ t[2] = g[n + 4]
  <2>1. Len(g) >= 4 /\ Len(g) - 4 = n /\ Len(g) - 1 = n + 3
    BY <1>1, <1>5
  <2> QED BY <1>5, <2>1, CarriedBytes
<1> HIDE DEF s, t
<1>8. f[5] = body[3] /\ f[6] = body[4]
  BY <1>1, <1>2
<1>9. i # 1 /\ i # 2
  BY <1>2, <1>3, <1>5, <1>6
<1>10. i # 5 /\ i # 6
  <2>1. body[3] \in Byte /\ body[4] \in Byte
    BY <1>1
  <2>2. body[3] \in Nat /\ body[3] < 256 /\ body[4] \in Nat /\ b \in Nat /\ b < 256
    BY <2>1, ByteIsNat
  <2>3. n + 4 = 8 + g[5] + 256 * g[6]
    BY <1>5, <1>6 DEF Overhead
  <2> HIDE DEF n
  <2>4. SUFFICES ASSUME i = 5 \/ i = 6
                PROVE  FALSE
    OBVIOUS
  <2>5. body[4] < 256 /\ n = 4 + body[3] + 256 * body[4]
    BY <1>1, <2>1, ByteIsNat
  <2>6. CASE i = 5
    <3>1. g[5] = b /\ b # body[3] /\ g[6] = body[4]
      BY <1>1, <1>3, <1>4, <1>5, <1>8, <2>6
    <3> QED BY <2>2, <2>3, <2>5, <3>1, WrongLength
  <2>7. CASE i = 6
    <3>1. g[6] = b /\ b # body[4] /\ g[5] = body[3]
      BY <1>1, <1>3, <1>4, <1>5, <1>8, <2>7
    <3> QED BY <2>2, <2>3, <2>5, <3>1, WrongLength
  <2> QED BY <2>4, <2>6, <2>7
<1>11. CASE i <= n + 2
  <2>1. i - 2 \in 1 .. n /\ (i - 2) + 2 = i
    BY <1>1, <1>4, <1>9, <1>11
  <2>2. s[i - 2] = b /\ body[i - 2] = f[i]
    BY <1>2, <1>5, <1>7, <2>1
  <2>3. \A j \in 1 .. n : j # i - 2 => s[j] = body[j]
    <3> SUFFICES ASSUME NEW j \in 1 .. n, j # i - 2
                 PROVE  s[j] = body[j]
      OBVIOUS
    <3>1. j + 2 \in 1 .. n + 4 /\ j + 2 # i
      BY <1>1, <1>4
    <3> QED BY <1>2, <1>5, <1>7, <3>1
  <2>4. Checksum(body) # Checksum(s)
    BY <1>1, <1>3, <1>7, <2>1, <2>2, <2>3, ChecksumSeesError
  <2>5. t[1] = Checksum(body)[1] /\ t[2] = Checksum(body)[2]
    <3>1. n + 3 \in 1 .. n + 4 /\ n + 4 \in 1 .. n + 4 /\ n + 3 # i /\ n + 4 # i
      BY <1>1, <1>4, <1>11
    <3> QED BY <1>2, <1>5, <1>7, <3>1
  <2>6. Checksum(body) = <<Checksum(body)[1], Checksum(body)[2]>>
        /\ Checksum(s) = <<Checksum(s)[1], Checksum(s)[2]>>
    BY <1>1, <1>7, ChecksumPair, SumOfPair
  <2> QED BY <1>6, <2>4, <2>5, <2>6
<1>12. CASE ~ i <= n + 2
  <2>1. s = body
    <3>1. \A j \in 1 .. n : s[j] = body[j]
      <4> SUFFICES ASSUME NEW j \in 1 .. n
                   PROVE  s[j] = body[j]
        OBVIOUS
      <4>1. j + 2 \in 1 .. n + 4 /\ j + 2 # i
        BY <1>1, <1>4, <1>12
      <4> QED BY <1>2, <1>5, <1>7, <4>1
    <3> QED BY <1>1, <1>7, <3>1
  <2>2. g[n + 3] = f[n + 3] /\ g[n + 4] = f[n + 4]
    BY <1>2, <1>6, <1>7, <2>1
  <2>3. i = n + 3 \/ i = n + 4
    BY <1>1, <1>4, <1>12
  <2> QED BY <1>3, <1>5, <2>2, <2>3
<1> QED BY <1>11, <1>12

\* The two bytes of a word.
IsWord(w, n) ==
  /\ w \in Seq(Byte) /\ Len(w) = 2 /\ w[1] \in Nat /\ w[2] \in Nat
  /\ w[1] + 256 * w[2] = n

LEMMA WordBytes ==
  ASSUME NEW n \in Nat, n \div 256 < 256
  PROVE  IsWord(LittleEndian16(n), n)
<1>1. /\ n % 256 \in 0 .. 255 /\ n \div 256 \in 0 .. 255
      /\ n = 256 * (n \div 256) + (n % 256)
  BY SMT
<1>2. (n \div 256) % 256 = n \div 256
  BY <1>1, SMT
<1>3. LittleEndian16(n) = <<n % 256, n \div 256>>
  BY <1>2 DEF LittleEndian16
<1>4. n % 256 \in Byte /\ n \div 256 \in Byte
  BY <1>1 DEF Byte
<1> QED BY <1>1, <1>3, <1>4 DEF IsWord

\* The four bytes of a longer number, by its two halves.
Words(low, high) == LittleEndian16(low) \o LittleEndian16(high)
FromWords(low, high) == low + 65536 * high
FitsLong(n) == n \in Nat /\ n \div 65536 < 65536

LEMMA TwoWords ==
  ASSUME NEW low \in Nat, NEW high \in Nat, low \div 256 < 256, high \div 256 < 256
  PROVE  /\ Words(low, high) \in Seq(Byte) /\ Len(Words(low, high)) = 4
         /\ Words(low, high)[1] + 256 * Words(low, high)[2] = low
         /\ Words(low, high)[3] + 256 * Words(low, high)[4] = high
<1> DEFINE a == LittleEndian16(low)
           b == LittleEndian16(high)
           w == a \o b
<1>1. IsWord(a, low)
  BY WordBytes
<1>2. IsWord(b, high)
  BY WordBytes
<1> HIDE DEF a, b
<1>3. /\ a \in Seq(Byte) /\ Len(a) = 2 /\ a[1] \in Nat /\ a[2] \in Nat
      /\ a[1] + 256 * a[2] = low
  BY <1>1 DEF IsWord
<1>4. /\ b \in Seq(Byte) /\ Len(b) = 2 /\ b[1] \in Nat /\ b[2] \in Nat
      /\ b[1] + 256 * b[2] = high
  BY <1>2 DEF IsWord
<1>5. AreJoined(w, a, b)
  BY <1>3, <1>4, Joined
<1> HIDE DEF w
<1>6. w \in Seq(Byte) /\ Len(w) = 4 /\ w[1] = a[1] /\ w[2] = a[2] /\ w[3] = b[1] /\ w[4] = b[2]
  BY <1>3, <1>4, <1>5 DEF AreJoined
<1>7. w \in Seq(Byte) /\ Len(w) = 4 /\ w[1] + 256 * w[2] = low /\ w[3] + 256 * w[4] = high
  BY <1>3, <1>4, <1>6
<1>8. Words(low, high) = w
  BY DEF Words, w, a, b
<1> QED BY <1>7, <1>8

LEMMA LongWords ==
  ASSUME NEW n, FitsLong(n)
  PROVE  \E low \in Nat, high \in Nat :
           /\ low \div 256 < 256 /\ high \div 256 < 256 /\ FromWords(low, high) = n
           /\ LittleEndian32(n) = Words(low, high)
<1>1. /\ n % 65536 \in Nat /\ (n % 65536) \div 256 < 256
      /\ n \div 65536 \in Nat /\ (n \div 65536) \div 256 < 256
      /\ (n % 65536) + 65536 * (n \div 65536) = n
  BY SMT DEF FitsLong
<1>2. LittleEndian32(n) = Words(n % 65536, n \div 65536)
  BY SMT DEF LittleEndian32, Words
<1> QED BY <1>1, <1>2, SMT DEF FromWords

LEMMA LongBytes ==
  ASSUME NEW n, FitsLong(n)
  PROVE  LET w == LittleEndian32(n)
         IN  /\ w \in Seq(Byte) /\ Len(w) = 4
             /\ FromWords(w[1] + 256 * w[2], w[3] + 256 * w[4]) = n
<1>1. PICK low \in Nat, high \in Nat :
        /\ low \div 256 < 256 /\ high \div 256 < 256 /\ FromWords(low, high) = n
        /\ LittleEndian32(n) = Words(low, high)
  BY LongWords
<1>2. /\ Words(low, high) \in Seq(Byte) /\ Len(Words(low, high)) = 4
      /\ Words(low, high)[1] + 256 * Words(low, high)[2] = low
      /\ Words(low, high)[3] + 256 * Words(low, high)[4] = high
  BY <1>1, TwoWords
<1> QED BY <1>1, <1>2

\* What Frame builds of a payload that the buffer holds.
Fits(payload) == payload \in Seq(Byte) /\ Len(payload) <= 36
Built(class, id, payload) ==
  LET f == Frame(class, id, payload)
      body == Body(class, id, payload)
  IN  /\ f = Framed(body) /\ Carries(body)
      /\ f[4] = id /\ \A i \in 1 .. Len(payload) : f[6 + i] = payload[i]

LEMMA BuiltFrame ==
  ASSUME NEW class \in Byte, NEW id \in Byte, NEW payload, Fits(payload)
  PROVE  Built(class, id, payload)
<1> DEFINE m == Len(payload)
           w == LittleEndian16(m)
           h == <<class, id>>
           body == Body(class, id, payload)
           f == Framed(body)
<1>1. payload \in Seq(Byte) /\ m \in Nat /\ m <= 36
  BY DEF Fits
<1>2. Frame(class, id, payload) = f
  <2>1. ~ Overhead + m > Capacity
    BY <1>1, MessageAssumption, CapacityAssumption DEF Overhead
  <2> QED BY <2>1, Zenon DEF Frame, Body, Framed
<1>3. body = (h \o w) \o payload
  BY DEF Body
<1> HIDE DEF body, f
<1>4. /\ w \in Seq(Byte) /\ Len(w) = 2 /\ w[1] \in Nat /\ w[2] \in Nat
      /\ w[1] + 256 * w[2] = m
  <2> HIDE DEF m
  <2>1. m \div 256 < 256
    BY <1>1, SMT
  <2>2. IsWord(w, m)
    BY <1>1, <2>1, WordBytes
  <2> HIDE DEF w
  <2> QED BY <2>2 DEF IsWord
<1>5. h \in Seq(Byte) /\ Len(h) = 2 /\ h[2] = id
  OBVIOUS
<1> HIDE DEF w, h
<1> DEFINE g == h \o w
<1>6. g \in Seq(Byte) /\ Len(g) = 4 /\ g[2] = id /\ g[3] = w[1] /\ g[4] = w[2]
  <2>1. AreJoined(g, h, w)
    BY <1>4, <1>5, Joined
  <2> HIDE DEF g
  <2> QED BY <1>4, <1>5, <2>1 DEF AreJoined
<1> HIDE DEF g
<1>7. /\ body \in Seq(Byte) /\ Len(body) = 4 + m
      /\ body[2] = id /\ body[3] = w[1] /\ body[4] = w[2]
      /\ \A i \in 1 .. m : body[4 + i] = payload[i]
  <2>1. AreJoined(g \o payload, g, payload)
    BY <1>1, <1>6, Joined
  <2>2. body = g \o payload
    BY <1>3 DEF g
  <2>3. AreJoined(body, g, payload)
    BY <2>1, <2>2, Zenon
  <2>4. /\ body \in Seq(Byte) /\ Len(body) = Len(g) + m
        /\ (\A i \in 1 .. Len(g) : body[i] = g[i])
        /\ (\A i \in 1 .. m : body[Len(g) + i] = payload[i])
    BY <2>3 DEF AreJoined
  <2> HIDE DEF m
  <2> QED BY <1>1, <1>6, <2>4
<1> HIDE DEF m
<1>8. Carries(body)
  BY <1>1, <1>4, <1>7 DEF Carries
<1>9. \A i \in 1 .. m + 4 : f[i + 2] = body[i]
  <2>1. m + 4 = Len(body)
    BY <1>1, <1>7
  <2>2. \A i \in 1 .. Len(body) : f[i + 2] = body[i]
    BY <1>7, FrameBytes, Zenon DEF f, ReadsAs
  <2> QED BY <2>1, <2>2
<1>10. f[4] = id
  <2>1. 2 \in 1 .. m + 4 /\ 2 + 2 = 4
    BY <1>1
  <2> QED BY <1>7, <1>9, <2>1
<1>11. \A i \in 1 .. m : f[6 + i] = payload[i]
  <2> SUFFICES ASSUME NEW i \in 1 .. m
               PROVE  f[6 + i] = payload[i]
    OBVIOUS
  <2>1. 4 + i \in 1 .. m + 4 /\ (4 + i) + 2 = 6 + i
    BY <1>1
  <2> QED BY <1>7, <1>9, <2>1
<1> QED BY <1>2, <1>8, <1>10, <1>11 DEF f, body, m, Built
\* A frame as it is built, and what the receiver is set to by it.
Sets(frame, setting) ==
  \E body : Carries(body) /\ frame = Framed(body) /\ Setting(frame) = setting

LEMMA ZerosAreBytes ==
  ASSUME NEW n \in Nat
  PROVE  Zeros(n) \in Seq(Byte) /\ Len(Zeros(n)) = n /\ \A i \in 1 .. n : Zeros(n)[i] = 0
<1>1. 0 \in Byte
  BY DEF Byte
<1> QED BY <1>1 DEF Zeros

LEMMA SentenceFrameSets ==
  ASSUME NEW id \in Byte, NEW rate \in Byte
  PROVE  Sets(CfgMsg(id, rate), [sentence |-> id, rate |-> rate])
<1> DEFINE p == <<240, id, 0, rate, 0, 0, 0, 0>>
           f == Frame(6, 1, p)
<1>1. 6 \in Byte /\ 1 \in Byte /\ 0 \in Byte /\ 240 \in Byte
  BY DEF Byte
<1>2. p \in Seq(Byte) /\ Len(p) = 8 /\ p[2] = id /\ p[4] = rate
  BY <1>1
<1>3. CfgMsg(id, rate) = f
  BY DEF CfgMsg
<1> HIDE DEF p
<1>4. /\ f = Framed(Body(6, 1, p)) /\ Carries(Body(6, 1, p)) /\ f[4] = 1
      /\ \A i \in 1 .. 8 : f[6 + i] = p[i]
  <2>1. Fits(p)
    BY <1>2 DEF Fits
  <2>2. Built(6, 1, p)
    <3> HIDE DEF f
    <3> QED BY <1>1, <2>1, BuiltFrame, Zenon
  <2> QED BY <1>2, <2>2 DEF Built
<1> HIDE DEF f
<1>5. f[8] = id /\ f[10] = rate
  <2>1. 6 + 2 = 8 /\ 6 + 4 = 10 /\ 2 \in 1 .. 8 /\ 4 \in 1 .. 8
    OBVIOUS
  <2> QED BY <1>2, <1>4, <2>1
<1>6. Setting(f) = [sentence |-> id, rate |-> rate]
  BY <1>4, <1>5, SMT DEF Setting
<1> QED BY <1>3, <1>4, <1>6 DEF Sets

LEMMA ModelFrameSets ==
  ASSUME NEW model \in Byte
  PROVE  Sets(CfgNav5DynamicModel(model), [model |-> model, applied |-> 1])
<1> DEFINE h == <<1, 0, model>>
           p == h \o Zeros(33)
           f == Frame(6, 36, p)
<1>1. 6 \in Byte /\ 36 \in Byte /\ 0 \in Byte /\ 1 \in Byte
  BY DEF Byte
<1>2. h \in Seq(Byte) /\ Len(h) = 3 /\ h[1] = 1 /\ h[2] = 0 /\ h[3] = model
  BY <1>1
<1>3. CfgNav5DynamicModel(model) = f
  BY DEF CfgNav5DynamicModel
<1> HIDE DEF h
<1>4. p \in Seq(Byte) /\ Len(p) = 36 /\ p[1] = 1 /\ p[2] = 0 /\ p[3] = model
  <2> DEFINE z == Zeros(33)
  <2>1. z \in Seq(Byte) /\ Len(z) = 33
    BY ZerosAreBytes
  <2> HIDE DEF z
  <2>2. AreJoined(h \o z, h, z)
    BY <1>2, <2>1, Joined
  <2>3. p = h \o z
    BY DEF z
  <2> HIDE DEF p
  <2>4. AreJoined(p, h, z)
    BY <2>2, <2>3, Zenon
  <2> QED BY <1>2, <2>1, <2>4 DEF AreJoined
<1> HIDE DEF p
<1>5. /\ f = Framed(Body(6, 36, p)) /\ Carries(Body(6, 36, p)) /\ f[4] = 36
      /\ \A i \in 1 .. 36 : f[6 + i] = p[i]
  <2>1. Fits(p)
    BY <1>4 DEF Fits
  <2>2. Built(6, 36, p)
    <3> HIDE DEF f
    <3> QED BY <1>1, <2>1, BuiltFrame, Zenon
  <2> QED BY <1>4, <2>2 DEF Built
<1> HIDE DEF f
<1>6. f[7] = 1 /\ f[8] = 0 /\ f[9] = model
  <2>1. \A i \in {1, 2, 3} : i \in 1 .. 36
    OBVIOUS
  <2>2. \A i \in {1, 2, 3} : f[6 + i] = p[i]
    BY <1>5, <2>1, Zenon
  <2>3. f[7] = p[1] /\ f[8] = p[2] /\ f[9] = p[3]
    BY <2>2
  <2> QED BY <1>4, <2>3
<1>7. Word(f, 1) = 1
  BY <1>6, SMT DEF Word
<1>8. Setting(f) = [model |-> model, applied |-> 1]
  BY <1>5, <1>6, <1>7, SMT DEF Setting
<1> QED BY <1>3, <1>5, <1>8 DEF Sets

LEMMA ResetFrameSets == Sets(CfgRstHotStart, [erased |-> 0, reset |-> 2])
<1> DEFINE p == <<0, 0, 2, 0>>
           f == Frame(6, 4, p)
<1>1. 6 \in Byte /\ 4 \in Byte /\ 0 \in Byte /\ 2 \in Byte
  BY DEF Byte
<1>2. p \in Seq(Byte) /\ Len(p) = 4 /\ p[1] = 0 /\ p[2] = 0 /\ p[3] = 2
  BY <1>1
<1>3. CfgRstHotStart = f
  BY DEF CfgRstHotStart
<1> HIDE DEF p
<1>4. /\ f = Framed(Body(6, 4, p)) /\ Carries(Body(6, 4, p)) /\ f[4] = 4
      /\ \A i \in 1 .. 4 : f[6 + i] = p[i]
  <2>1. Fits(p)
    BY <1>2 DEF Fits
  <2>2. Built(6, 4, p)
    <3> HIDE DEF f
    <3> QED BY <1>1, <2>1, BuiltFrame, Zenon
  <2> QED BY <1>2, <2>2 DEF Built
<1> HIDE DEF f
<1>5. f[7] = 0 /\ f[8] = 0 /\ f[9] = 2
  <2>1. 6 + 1 = 7 /\ 6 + 2 = 8 /\ 6 + 3 = 9 /\ 1 \in 1 .. 4 /\ 2 \in 1 .. 4 /\ 3 \in 1 .. 4
    OBVIOUS
  <2> QED BY <1>2, <1>4, <2>1
<1>6. Word(f, 1) = 0
  BY <1>5, SMT DEF Word
<1>7. Setting(f) = [erased |-> 0, reset |-> 2]
  BY <1>4, <1>5, <1>6, SMT DEF Setting
<1> QED BY <1>3, <1>4, <1>7 DEF Sets

\* The period of a rate, which fits a word.
LEMMA PeriodOfRate ==
  ASSUME NEW hertz \in Nat \ {0}
  PROVE  1000 \div hertz \in Nat /\ (1000 \div hertz) \div 256 < 256
<1>1. 1000 \div hertz \in Nat /\ 1000 \div hertz <= 1000
  BY SMT
<1> QED BY <1>1, SMT

LEMMA PeriodFrame ==
  ASSUME NEW period \in Nat, period \div 256 < 256
  PROVE  Sets(Frame(6, 8, LittleEndian16(period) \o <<1, 0, 1, 0>>), [period |-> period])
<1> DEFINE w == LittleEndian16(period)
           t == <<1, 0, 1, 0>>
           p == w \o t
           f == Frame(6, 8, p)
<1>1. 6 \in Byte /\ 8 \in Byte /\ 0 \in Byte /\ 1 \in Byte
  BY DEF Byte
<1>2. /\ w \in Seq(Byte) /\ Len(w) = 2 /\ w[1] + 256 * w[2] = period
  <2>1. IsWord(w, period)
    BY WordBytes
  <2> HIDE DEF w
  <2> QED BY <2>1 DEF IsWord
<1>3. t \in Seq(Byte) /\ Len(t) = 4
  BY <1>1
<1> HIDE DEF w, t
<1>4. p \in Seq(Byte) /\ Len(p) = 6 /\ p[1] = w[1] /\ p[2] = w[2]
  <2>1. AreJoined(p, w, t)
    BY <1>2, <1>3, Joined
  <2> HIDE DEF p
  <2> QED BY <1>2, <1>3, <2>1 DEF AreJoined
<1> HIDE DEF p
<1>5. /\ f = Framed(Body(6, 8, p)) /\ Carries(Body(6, 8, p)) /\ f[4] = 8
      /\ \A i \in 1 .. 6 : f[6 + i] = p[i]
  <2>1. Fits(p)
    BY <1>4 DEF Fits
  <2>2. Built(6, 8, p)
    <3> HIDE DEF f
    <3> QED BY <1>1, <2>1, BuiltFrame, Zenon
  <2> QED BY <1>4, <2>2 DEF Built
<1> HIDE DEF f
<1>6. f[7] = w[1] /\ f[8] = w[2]
  <2>1. 6 + 1 = 7 /\ 6 + 2 = 8 /\ 1 \in 1 .. 6 /\ 2 \in 1 .. 6
    OBVIOUS
  <2> QED BY <1>4, <1>5, <2>1
<1>7. Word(f, 1) = period
  <2>1. 6 + 1 = 7 /\ 7 + 1 = 8
    OBVIOUS
  <2>2. Word(f, 1) = f[7] + 256 * f[8]
    BY <2>1, SMT DEF Word
  <2> QED BY <1>2, <1>6, <2>2
<1>8. Setting(f) = [period |-> period]
  BY <1>5, <1>7, SMT DEF Setting
<1> QED BY <1>5, <1>8 DEF Sets, f, p, w, t

Period(hertz) == 1000 \div hertz

LEMMA RateFrameSets ==
  ASSUME NEW hertz \in Nat \ {0}
  PROVE  Sets(CfgRateHz(hertz), [period |-> Period(hertz)])
<1> DEFINE period == 1000 \div hertz
<1>1. period \in Nat /\ period \div 256 < 256
  BY PeriodOfRate
<1>2. CfgRateHz(hertz) = Frame(6, 8, LittleEndian16(period) \o <<1, 0, 1, 0>>)
  BY SMT DEF CfgRateHz
<1> HIDE DEF period
<1>3. Sets(CfgRateHz(hertz), [period |-> period])
  BY <1>1, <1>2, PeriodFrame
<1> QED BY <1>3 DEF period, Period

\* The link: the mode and the speed it is set to.
Mode == 2256
LinkSetting(baud) == [baud |-> baud, mode |-> Mode]

LEMMA ModeBytes ==
  LET w == LittleEndian32(Mode)
  IN  w \in Seq(Byte) /\ Len(w) = 4 /\ w[1] + 256 * w[2] = Mode
<1>1. LittleEndian32(Mode) = Words(Mode, 0)
  BY SMT DEF LittleEndian32, Words, Mode
<1>2. Mode \in Nat /\ Mode \div 256 < 256 /\ 0 \div 256 < 256
  BY SMT DEF Mode
<1> QED BY <1>1, <1>2, TwoWords

\* A sequence put together of parts of four bytes.
Followed(w, s, t, n) ==
  /\ w \in Seq(Byte) /\ Len(w) = n + 4 /\ \A i \in 1 .. n : w[i] = s[i]
  /\ w[n + 1] = t[1] /\ w[n + 2] = t[2] /\ w[n + 3] = t[3] /\ w[n + 4] = t[4]

LEMMA NextFour ==
  ASSUME NEW s \in Seq(Byte), NEW t \in Seq(Byte), NEW n \in Nat, Len(s) = n, Len(t) = 4,
         NEW w, w = s \o t
  PROVE  Followed(w, s, t, n)
<1>1. AreJoined(s \o t, s, t)
  BY Joined
<1>2. AreJoined(w, s, t)
  BY <1>1, Zenon
<1>3. w \in Seq(Byte) /\ Len(w) = n + 4 /\ \A i \in 1 .. n : w[i] = s[i]
  BY <1>2 DEF AreJoined
<1>4. \A i \in 1 .. 4 : w[n + i] = t[i]
  BY <1>2 DEF AreJoined
<1>5. 1 \in 1 .. 4 /\ 2 \in 1 .. 4 /\ 3 \in 1 .. 4 /\ 4 \in 1 .. 4
  OBVIOUS
<1> QED BY <1>3, <1>4, <1>5, Zenon DEF Followed

LinkBytes(p, m, b) ==
  /\ p \in Seq(Byte) /\ Len(p) = 20 /\ p[5] = m[1] /\ p[6] = m[2]
  /\ p[9] = b[1] /\ p[10] = b[2] /\ p[11] = b[3] /\ p[12] = b[4]

LEMMA LinkPayload ==
  ASSUME NEW a \in Seq(Byte), NEW m \in Seq(Byte), NEW b \in Seq(Byte), NEW c \in Seq(Byte),
         NEW z \in Seq(Byte), Len(a) = 4, Len(m) = 4, Len(b) = 4, Len(c) = 4, Len(z) = 4,
         NEW p, p = (((a \o m) \o b) \o c) \o z
  PROVE  LinkBytes(p, m, b)
<1> DEFINE am == a \o m
           amb == am \o b
           ambc == amb \o c
<1>1. am = a \o m /\ amb = am \o b /\ ambc = amb \o c /\ p = ambc \o z
  BY Zenon
<1>2. 4 \in Nat /\ 8 \in Nat /\ 12 \in Nat /\ 16 \in Nat
  OBVIOUS
<1> HIDE DEF am, amb, ambc
<1>3. am \in Seq(Byte) /\ Len(am) = 8 /\ am[5] = m[1] /\ am[6] = m[2]
  <2>1. Followed(am, a, m, 4)
    BY <1>1, <1>2, NextFour, Zenon
  <2> QED BY <2>1 DEF Followed
<1>4. /\ amb \in Seq(Byte) /\ Len(amb) = 12 /\ amb[5] = m[1] /\ amb[6] = m[2]
      /\ amb[9] = b[1] /\ amb[10] = b[2] /\ amb[11] = b[3] /\ amb[12] = b[4]
  <2>1. Followed(amb, am, b, 8)
    BY <1>1, <1>2, <1>3, NextFour, Zenon
  <2> QED BY <1>3, <2>1 DEF Followed
<1>5. ambc \in Seq(Byte) /\ Len(ambc) = 16 /\ \A i \in 1 .. 12 : ambc[i] = amb[i]
  <2>1. Followed(ambc, amb, c, 12)
    BY <1>1, <1>2, <1>4, NextFour, Zenon
  <2>2. ambc \in Seq(Byte) /\ Len(ambc) = 12 + 4
    BY <2>1, Zenon DEF Followed
  <2>3. \A i \in 1 .. 12 : ambc[i] = amb[i]
    BY <2>1, Zenon DEF Followed
  <2> QED BY <2>2, <2>3
<1>6. p \in Seq(Byte) /\ Len(p) = 20 /\ \A i \in 1 .. 16 : p[i] = ambc[i]
  <2>1. Followed(p, ambc, z, 16)
    BY <1>1, <1>2, <1>5, NextFour, Zenon
  <2>2. p \in Seq(Byte) /\ Len(p) = 16 + 4
    BY <2>1, Zenon DEF Followed
  <2>3. \A i \in 1 .. 16 : p[i] = ambc[i]
    BY <2>1, Zenon DEF Followed
  <2>4. 16 + 4 = 20
    OBVIOUS
  <2> QED BY <2>2, <2>3, <2>4, Zenon
<1>7. \A i \in {5, 6, 9, 10, 11, 12} : p[i] = amb[i]
  <2>1. \A i \in {5, 6, 9, 10, 11, 12} : i \in 1 .. 12 /\ i \in 1 .. 16
    OBVIOUS
  <2> QED BY <1>5, <1>6, <2>1, Zenon
<1>8. /\ p \in Seq(Byte) /\ Len(p) = 20 /\ p[5] = m[1] /\ p[6] = m[2]
      /\ p[9] = b[1] /\ p[10] = b[2] /\ p[11] = b[3] /\ p[12] = b[4]
  <2>1. /\ p[5] = amb[5] /\ p[6] = amb[6]
        /\ p[9] = amb[9] /\ p[10] = amb[10] /\ p[11] = amb[11] /\ p[12] = amb[12]
    BY <1>7
  <2> QED BY <1>4, <1>6, <2>1
<1> QED BY <1>8 DEF LinkBytes

LEMMA LinkFrameSets ==
  ASSUME NEW baud, FitsLong(baud)
  PROVE  Sets(CfgPrtUart1(baud), LinkSetting(baud))
<1> DEFINE a == <<1, 0, 0, 0>>
           m == LittleEndian32(Mode)
           b == LittleEndian32(baud)
           c == <<3, 0, 3, 0>>
           z == Zeros(4)
           p == (((a \o m) \o b) \o c) \o z
           f == Frame(6, 0, p)
<1>1. 6 \in Byte /\ 0 \in Byte /\ 1 \in Byte /\ 3 \in Byte
  BY DEF Byte
<1>2. CfgPrtUart1(baud) = f
  BY Zenon DEF CfgPrtUart1, Mode
<1>3. a \in Seq(Byte) /\ Len(a) = 4 /\ c \in Seq(Byte) /\ Len(c) = 4
  BY <1>1
<1>4. m \in Seq(Byte) /\ Len(m) = 4 /\ m[1] + 256 * m[2] = Mode
  BY ModeBytes, Zenon
<1>5. /\ b \in Seq(Byte) /\ Len(b) = 4
      /\ FromWords(b[1] + 256 * b[2], b[3] + 256 * b[4]) = baud
  BY LongBytes, Zenon
<1>6. z \in Seq(Byte) /\ Len(z) = 4
  BY ZerosAreBytes
<1> HIDE DEF a, m, b, c, z
<1>7. /\ p \in Seq(Byte) /\ Len(p) = 20 /\ p[5] = m[1] /\ p[6] = m[2]
      /\ p[9] = b[1] /\ p[10] = b[2] /\ p[11] = b[3] /\ p[12] = b[4]
  <2>1. a \in Seq(Byte) /\ m \in Seq(Byte) /\ b \in Seq(Byte) /\ c \in Seq(Byte) /\ z \in Seq(Byte)
    BY <1>3, <1>4, <1>5, <1>6
  <2>2. Len(a) = 4 /\ Len(m) = 4 /\ Len(b) = 4 /\ Len(c) = 4 /\ Len(z) = 4
    BY <1>3, <1>4, <1>5, <1>6
  <2>3. p = (((a \o m) \o b) \o c) \o z
    OBVIOUS
  <2> HIDE DEF p
  <2>4. LinkBytes(p, m, b)
    BY <2>1, <2>2, <2>3, LinkPayload, Zenon
  <2> QED BY <2>4 DEF LinkBytes
<1> HIDE DEF p
<1>8. /\ f = Framed(Body(6, 0, p)) /\ Carries(Body(6, 0, p)) /\ f[4] = 0
      /\ \A i \in 1 .. 20 : f[6 + i] = p[i]
  <2>1. Fits(p)
    BY <1>7 DEF Fits
  <2>2. Built(6, 0, p)
    BY <1>1, <2>1, BuiltFrame, Zenon
  <2> QED BY <1>7, <2>2 DEF Built
<1> HIDE DEF f
<1>9. /\ f[11] = m[1] /\ f[12] = m[2]
      /\ f[15] = b[1] /\ f[16] = b[2] /\ f[17] = b[3] /\ f[18] = b[4]
  <2>1. \A i \in {5, 6, 9, 10, 11, 12} : f[6 + i] = p[i]
    BY <1>8
  <2> QED BY <1>7, <2>1
<1>10. Word(f, 5) = Mode
  <2>1. 6 + 5 = 11 /\ 7 + 5 = 12
    OBVIOUS
  <2>2. Word(f, 5) = f[11] + 256 * f[12]
    BY <2>1, SMT DEF Word
  <2> QED BY <1>4, <1>9, <2>2
<1>11. FromWords(Word(f, 9), Word(f, 11)) = baud
  <2>1. 6 + 9 = 15 /\ 7 + 9 = 16 /\ 6 + 11 = 17 /\ 7 + 11 = 18
    OBVIOUS
  <2>2. Word(f, 9) = f[15] + 256 * f[16] /\ Word(f, 11) = f[17] + 256 * f[18]
    BY <2>1, SMT DEF Word
  <2> QED BY <1>5, <1>9, <2>2
<1>12. Setting(f) = [baud |-> FromWords(Word(f, 9), Word(f, 11)), mode |-> Word(f, 5)]
  BY <1>8, SMT DEF Setting, FromWords
<1>13. Setting(f) = LinkSetting(baud)
  BY <1>10, <1>11, <1>12, Zenon DEF LinkSetting
<1> QED BY <1>2, <1>8, <1>13, Zenon DEF Sets

\* Every frame the driver sends is built whole, and sets what it is to set.
LEMMA MessageSets ==
  ASSUME NEW msg \in Messages
  PROVE  Sets(msg.frame, msg.setting)
<1>1. /\ SentenceIds \subseteq Byte /\ SentenceRates \subseteq Byte /\ Models \subseteq Byte
      /\ FixRates \subseteq Nat \ {0} /\ \A baud \in Bauds : FitsLong(baud)
  BY MessageAssumption, SMT DEF FitsLong
<1>2. \A id \in SentenceIds : \A rate \in SentenceRates :
        Sets(CfgMsg(id, rate), [sentence |-> id, rate |-> rate])
  BY <1>1, SentenceFrameSets
<1>3. \A baud \in Bauds : Sets(CfgPrtUart1(baud), LinkSetting(baud))
  BY <1>1, LinkFrameSets
<1>4. \A hertz \in FixRates : Sets(CfgRateHz(hertz), [period |-> Period(hertz)])
  BY <1>1, RateFrameSets
<1>5. \A m \in Models : Sets(CfgNav5DynamicModel(m), [model |-> m, applied |-> 1])
  BY <1>1, ModelFrameSets
<1> QED BY <1>2, <1>3, <1>4, <1>5, ResetFrameSets, SMT DEF Messages, Period, LinkSetting, Mode

LEMMA ConfigureStep ==
  ASSUME Configure
  PROVE  /\ given'.damaged = FALSE
         /\ shown' = [accepted |-> TRUE, setting |-> given'.msg.setting]
<1>1. PICK msg \in Messages :
        Once("frame", [msg |-> msg, damaged |-> FALSE],
             [accepted |-> ValidFrame(msg.frame),
              setting |-> IF ValidFrame(msg.frame) THEN Setting(msg.frame) ELSE Nothing])
  BY DEF Configure
<1>2. ValidFrame(msg.frame) /\ Setting(msg.frame) = msg.setting
  BY MessageSets, WholeFrameIsValid DEF Sets
<1>3. given' = [msg |-> msg, damaged |-> FALSE]
      /\ shown' = [accepted |-> ValidFrame(msg.frame), setting |-> Setting(msg.frame)]
  BY <1>1, <1>2, Zenon DEF Once, Show
<1>4. ValidFrame(msg.frame) = TRUE
  BY <1>2 DEF ValidFrame
<1>5. given'.damaged = FALSE /\ given'.msg = msg
  BY <1>3
<1> QED BY <1>2, <1>3, <1>4, <1>5

LEMMA DamageStep ==
  ASSUME Damage
  PROVE  given'.damaged = TRUE /\ ~ shown'.accepted
<1>1. PICK msg \in Messages : \E i \in DOMAIN msg.frame : \E b \in WrongBytes \ {msg.frame[i]} :
        Once("frame", [msg |-> msg, damaged |-> TRUE],
             [accepted |-> ValidFrame([msg.frame EXCEPT ![i] = b]), setting |-> Nothing])
  BY DEF Damage
<1>2. PICK i \in DOMAIN msg.frame : \E b \in WrongBytes \ {msg.frame[i]} :
        Once("frame", [msg |-> msg, damaged |-> TRUE],
             [accepted |-> ValidFrame([msg.frame EXCEPT ![i] = b]), setting |-> Nothing])
  BY <1>1
<1>2a. PICK b \in WrongBytes \ {msg.frame[i]} :
        Once("frame", [msg |-> msg, damaged |-> TRUE],
             [accepted |-> ValidFrame([msg.frame EXCEPT ![i] = b]), setting |-> Nothing])
  BY <1>2
<1>3. PICK body : Carries(body) /\ msg.frame = Framed(body)
  BY MessageSets DEF Sets
<1>4. b \in Byte /\ b # Framed(body)[i] /\ i \in DOMAIN Framed(body)
  BY <1>2a, <1>3, MessageAssumption
<1>5. ~ ValidFrame([msg.frame EXCEPT ![i] = b])
  BY <1>3, <1>4, DamagedFrameIsNot, Zenon
<1>6. /\ given' = [msg |-> msg, damaged |-> TRUE]
      /\ shown' = [accepted |-> ValidFrame([msg.frame EXCEPT ![i] = b]), setting |-> Nothing]
  BY <1>2a, Zenon DEF Once, Show
<1>7. shown'.accepted = ValidFrame([msg.frame EXCEPT ![i] = b])
  BY <1>6, Zenon
<1>8. given'.damaged = TRUE
  BY <1>6
<1> QED BY <1>5, <1>7, <1>8

\* A configuration frame with any one byte wrong is refused, and one that arrives whole
\* is accepted and sets what it was built to set, for every argument of the builders
\* (buildFrame, validateFrame, buildCfg*).
THEOREM FramesHeard == Spec => []FramesHeardAsSent
<1>1. Init => FramesHeardAsSent
  BY DEF Init, FramesHeardAsSent
<1>2. FramesHeardAsSent /\ [Next]_vars => FramesHeardAsSent'
  <2> SUFFICES ASSUME FramesHeardAsSent, [Next]_vars
               PROVE  FramesHeardAsSent'
    OBVIOUS
  <2>1. CASE Next
    <3>1. kind' = "frame" => Configure \/ Damage
      BY <2>1, KindOfStep
    <3>2. CASE kind' # "frame"
      BY <3>2, Zenon DEF FramesHeardAsSent
    <3>3. CASE Configure
      BY <3>3, ConfigureStep, Zenon DEF FramesHeardAsSent
    <3>4. CASE Damage
      BY <3>4, DamageStep, Zenon DEF FramesHeardAsSent
    <3> QED BY <3>1, <3>2, <3>3, <3>4
  <2>2. CASE UNCHANGED vars
    BY <2>2 DEF vars, FramesHeardAsSent
  <2> QED BY <2>1, <2>2
<1> QED BY <1>1, <1>2, PTL DEF Spec
=============================================================================
