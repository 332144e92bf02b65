----------------------------- MODULE ScalarProofs -----------------------------
(***************************************************************************)
(* The scalar analysis is sound for words of every width: what the machine *)
(* writes is among the words that Evaluate's value stands for              *)
(* (EvaluateSound, of every instruction but loads), and at every bundle of *)
(* the walk through any kernel the operands are values it holds of         *)
(* (WalkSound).                                                            *)
(*                                                                         *)
(* Signed and unsigned numbers of a word differ by a multiple of Modulus,  *)
(* so that sums, differences and products of either leave the same word    *)
(* (Congruent); a span of numbers of one sign whose ends fit in a word     *)
(* keeps its order when it is wrapped (SpanSound).  An address adds one    *)
(* more unknown, where its base lies, to such a sum (MovedAddress).  And,  *)
(* or and exclusive or are sums over the bits of a word (WordIsItsBits):   *)
(* SetSums adds them up.                                                   *)
(*                                                                         *)
(* Of the walk, every call that waits or is walked knows a value of each   *)
(* register and word of memory, and 0 or 1 of each predicate (FrameIs);    *)
(* there is one lemma for each thing a turn makes of a frame, then one for *)
(* each action.                                                            *)
(***************************************************************************)
EXTENDS ControlFlow, SetSums

(* Division with remainder, and its uniqueness.                            *)
LEMMA Remainder ==
  ASSUME NEW M \in Nat \ {0}, NEW a \in Int
  PROVE  a % M \in 0..(M - 1) /\ a \div M \in Int /\ a = M * (a \div M) + (a % M)
  OBVIOUS

LEMMA PositiveQuotient ==
  ASSUME NEW M \in Nat \ {0}, NEW k \in Int, NEW r \in 0..(M - 1), k > 0
  PROVE  M * k + r > M - 1
  OBVIOUS

LEMMA NegativeQuotient ==
  ASSUME NEW M \in Nat \ {0}, NEW k \in Int, NEW r \in 0..(M - 1), k < 0
  PROVE  M * k + r < 0
  OBVIOUS

LEMMA UniqueRemainder ==
  ASSUME NEW M \in Nat \ {0}, NEW k \in Int, NEW q \in Int,
         NEW r \in 0..(M - 1), NEW s \in 0..(M - 1), M * k + r = M * q + s
  PROVE  r = s
<1>1. M * (k - q) + r = s
  OBVIOUS
<1>2. k - q = 0
  BY <1>1, PositiveQuotient, NegativeQuotient
<1> QED BY <1>2

LEMMA Distributive ==
  ASSUME NEW M \in Nat \ {0}, NEW k \in Int, NEW q \in Int
  PROVE  M * (q + k) = M * q + M * k
  OBVIOUS

(* Multiples of the modulus don't matter.                                  *)
LEMMA Congruent ==
  ASSUME NEW M \in Nat \ {0}, NEW a \in Int, NEW b \in Int, NEW k \in Int, b = a + M * k
  PROVE  b % M = a % M
<1> DEFINE q == a \div M
           p == b \div M
           r == a % M
           s == b % M
<1>1. r \in 0..(M - 1) /\ q \in Int /\ a = M * q + r
  BY Remainder
<1>2. s \in 0..(M - 1) /\ p \in Int /\ b = M * p + s
  BY Remainder
<1> HIDE DEF q, p, r, s
<1>3. M * p + s = M * (q + k) + r
  <2>1. b = M * q + r + M * k
    BY <1>1
  <2>2. M * k \in Int /\ M * q \in Int
    BY <1>1
  <2>3. M * (q + k) = M * q + M * k
    BY <1>1, Distributive
  <2>4. b = M * p + s
    BY <1>2
  <2> DEFINE x == M * k  y == M * q  z == M * (q + k)  t == M * p
  <2>5. b = y + r + x /\ z = y + x /\ b = t + s /\ x \in Int /\ y \in Int /\ r \in Int /\ s \in Int
    BY <2>1, <2>2, <2>3, <2>4, <1>1, <1>2
  <2> HIDE DEF x, y, z, t
  <2>6. t + s = z + r
    BY <2>5
  <2> QED BY <2>6 DEF t, z
<1> DEFINE u == q + k
<1>4. u \in Int /\ M * p + s = M * u + r
  BY <1>1, <1>3
<1> HIDE DEF u
<1>5. s = r
  BY <1>1, <1>2, <1>4, UniqueRemainder
<1> QED BY <1>5 DEF r, s

----------------------------------------------------------------------------
LEMMA Sizes ==
  SignBit \in Nat \ {0} /\ Modulus \in Nat \ {0} /\ Modulus = 2 * SignBit
<1>1. WordBits - 1 \in 0..(WordBits - 1)
  BY WordAssumption
<1>2. 2^(WordBits - 1) \in 1..SignBit
  BY <1>1, PowerAssumption
<1>3. SignBit \in Nat \ {0}
  BY <1>2 DEF SignBit
<1>4. (WordBits - 1) + 1 = WordBits
  BY WordAssumption
<1>5. Modulus = 2 * SignBit
  BY <1>1, <1>4, PowerAssumption DEF Modulus, SignBit
<1> QED BY <1>3, <1>5

LEMMA SameWord ==
  ASSUME NEW a \in Int, NEW b \in Int, NEW k \in Int, b = a + Modulus * k
  PROVE  b % Modulus = a % Modulus
  BY Sizes, Congruent

(* The word of a number between -Modulus and 2 * Modulus.                  *)
LEMMA Wrapping ==
  ASSUME NEW n \in Int
  PROVE  /\ n % Modulus \in Word
         /\ n \in Word => n % Modulus = n
         /\ -Modulus <= n /\ n < 0 => n % Modulus = n + Modulus
  BY Sizes DEF Word

(* The numbers an interval of words holds.                                 *)
IsInterval(v) == IsNumeric(v) /\ v.lo \in Word /\ v.hi \in Word /\ v.lo <= v.hi

LEMMA IntervalWords ==
  ASSUME NEW lo \in Int, NEW hi \in Int, NEW place
  PROVE  Words(Interval(lo, hi), place) = lo..hi
  BY DEF Words, Interval, Const, Value, IsNumeric, IsAddress

LEMMA UnknownWords == ASSUME NEW place PROVE Words(Unknown, place) = Word
  BY DEF Words, Unknown, Value, IsNumeric, IsAddress

(* A word and its number agree modulo the size of a word.                  *)
LEMMA NumberOf ==
  ASSUME NEW signed \in BOOLEAN, NEW n \in Word
  PROVE  /\ Number(signed, n) \in Int
         /\ -SignBit <= Number(signed, n) /\ Number(signed, n) < Modulus
         /\ signed => Number(signed, n) < SignBit
         /\ ~signed => Number(signed, n) = n
         /\ Number(signed, n) = n \/ Number(signed, n) = n - Modulus
         /\ Number(signed, n) >= 0 => Number(signed, n) = n
  BY Sizes DEF Number, Word

(* Order is kept in an interval that isn't across the sign bit.            *)
LEMMA NumberInOrder ==
  ASSUME NEW signed \in BOOLEAN, NEW v, IsInterval(v), signed => ~AcrossSign(v),
         NEW n \in v.lo..v.hi
  PROVE  /\ n \in Word
         /\ Number(signed, v.lo) <= Number(signed, n)
         /\ Number(signed, n) <= Number(signed, v.hi)
  BY Sizes DEF Number, IsInterval, AcrossSign, Word

(* The word of a number that lies in a span is in the span's interval.     *)
LEMMA SpanSound ==
  ASSUME NEW signed \in BOOLEAN, NEW lo \in Int, NEW hi \in Int, NEW n \in lo..hi, NEW place
  PROVE  n % Modulus \in Words(Spanning(signed, lo, hi), place)
<1>1. CASE Spanning(signed, lo, hi) = Unknown
  BY <1>1, Wrapping, UnknownWords
<1>2. CASE Spanning(signed, lo, hi) # Unknown
  <2>1. /\ Spanning(signed, lo, hi) = Interval(Wrap(lo), Wrap(hi))
        /\ -SignBit <= lo /\ hi < Modulus /\ ~(lo < 0 /\ hi >= 0)
    BY <1>2, Sizes DEF Spanning
  <2>2. CASE lo >= 0
    <3>1. lo \in Word /\ hi \in Word /\ n \in Word
      BY <2>1, <2>2, Sizes DEF Word
    <3> QED BY <2>1, <3>1, Wrapping, IntervalWords DEF Wrap
  <2>3. CASE hi < 0
    <3>1. /\ lo % Modulus = lo + Modulus /\ hi % Modulus = hi + Modulus
          /\ n % Modulus = n + Modulus
      BY <2>1, <2>3, Sizes, Wrapping
    <3> QED BY <2>1, <3>1, Sizes, IntervalWords DEF Wrap
  <2> QED BY <2>1, <2>2, <2>3
<1> QED BY <1>1, <1>2

----------------------------------------------------------------------------
(* The word of a number is the word.                                       *)
LEMMA WordOfNumber ==
  ASSUME NEW signed \in BOOLEAN, NEW m \in Word, NEW n \in Word
  PROVE  LET a == Number(signed, m)   b == Number(signed, n)
         IN  /\ (a + b) % Modulus = (m + n) % Modulus
             /\ (a - b) % Modulus = (m - n) % Modulus
<1> DEFINE a == Number(signed, m)
           b == Number(signed, n)
<1>1. m \in Int /\ n \in Int /\ a \in Int /\ b \in Int
  BY NumberOf, Sizes DEF Word
<1>2. PICK j \in {0, 1}, k \in {0, 1} : a = m - Modulus * j /\ b = n - Modulus * k
  BY NumberOf, Sizes, <1>1
<1> HIDE DEF a, b
<1>3. m + n = (a + b) + Modulus * (j + k) /\ m - n = (a - b) + Modulus * (j - k)
  BY <1>1, <1>2, Sizes
<1>4. /\ m + n \in Int /\ a + b \in Int /\ j + k \in Int
      /\ m - n \in Int /\ a - b \in Int /\ j - k \in Int
  BY <1>1
<1>5. /\ (m + n) % Modulus = (a + b) % Modulus
      /\ (m - n) % Modulus = (a - b) % Modulus
  <2> DEFINE c == m + n   e == a + b   f == j + k
             g == m - n   h == a - b   l == j - k
  <2>1. c = e + Modulus * f /\ g = h + Modulus * l
    BY <1>3
  <2>2. c \in Int /\ e \in Int /\ f \in Int /\ g \in Int /\ h \in Int /\ l \in Int
    BY <1>4
  <2> HIDE DEF c, e, f, g, h, l
  <2>3. c % Modulus = e % Modulus /\ g % Modulus = h % Modulus
    BY <2>1, <2>2, SameWord
  <2> QED BY <2>3 DEF c, e, g, h
<1> QED BY <1>5 DEF a, b

(* Shifts multiply or divide by a power of two.                            *)
LEMMA ShiftedLeft ==
  ASSUME NEW signed \in BOOLEAN, NEW m \in Word, NEW d \in Nat
  PROVE  (Number(signed, m) * d) % Modulus = (m * d) % Modulus
<1> DEFINE a == Number(signed, m)
<1>1. m \in Int /\ a \in Int
  BY NumberOf, Sizes DEF Word
<1>2. CASE a = m
  BY <1>2
<1>3. CASE a = m - Modulus
  <2>1. m * d = a * d + Modulus * d
    BY <1>1, <1>3, Sizes
  <2>2. m * d \in Int /\ a * d \in Int
    BY <1>1
  <2> DEFINE c == m * d   e == a * d
  <2>3. c = e + Modulus * d /\ c \in Int /\ e \in Int
    BY <2>1, <2>2
  <2> HIDE DEF c, e
  <2>4. c % Modulus = e % Modulus
    BY <2>3, SameWord
  <2> QED BY <2>4 DEF c, e
<1> QED BY <1>2, <1>3, NumberOf

LEMMA ProductInOrder ==
  ASSUME NEW d \in Nat, NEW a \in Int, NEW b \in Int, a <= b
  PROVE  a * d \in Int /\ a * d <= b * d
  OBVIOUS

LEMMA QuotientInOrder ==
  ASSUME NEW d \in Nat \ {0}, NEW a \in Int, NEW b \in Int, a <= b
  PROVE  a \div d \in Int /\ a \div d <= b \div d
  OBVIOUS

----------------------------------------------------------------------------
(* A comparison of spans that is known is that of each of their numbers.   *)
LEMMA OrdersSound ==
  ASSUME NEW rel \in Relations,
         NEW lo \in Int, NEW hi \in Int, NEW blo \in Int, NEW bhi \in Int,
         NEW a \in lo..hi, NEW b \in blo..bhi, NEW place
  PROVE  (IF Holds(rel, a, b) THEN 1 ELSE 0) \in Words(Compare(rel, lo, hi, blo, bhi), place)
<1>1. Words(Const(0), place) = 0..0 /\ Words(Const(1), place) = 1..1
  BY DEF Words, Const, Value, IsNumeric, IsAddress
<1>2. 0 \in Word /\ 1 \in Word
  BY Sizes DEF Word
<1>3. CASE Compare(rel, lo, hi, blo, bhi) = Unknown
  BY <1>2, <1>3, UnknownWords
<1>4. CASE Compare(rel, lo, hi, blo, bhi) # Unknown
  <2>1. CASE Holds(rel, a, b)
    <3>1. Compare(rel, lo, hi, blo, bhi) = Const(1)
      BY <1>4, <2>1 DEF Compare, Holds, Relations
    <3> QED BY <1>1, <2>1, <3>1
  <2>2. CASE ~Holds(rel, a, b)
    <3>1. Compare(rel, lo, hi, blo, bhi) = Const(0)
      BY <1>4, <2>2 DEF Compare, Holds, Relations
    <3> QED BY <1>1, <2>2, <3>1
  <2> QED BY <2>1, <2>2
<1> QED BY <1>3, <1>4

(* What the machine computes on two words that lie in two spans.           *)
LEMMA SumSound ==
  ASSUME NEW signed \in BOOLEAN, NEW m \in Word, NEW n \in Word,
         NEW lo \in Int, NEW hi \in Int, NEW blo \in Int, NEW bhi \in Int, NEW place,
         Number(signed, m) \in lo..hi, Number(signed, n) \in blo..bhi
  PROVE  /\ (m + n) % Modulus \in Words(Spanning(signed, lo + blo, hi + bhi), place)
         /\ (m - n) % Modulus \in Words(Spanning(signed, lo - bhi, hi - blo), place)
<1> DEFINE a == Number(signed, m)
           b == Number(signed, n)
<1>1. (m + n) % Modulus = (a + b) % Modulus /\ (m - n) % Modulus = (a - b) % Modulus
  BY WordOfNumber
<1>2. a \in lo..hi /\ b \in blo..bhi
  OBVIOUS
<1> HIDE DEF a, b
<1>3. /\ a + b \in (lo + blo)..(hi + bhi) /\ lo + blo \in Int /\ hi + bhi \in Int
      /\ a - b \in (lo - bhi)..(hi - blo) /\ lo - bhi \in Int /\ hi - blo \in Int
  BY <1>2
<1> QED BY <1>1, <1>3, SpanSound

LEMMA ShiftSound ==
  ASSUME NEW signed \in BOOLEAN, NEW m \in Word, NEW d \in Nat \ {0},
         NEW lo \in Int, NEW hi \in Int, NEW place, Number(signed, m) \in lo..hi
  PROVE  /\ (m * d) % Modulus \in Words(Spanning(signed, lo * d, hi * d), place)
         /\ (Number(signed, m) \div d) % Modulus
              \in Words(Spanning(signed, lo \div d, hi \div d), place)
<1> DEFINE a == Number(signed, m)
<1>1. (m * d) % Modulus = (a * d) % Modulus
  BY ShiftedLeft
<1>2. a \in Int /\ lo <= a /\ a <= hi
  BY NumberOf
<1> HIDE DEF a
<1>3. /\ lo * d \in Int /\ hi * d \in Int /\ a * d \in Int
      /\ lo * d <= a * d /\ a * d <= hi * d
  BY <1>2, ProductInOrder
<1>4. /\ lo \div d \in Int /\ hi \div d \in Int /\ a \div d \in Int
      /\ lo \div d <= a \div d /\ a \div d <= hi \div d
  BY <1>2, QuotientInOrder
<1> DEFINE p == lo * d   q == a * d   r == hi * d
           s == lo \div d   t == a \div d   u == hi \div d
<1>5. q \in p..r /\ p \in Int /\ r \in Int /\ t \in s..u /\ s \in Int /\ u \in Int
  BY <1>3, <1>4
<1> HIDE DEF p, q, r, s, t, u
<1>6. q % Modulus \in Words(Spanning(signed, p, r), place)
  BY <1>5, SpanSound
<1>7. t % Modulus \in Words(Spanning(signed, s, u), place)
  BY <1>5, SpanSound
<1> QED BY <1>1, <1>6, <1>7 DEF p, q, r, s, t, u, a

LEMMA SignedNumber == ASSUME NEW n \in Word PROVE Signed(n) = Number(TRUE, n)
<1>1. n \in Int /\ Wrap(n) = n
  BY Sizes, Wrapping DEF Wrap, Word
<1> QED BY <1>1 DEF Signed, Number

LEMMA QuotientOfWord ==
  ASSUME NEW m \in Word, NEW d \in Nat \ {0}
  PROVE  m \div d \in Word
<1>1. m \in Nat /\ m < Modulus
  BY Sizes DEF Word
<1>2. 0 \div d = 0
  OBVIOUS
<1>3. m \div d \in Int /\ 0 <= m \div d
  BY <1>1, <1>2, QuotientInOrder
<1>4. m \div d <= m
  BY <1>1
<1> QED BY <1>1, <1>3, <1>4, Sizes DEF Word

(* The machine writes a word.                                             *)
LEMMA MachineWords ==
  ASSUME NEW i, i.op \in RangeOps, NEW m \in Word, NEW n \in Word
  PROVE  Machine(i, <<m, n>>) \subseteq Word
<1> DEFINE s(k) == IF i.sign = "s32" THEN Signed(k) ELSE k
<1>1. s(m) \in Int /\ m \in Int /\ n \in Nat
  <2>1. m \in Int /\ n \in Nat
    BY Sizes DEF Word
  <2>2. Signed(m) \in Int
    BY SignedNumber, NumberOf
  <2> QED BY <2>1, <2>2
<1>2. CASE i.op \in {"sadd", "ssub"}
  BY <1>1, <1>2, Wrapping DEF Machine, Casts
<1>3. CASE i.op = "scmp"
  <2>1. 0 \in Word /\ 1 \in Word
    BY Sizes DEF Word
  <2> QED BY <1>3, <2>1 DEF Machine, Casts
<1>4. CASE i.op \in {"sshll", "sshrl", "sshra"} /\ n \notin 0..(WordBits - 1)
  BY <1>1, <1>4, WordAssumption DEF Machine, Casts
<1>5. CASE i.op \in {"sshll", "sshrl", "sshra"} /\ n \in 0..(WordBits - 1)
  <2> DEFINE d == 2^n
  <2>1. d \in Nat \ {0}
    BY <1>5, PowerAssumption, Sizes
  <2> HIDE DEF d
  <2>2. (m * d) % Modulus \in Word /\ m \div d \in Word /\ (s(m) \div d) % Modulus \in Word
    BY <1>1, <2>1, QuotientOfWord, Wrapping, ProductInOrder, QuotientInOrder
  <2>3. n < WordBits
    BY <1>5, WordAssumption
  <2> QED BY <1>5, <2>2, <2>3 DEF Machine, Casts, d
<1> QED BY <1>2, <1>3, <1>4, <1>5 DEF RangeOps

(* Sums, differences, comparisons and shifts of intervals, signed or not:
   whatever words the machine reads, the word it writes is one of those of
   the analysis' interval.  (_evaluate's ranges, for words of every width)  *)
THEOREM ArithmeticSound ==
  ASSUME NEW i, i.op \in RangeOps,
         i.op = "scmp" => i.rel \in Relations,
         NEW x, NEW y, IsInterval(x), IsInterval(y),
         NEW m \in x.lo..x.hi, NEW n \in y.lo..y.hi, NEW place
  PROVE  Machine(i, <<m, n>>) \subseteq Words(Arithmetic(i, x, y), place)
<1> DEFINE signed == IsSigned(i)
           lo == Number(signed, x.lo)   hi == Number(signed, x.hi)
           blo == Number(signed, y.lo)  bhi == Number(signed, y.hi)
           a == Number(signed, m)       b == Number(signed, n)
           across == signed /\ (AcrossSign(x) \/ AcrossSign(y))
<1>1. signed \in BOOLEAN /\ m \in Word /\ n \in Word
  BY Sizes DEF IsSigned, IsInterval, Word
<1>2. CASE Arithmetic(i, x, y) = Unknown
  BY <1>1, <1>2, MachineWords, UnknownWords
<1>3. CASE Arithmetic(i, x, y) # Unknown
  <2>1. ~across
    BY <1>3 DEF Arithmetic
  <2>2. lo \in Int /\ hi \in Int /\ blo \in Int /\ bhi \in Int /\ a \in Int /\ b \in Int
    BY <1>1, NumberOf DEF IsInterval
  <2>3. lo <= a /\ a <= hi
    BY <1>1, <2>1, NumberInOrder
  <2>4. blo <= b /\ b <= bhi
    BY <1>1, <2>1, NumberInOrder
  <2>5. a \in lo..hi /\ b \in blo..bhi
    <3> HIDE DEF a, b, lo, hi, blo, bhi
    <3> QED BY <2>2, <2>3, <2>4
  <2>6. CASE i.op = "sadd"
    <3>1. Arithmetic(i, x, y) = Spanning(signed, lo + blo, hi + bhi)
      BY <2>1, <2>6 DEF Arithmetic
    <3>2. Machine(i, <<m, n>>) = {(m + n) % Modulus}
      BY <2>6 DEF Machine, Casts
    <3>3. (m + n) % Modulus \in Words(Spanning(signed, lo + blo, hi + bhi), place)
      BY <1>1, <2>2, <2>5, SumSound
    <3> QED BY <3>1, <3>2, <3>3
  <2>7. CASE i.op = "ssub"
    <3>1. Arithmetic(i, x, y) = Spanning(signed, lo - bhi, hi - blo)
      BY <2>1, <2>7 DEF Arithmetic
    <3>2. Machine(i, <<m, n>>) = {(m - n) % Modulus}
      BY <2>7 DEF Machine, Casts
    <3>3. (m - n) % Modulus \in Words(Spanning(signed, lo - bhi, hi - blo), place)
      BY <1>1, <2>2, <2>5, SumSound
    <3> QED BY <3>1, <3>2, <3>3
  <2>8. CASE i.op = "scmp"
    <3>1. Arithmetic(i, x, y) = Compare(i.rel, lo, hi, blo, bhi)
      BY <2>1, <2>8 DEF Arithmetic
    <3>2. CASE i.sign = "s32"
      <4>1. a = Signed(m) /\ b = Signed(n)
        BY <1>1, <2>8, <3>2, SignedNumber DEF IsSigned
      <4>2. Machine(i, <<m, n>>) = {IF Holds(i.rel, a, b) THEN 1 ELSE 0}
        BY <2>8, <3>2, <4>1 DEF Machine, Casts
      <4> QED BY <2>2, <2>5, <2>8, <3>1, <4>2, OrdersSound
    <3>3. CASE i.sign # "s32"
      <4>1. a = m /\ b = n
        BY <3>3 DEF IsSigned, Number
      <4>2. Machine(i, <<m, n>>) = {IF Holds(i.rel, a, b) THEN 1 ELSE 0}
        BY <2>8, <3>3, <4>1 DEF Machine, Casts
      <4> QED BY <2>2, <2>5, <2>8, <3>1, <4>2, OrdersSound
    <3> QED BY <3>2, <3>3
  <2>9. CASE i.op \in {"sshll", "sshrl", "sshra"}
    <3> DEFINE d == 2^blo
    <3>1. blo = bhi /\ blo \in 0..(WordBits - 1)
      BY <1>3, <2>1, <2>9 DEF Arithmetic
    <3>2. b = blo
      <4> HIDE DEF b, blo, bhi
      <4> QED BY <2>2, <2>4, <3>1
    <3>3. b = n
      <4>1. b >= 0
        <5> HIDE DEF b, blo
        <5> QED BY <3>1, <3>2
      <4> QED BY <1>1, <4>1, NumberOf
    <3>4. n < WordBits /\ d = 2^n
      BY <3>1, <3>2, <3>3, WordAssumption
    <3>5. d \in Nat \ {0}
      BY <3>1, PowerAssumption, Sizes
    <3>6. CASE i.op = "sshll"
      <4>1. Arithmetic(i, x, y) = Spanning(signed, lo * d, hi * d)
        BY <1>3, <2>1, <3>6 DEF Arithmetic
      <4>2. Machine(i, <<m, n>>) = {(m * d) % Modulus}
        BY <3>4, <3>6 DEF Machine, Casts
      <4> QED BY <1>1, <2>2, <2>5, <3>5, <4>1, <4>2, ShiftSound
    <3>7. CASE i.op \in {"sshrl", "sshra"}
      <4>1. Arithmetic(i, x, y) = Spanning(signed, lo \div d, hi \div d)
        BY <1>3, <2>1, <3>7 DEF Arithmetic
      <4>2. Machine(i, <<m, n>>) = {(a \div d) % Modulus}
        <5>1. CASE i.op = "sshrl"
          <6>1. a = m
            BY <5>1 DEF IsSigned, Number
          <6>2. (m \div d) % Modulus = m \div d
            <7> HIDE DEF d
            <7>1. m \div d \in Word
              BY <1>1, <3>5, QuotientOfWord
            <7>2. m \div d \in Int
              BY <7>1, Sizes DEF Word
            <7> QED BY <7>1, <7>2, Wrapping
          <6> QED BY <3>4, <5>1, <6>1, <6>2 DEF Machine, Casts
        <5>2. CASE i.op = "sshra" /\ i.sign = "s32"
          <6>1. a = Signed(m)
            BY <1>1, <5>2, SignedNumber DEF IsSigned
          <6> QED BY <3>4, <5>2, <6>1 DEF Machine, Casts
        <5>3. CASE i.op = "sshra" /\ i.sign # "s32"
          <6>1. a = m
            BY <5>3 DEF IsSigned, Number
          <6> QED BY <3>4, <5>3, <6>1 DEF Machine, Casts
        <5> QED BY <3>7, <5>1, <5>2, <5>3
      <4>3. (a \div d) % Modulus \in Words(Spanning(signed, lo \div d, hi \div d), place)
        <5> HIDE DEF d, lo, hi, signed
        <5> QED BY <1>1, <2>2, <2>5, <3>5, ShiftSound
      <4> QED BY <4>1, <4>2, <4>3
    <3> QED BY <2>9, <3>6, <3>7
  <2> QED BY <2>6, <2>7, <2>8, <2>9 DEF RangeOps
<1> QED BY <1>2, <1>3

----------------------------------------------------------------------------
(* Bits: a word is the sum of its bits.                                    *)
Positions == 0..(WordBits - 1)
Bit(n, k) == (n \div 2^k) % 2
BitsOf(n) == [k \in Positions |-> Bit(n, k) * 2^k]

LEMMA PositionFacts ==
  /\ IsFiniteSet(Positions)
  /\ \A k \in Positions : 2^k \in Nat \ {0} /\ 2^(k + 1) = 2 * 2^k /\ k \in Nat
  /\ \A k \in Positions : 2^(k + 1) \in Nat \ {0}
<1>1. IsFiniteSet(Positions)
  BY FS_Interval, WordAssumption DEF Positions
<1>2. \A k \in Positions : 2^k \in Nat \ {0} /\ 2^(k + 1) = 2 * 2^k /\ k \in Nat
  BY PowerAssumption, Sizes DEF Positions
<1>3. ASSUME NEW k \in Positions
      PROVE  2^(k + 1) \in Nat \ {0}
  <2> DEFINE p == 2^k
  <2>1. p \in Nat \ {0} /\ 2^(k + 1) = 2 * p
    BY <1>2
  <2> QED BY <2>1
<1> QED BY <1>1, <1>2, <1>3

(* What holds of the sum of no bits and, with a bit more, of the next sum
   holds of the sum of all.  F is the set of places it holds at.           *)
LEMMA PlaceInduction ==
  ASSUME NEW F, 0 \in F, \A k \in Positions : k \in F => k + 1 \in F
  PROVE  WordBits \in F
<1> DEFINE S == 0..WordBits
           Below(n) == {k \in S : k < n}
           G == {T \in SUBSET S : \A n \in S : T = Below(n) => n \in F}
<1>1. IsFiniteSet(S)
  BY FS_Interval, WordAssumption
<1>2. ASSUME NEW T \in SUBSET S, \A U \in SUBSET T : U # T => U \in G
      PROVE  T \in G
  <2> SUFFICES ASSUME NEW n \in S, T = Below(n) PROVE n \in F
    OBVIOUS
  <2>1. CASE n = 0
    BY <2>1
  <2>2. CASE n # 0
    <3>1. n - 1 \in S /\ n - 1 \in Positions /\ (n - 1) + 1 = n
      BY <2>2, WordAssumption DEF Positions
    <3>2. Below(n - 1) \in SUBSET T /\ Below(n - 1) # T
      <4>1. n - 1 \in T /\ n - 1 \notin Below(n - 1)
        BY <3>1
      <4>2. \A k \in Below(n - 1) : k \in Below(n)
        BY <3>1
      <4> QED BY <4>1, <4>2
    <3>3. n - 1 \in F
      BY <1>2, <3>1, <3>2
    <3> QED BY <3>1, <3>3
  <2> QED BY <2>1, <2>2
<1>3. Below(WordBits) \in G
  <2>1. Below(WordBits) \in SUBSET S
    OBVIOUS
  <2> HIDE DEF G, S, Below
  <2> QED BY <1>1, <1>2, <2>1, SubsetInduction
<1>4. WordBits \in S
  BY WordAssumption
<1> QED BY <1>3, <1>4

LEMMA NextTotal ==
  ASSUME NEW w, \A k \in Positions : w[k] \in Int, NEW n \in Positions
  PROVE  /\ Total(w, 0..n) = w[n] + Total(w, 0..(n - 1))
         /\ Total(w, 0..(n - 1)) \in Int
<1>1. /\ 0..n = (0..(n - 1)) \cup {n} /\ n \notin 0..(n - 1) /\ 0..n \subseteq Positions
  BY WordAssumption DEF Positions
<1>2. IsFiniteSet(0..(n - 1)) /\ 0..(n - 1) \subseteq Positions
  BY <1>1, PositionFacts, FS_Subset
<1> QED BY <1>1, <1>2, TotalAdd, TotalInt

(* Bits below a place, or none of them, make less than its power.           *)
LEMMA BitsBound ==
  ASSUME NEW w, \A k \in Positions : w[k] \in 0..2^k
  PROVE  Total(w, Positions) \in Word
<1> DEFINE F == {n \in 0..WordBits : Total(w, 0..(n - 1)) \in Int /\ 0 <= Total(w, 0..(n - 1))
                                     /\ Total(w, 0..(n - 1)) < 2^n}
<1>1. 0 \in F
  <2>1. 0..(0 - 1) = {}
    OBVIOUS
  <2>2. Total(w, 0..(0 - 1)) = 0 /\ 2^0 = 1
    BY <2>1, TotalEmpty, PowerAssumption
  <2> QED BY <2>2, WordAssumption
<1>2. ASSUME NEW n \in Positions, n \in F
      PROVE  n + 1 \in F
  <2> DEFINE p == 2^n
             q == 2^(n + 1)
             t == Total(w, 0..(n - 1))
             v == Total(w, 0..((n + 1) - 1))
  <2>1. p \in Nat \ {0} /\ q = 2 * p
    BY PositionFacts
  <2>2. w[n] \in 0..p /\ \A k \in Positions : w[k] \in Int
    BY PositionFacts
  <2>3. v = w[n] + t
    <3>1. (n + 1) - 1 = n
      BY PositionFacts
    <3> QED BY <2>2, <3>1, NextTotal
  <2>4. t \in Int /\ 0 <= t /\ t < p
    BY <1>2
  <2>5. n + 1 \in 0..WordBits
    BY WordAssumption DEF Positions
  <2>6. v \in Int /\ 0 <= v /\ v < q
    <3> HIDE DEF p, q, t, v
    <3> QED BY <2>1, <2>2, <2>3, <2>4
  <2> QED BY <2>5, <2>6
<1>3. WordBits \in F
  <2> HIDE DEF F
  <2> QED BY <1>1, <1>2, PlaceInduction
<1> QED BY <1>3, Sizes DEF Positions, Word, Modulus

LEMMA NextRemainder ==
  ASSUME NEW a \in Nat, NEW p \in Nat \ {0}
  PROVE  a % (2 * p) = ((a \div p) % 2) * p + (a % p)
<1> DEFINE q == a \div p
           r == a % p
           h == q \div 2
           b == q % 2
<1>1. r \in 0..(p - 1) /\ q \in Int /\ a = p * q + r
  BY Remainder
<1>2. b \in 0..1 /\ h \in Int /\ q = 2 * h + b
  <2> HIDE DEF q
  <2> QED BY <1>1
<1> DEFINE M == 2 * p
           s == b * p + r
<1>3. M \in Nat \ {0} /\ a % M \in 0..(M - 1) /\ a \div M \in Int /\ a = M * (a \div M) + (a % M)
  <2>1. M \in Nat \ {0}
    OBVIOUS
  <2> HIDE DEF M
  <2> QED BY <2>1, Remainder
<1> HIDE DEF q, r, h, b
<1>4. s \in 0..(M - 1) /\ b * p \in Int
  <2>1. b = 0 \/ b = 1
    BY <1>2
  <2> QED BY <1>1, <2>1
<1>5. a = M * h + s
  <2>1. p * q = M * h + b * p
    <3>1. p * (2 * h + b) = 2 * p * h + b * p
      BY <1>2
    <3> QED BY <1>2, <3>1
  <2> QED BY <1>1, <1>2, <1>4, <2>1
<1>6. s = a % M
  <2> HIDE DEF M, s
  <2> QED BY <1>2, <1>3, <1>4, <1>5, UniqueRemainder
<1> QED BY <1>6 DEF M, s, b, q, r

LEMMA BitRange ==
  ASSUME NEW n \in Word, NEW k \in Positions
  PROVE  Bit(n, k) \in 0..1 /\ BitsOf(n)[k] = IF Bit(n, k) = 1 THEN 2^k ELSE 0
<1> DEFINE p == 2^k
           q == n \div p
<1>1. p \in Nat \ {0} /\ n \in Nat
  BY PositionFacts, Sizes DEF Word
<1>2. q \in Int
  BY <1>1, Remainder
<1>3. q % 2 \in 0..1
  <2> HIDE DEF q
  <2> QED BY <1>2
<1>4. BitsOf(n)[k] = Bit(n, k) * p /\ Bit(n, k) = q % 2
  BY DEF BitsOf, Bit
<1> HIDE DEF q
<1>5. CASE q % 2 = 0
  <2>1. 0 * p = 0
    BY <1>1
  <2> QED BY <1>4, <1>5, <2>1
<1>6. CASE q % 2 = 1
  <2>1. 1 * p = p
    BY <1>1
  <2> QED BY <1>4, <1>6, <2>1
<1> QED BY <1>3, <1>4, <1>5, <1>6

LEMMA WordIsItsBits ==
  ASSUME NEW a \in Word
  PROVE  Total(BitsOf(a), Positions) = a
<1> DEFINE w == BitsOf(a)
           F == {n \in 0..WordBits : Total(w, 0..(n - 1)) = a % 2^n}
<1>0. a \in Nat
  BY Sizes DEF Word
<1>1. 0 \in F
  <2>1. 0..(0 - 1) = {}
    OBVIOUS
  <2>2. Total(w, 0..(0 - 1)) = 0 /\ 2^0 = 1
    BY <2>1, TotalEmpty, PowerAssumption
  <2>3. a % 1 = 0
    BY <1>0
  <2> QED BY <2>2, <2>3, WordAssumption
<1>2. ASSUME NEW n \in Positions, n \in F
      PROVE  n + 1 \in F
  <2> DEFINE p == 2^n
  <2>1. p \in Nat \ {0} /\ 2^(n + 1) = 2 * p /\ (n + 1) - 1 = n
    BY PositionFacts
  <2>2. \A k \in Positions : w[k] \in Int
    BY BitRange, PositionFacts
  <2>3. Total(w, 0..((n + 1) - 1)) = w[n] + Total(w, 0..(n - 1))
    BY <2>1, <2>2, NextTotal
  <2>4. w[n] = ((a \div p) % 2) * p
    BY DEF BitsOf, Bit
  <2>5. a % (2 * p) = ((a \div p) % 2) * p + (a % p)
    BY <1>0, <2>1, NextRemainder
  <2>6. n + 1 \in 0..WordBits
    BY WordAssumption DEF Positions
  <2>7. Total(w, 0..(n - 1)) = a % p
    BY <1>2
  <2>8. Total(w, 0..((n + 1) - 1)) = a % 2^(n + 1)
    <3> HIDE DEF w, p
    <3> QED BY <2>1, <2>3, <2>4, <2>5, <2>7
  <2> QED BY <2>6, <2>8
<1>3. WordBits \in F
  <2> HIDE DEF F
  <2> QED BY <1>1, <1>2, PlaceInduction
<1>4. a % Modulus = a
  BY <1>0, Wrapping
<1> QED BY <1>3, <1>4 DEF Positions, Modulus

----------------------------------------------------------------------------
(* And, Or and their difference are sums of bits.                          *)
Both(a, b) == [k \in Positions |-> IF Bit(a, k) = 1 /\ Bit(b, k) = 1 THEN 2^k ELSE 0]
Left(a, b) == [k \in Positions |-> IF Bit(a, k) = 1 /\ Bit(b, k) # 1 THEN 2^k ELSE 0]
Right(a, b) == [k \in Positions |-> IF Bit(a, k) # 1 /\ Bit(b, k) = 1 THEN 2^k ELSE 0]
Either(a, b) == [k \in Positions |-> IF Bit(a, k) = 1 \/ Bit(b, k) = 1 THEN 2^k ELSE 0]
One(a, b) == [k \in Positions |-> IF Bit(a, k) = 1 <=> Bit(b, k) # 1 THEN 2^k ELSE 0]

LEMMA AndIsTotal ==
  ASSUME NEW a, NEW b
  PROVE  And(a, b) = Total(Both(a, b), Positions)
<1> DEFINE w == Both(a, b)
           S == Positions
           Sums(f) == f = [s \in SUBSET S |->
                       IF s = {} THEN 0
                       ELSE (IF (a \div 2^(CHOOSE x \in s : TRUE)) % 2 = 1
                                /\ (b \div 2^(CHOOSE x \in s : TRUE)) % 2 = 1
                             THEN 2^(CHOOSE x \in s : TRUE) ELSE 0)
                            + f[s \ {CHOOSE x \in s : TRUE}]]
<1>1. And(a, b) = (CHOOSE f : Sums(f))[S]
  BY DEF And, MapThenSumSet, MapThenFoldSet, Positions
<1>2. ASSUME NEW f
      PROVE  Sums(f) <=> Solves(f, w, S)
  <2> DEFINE v(k) == IF (a \div 2^k) % 2 = 1 /\ (b \div 2^k) % 2 = 1 THEN 2^k ELSE 0
  <2>1. \A s \in SUBSET S : s # {} => w[Pick(s)] = v(Pick(s))
    BY PickIsIn DEF Both, Bit
  <2>2. ASSUME NEW s \in SUBSET S
        PROVE  Step(f, w, s) = IF s = {} THEN 0 ELSE v(Pick(s)) + f[s \ {Pick(s)}]
    <3> HIDE DEF v, w
    <3> QED BY <2>1 DEF Step
  <2>3. [s \in SUBSET S |-> Step(f, w, s)]
          = [s \in SUBSET S |-> IF s = {} THEN 0 ELSE v(Pick(s)) + f[s \ {Pick(s)}]]
    <3> HIDE DEF v, w, S
    <3> QED BY <2>2
  <2> QED BY <2>3 DEF Solves, Pick
<1>3. Sums(CHOOSE f : Sums(f))
  <2>1. \E f : Solves(f, w, S)
    BY SolutionExists, PositionFacts
  <2> HIDE DEF Sums
  <2> QED BY <1>2, <2>1
<1> QED BY <1>1, <1>2, <1>3, TotalSolves, PositionFacts

LEMMA BitWeights ==
  ASSUME NEW a \in Word, NEW b \in Word
  PROVE  \A k \in Positions :
           /\ Both(a, b)[k] \in 0..2^k /\ Left(a, b)[k] \in 0..2^k /\ Right(a, b)[k] \in 0..2^k
           /\ Either(a, b)[k] \in 0..2^k /\ One(a, b)[k] \in 0..2^k
           /\ BitsOf(a)[k] = Both(a, b)[k] + Left(a, b)[k]
           /\ BitsOf(b)[k] = Both(a, b)[k] + Right(a, b)[k]
           /\ Either(a, b)[k] = BitsOf(a)[k] + Right(a, b)[k]
           /\ One(a, b)[k] = Left(a, b)[k] + Right(a, b)[k]
<1> SUFFICES ASSUME NEW k \in Positions
    PROVE  /\ Both(a, b)[k] \in 0..2^k /\ Left(a, b)[k] \in 0..2^k /\ Right(a, b)[k] \in 0..2^k
           /\ Either(a, b)[k] \in 0..2^k /\ One(a, b)[k] \in 0..2^k
           /\ BitsOf(a)[k] = Both(a, b)[k] + Left(a, b)[k]
           /\ BitsOf(b)[k] = Both(a, b)[k] + Right(a, b)[k]
           /\ Either(a, b)[k] = BitsOf(a)[k] + Right(a, b)[k]
           /\ One(a, b)[k] = Left(a, b)[k] + Right(a, b)[k]
  OBVIOUS
<1> DEFINE p == 2^k
           i == Bit(a, k)
           j == Bit(b, k)
<1>1. p \in Nat
  BY PositionFacts
<1>2. /\ BitsOf(a)[k] = IF i = 1 THEN p ELSE 0
      /\ BitsOf(b)[k] = IF j = 1 THEN p ELSE 0
  BY BitRange
<1>3. /\ Both(a, b)[k] = IF i = 1 /\ j = 1 THEN p ELSE 0
      /\ Left(a, b)[k] = IF i = 1 /\ j # 1 THEN p ELSE 0
      /\ Right(a, b)[k] = IF i # 1 /\ j = 1 THEN p ELSE 0
      /\ Either(a, b)[k] = IF i = 1 \/ j = 1 THEN p ELSE 0
      /\ One(a, b)[k] = IF i = 1 <=> j # 1 THEN p ELSE 0
  BY DEF Both, Left, Right, Either, One
<1> HIDE DEF p, i, j
<1> USE <1>1, <1>2, <1>3
<1>4. CASE i = 1 /\ j = 1
  BY <1>4 DEF p
<1>5. CASE i = 1 /\ j # 1
  BY <1>5 DEF p
<1>6. CASE i # 1 /\ j = 1
  BY <1>6 DEF p
<1>7. CASE i # 1 /\ j # 1
  BY <1>7 DEF p
<1> QED BY <1>4, <1>5, <1>6, <1>7

(* The bits that two words have in common make no more than either, and all
   their bits together, or those of just one of them, make a word.         *)
LEMMA BitsAreWords ==
  ASSUME NEW a \in Word, NEW b \in Word
  PROVE  /\ And(a, b) \in Word /\ And(a, b) <= a /\ And(a, b) <= b
         /\ Or(a, b) \in Word
         /\ Or(a, b) - And(a, b) \in Word
         /\ Or(a, b) - And(a, b) = a + b - 2 * And(a, b)
<1> DEFINE both == Total(Both(a, b), Positions)
           left == Total(Left(a, b), Positions)
           right == Total(Right(a, b), Positions)
           any == Total(Either(a, b), Positions)
           one == Total(One(a, b), Positions)
<1>1. both \in Word /\ left \in Word /\ right \in Word /\ any \in Word /\ one \in Word
  BY BitWeights, BitsBound
<1>2. \A k \in Positions :
        /\ Both(a, b)[k] \in Int /\ Left(a, b)[k] \in Int /\ Right(a, b)[k] \in Int
        /\ BitsOf(a)[k] \in Int
  BY BitWeights, BitRange, PositionFacts
<1>3. a = both + left
  <2>1. Total(BitsOf(a), Positions) = both + left
    BY <1>2, BitWeights, PositionFacts, TotalPlus
  <2> QED BY <2>1, WordIsItsBits
<1>4. b = both + right
  <2>1. Total(BitsOf(b), Positions) = both + right
    BY <1>2, BitWeights, PositionFacts, TotalPlus
  <2> QED BY <2>1, WordIsItsBits
<1>5. any = a + right
  <2>1. any = Total(BitsOf(a), Positions) + right
    BY <1>2, BitWeights, PositionFacts, TotalPlus
  <2> QED BY <2>1, WordIsItsBits
<1>6. one = left + right
  BY <1>2, BitWeights, PositionFacts, TotalPlus
<1>7. And(a, b) = both
  BY AndIsTotal
<1> HIDE DEF both, left, right, any, one
<1>8. a \in Nat /\ b \in Nat /\ both \in Nat /\ left \in Nat /\ right \in Nat /\ any \in Nat /\ one \in Nat
  BY <1>1, Sizes DEF Word
<1>9. Or(a, b) = any /\ Or(a, b) - And(a, b) = one
  BY <1>3, <1>4, <1>5, <1>6, <1>7, <1>8 DEF Or
<1> QED BY <1>1, <1>3, <1>4, <1>5, <1>6, <1>7, <1>8, <1>9

----------------------------------------------------------------------------
LEMMA SmallWords == 0 \in Word /\ 1 \in Word
  BY Sizes DEF Word

LEMMA WordFacts == ASSUME NEW n \in Word PROVE n \in Nat /\ n < Modulus /\ Wrap(n) = n
<1>1. n \in Nat /\ n < Modulus
  BY Sizes DEF Word
<1> QED BY <1>1, Wrapping DEF Wrap

(* The kinds of values, and the words they stand for.                      *)
LEMMA Kinds ==
  ASSUME NEW v, IsValue(v), NEW place
  PROVE  \/ /\ v = Unknown /\ ~IsNumeric(v) /\ ~IsAddress(v) /\ ~IsConst(v)
            /\ Words(v, place) = Word
         \/ /\ IsNumeric(v) /\ ~IsAddress(v) /\ v # Unknown /\ IsInterval(v)
            /\ Words(v, place) = v.lo..v.hi /\ Words(v, place) \subseteq Word
            /\ IsConst(v) => v.hi = v.lo /\ v = Const(v.lo)
            /\ IsConst(v) \/ v.t = "range"
         \/ /\ IsAddress(v) /\ ~IsNumeric(v) /\ ~IsConst(v) /\ v # Unknown /\ v.lo \in Int
            /\ Words(v, place) = {Wrap(place[v.base] + v.lo)}
<1>1. CASE v = Unknown
  BY <1>1, UnknownWords DEF Unknown, Value, IsNumeric, IsAddress, IsConst
<1>2. CASE \E lo, hi \in Word : lo <= hi /\ v = Interval(lo, hi)
  <2>1. PICK lo \in Word, hi \in Word : lo <= hi /\ v = Interval(lo, hi)
    BY <1>2
  <2>2. lo \in Int /\ hi \in Int
    BY WordFacts
  <2>3. v.lo = lo /\ v.hi = hi /\ IsNumeric(v) /\ ~IsAddress(v) /\ v # Unknown
        /\ (IsConst(v) => lo = hi /\ v = Const(lo)) /\ (IsConst(v) \/ v.t = "range")
    BY <2>1 DEF Interval, Const, Value, IsNumeric, IsAddress, IsConst, Unknown
  <2>4. Words(v, place) = v.lo..v.hi
    BY <2>1, <2>2, <2>3, IntervalWords
  <2>5. lo..hi \subseteq Word
    BY Sizes DEF Word
  <2> QED BY <2>1, <2>2, <2>3, <2>4, <2>5 DEF IsInterval
<1>3. CASE IsAddress(v) /\ v.lo \in Int /\ v \in {Pointer(v.base, v.lo), Flag(v.base, v.lo)}
  BY <1>3 DEF Pointer, Flag, Value, IsNumeric, IsAddress, IsConst, Words, Unknown
<1> QED BY <1>1, <1>2, <1>3 DEF IsValue

(* The words of each kind of value.                                        *)
LEMMA ConstIs ==
  ASSUME NEW n \in Word, NEW place
  PROVE  /\ IsValue(Const(n)) /\ Words(Const(n), place) = {n} /\ Const(n) # Unknown
         /\ \A m : Const(n) = Const(m) <=> n = m
<1>1. Const(n) = Interval(n, n) /\ n \in Int
  BY WordFacts DEF Interval
<1>2. Words(Const(n), place) = n..n
  BY <1>1, IntervalWords
<1>3. n..n = {n}
  BY <1>1
<1>4. Const(n) # Unknown /\ \A m : Const(n) = Const(m) <=> n = m
  BY DEF Const, Unknown, Value
<1> QED BY <1>1, <1>2, <1>3, <1>4 DEF IsValue

LEMMA IntervalIs ==
  ASSUME NEW lo \in Word, NEW hi \in Word, lo <= hi, NEW place
  PROVE  IsValue(Interval(lo, hi)) /\ Words(Interval(lo, hi), place) = lo..hi
  BY WordFacts, IntervalWords DEF IsValue

LEMMA TruthIs ==
  ASSUME NEW b \in BOOLEAN, NEW place
  PROVE  /\ IsValue(Truth(b)) /\ Truth(b) \in Predicates
         /\ Words(Truth(b), place) = {IF b THEN 1 ELSE 0}
  BY SmallWords, ConstIs DEF Truth, Predicates

LEMMA AddressIs ==
  ASSUME NEW base, NEW offset \in Int, NEW place
  PROVE  /\ IsValue(Pointer(base, offset)) /\ IsValue(Flag(base, offset))
         /\ Words(Pointer(base, offset), place) = {Wrap(place[base] + offset)}
         /\ Words(Flag(base, offset), place) = {Wrap(place[base] + offset)}
  BY DEF IsValue, Pointer, Flag, Value, IsNumeric, IsAddress, Words

LEMMA PredicateIs ==
  ASSUME NEW v \in Predicates, NEW place
  PROVE  /\ IsValue(v)
         /\ v = Unknown \/ (v = Const(0) /\ Words(v, place) = {0})
                        \/ (v = Const(1) /\ Words(v, place) = {1})
  BY SmallWords, ConstIs DEF Predicates, IsValue

(* The signed number of any number's word.                                 *)
LEMMA SignedIs ==
  ASSUME NEW n \in Int
  PROVE  /\ Signed(n) \in Int /\ Wrap(Signed(n)) = Wrap(n)
         /\ n \in (-SignBit)..(SignBit - 1) => Signed(n) = n
         /\ \E k \in Int : Signed(n) = n + Modulus * k
<1>1. n % Modulus \in Word /\ n \div Modulus \in Int
      /\ n = Modulus * (n \div Modulus) + (n % Modulus)
  BY Sizes, Remainder DEF Word
<1>2. Wrap(n) \in Nat /\ Wrap(n) < Modulus
  BY <1>1, WordFacts DEF Wrap
<1>3. \E k \in Int : Signed(n) = n + Modulus * k
  <2> DEFINE q == n \div Modulus
             r == n % Modulus
  <2>1. Signed(n) = r \/ Signed(n) = r - Modulus
    BY DEF Signed, Wrap
  <2>2. r = n + Modulus * (-q) /\ -q \in Int
    <3>1. q \in Int /\ -q \in Int /\ r \in Int /\ n = Modulus * q + r /\ q + (-q) = 0
      BY <1>1, Sizes DEF Word
    <3> HIDE DEF q, r
    <3>2. Modulus * (q + (-q)) = Modulus * q + Modulus * (-q) /\ Modulus * 0 = 0
      BY <3>1, Sizes, Distributive
    <3> QED BY <3>1, <3>2, Sizes
  <2>3. r - Modulus = n + Modulus * (-q - 1) /\ -q - 1 \in Int
    <3>1. q \in Int /\ r \in Int
      BY <1>1, Sizes DEF Word
    <3> HIDE DEF q, r
    <3>2. -q \in Int /\ -1 \in Int /\ -q - 1 = -1 + (-q)
      BY <3>1
    <3>3. Modulus * (-1 + (-q)) = Modulus * (-1) + Modulus * (-q)
      BY <3>2, Sizes, Distributive
    <3>4. Modulus * (-1) = -Modulus /\ Modulus * (-q) \in Int
      BY <3>1, Sizes
    <3> QED BY <2>2, <3>1, <3>2, <3>3, <3>4, Sizes
  <2> QED BY <2>1, <2>2, <2>3
<1>4. Signed(n) \in Int
  BY <1>2, Sizes DEF Signed
<1>5. Wrap(Signed(n)) = Wrap(n)
  BY <1>3, <1>4, SameWord DEF Wrap
<1>6. n \in (-SignBit)..(SignBit - 1) => Signed(n) = n
  <2> SUFFICES ASSUME n \in (-SignBit)..(SignBit - 1) PROVE Signed(n) = n
    OBVIOUS
  <2>1. CASE n >= 0
    <3>1. n % Modulus = n
      BY <2>1, Wrapping, Sizes DEF Word
    <3> QED BY <3>1, Sizes DEF Signed, Wrap
  <2>2. CASE n < 0
    <3>1. n % Modulus = n + Modulus
      BY <2>2, Wrapping, Sizes
    <3> QED BY <2>2, <3>1, Sizes DEF Signed, Wrap
  <2> QED BY <2>1, <2>2
<1> QED BY <1>3, <1>4, <1>5, <1>6

(* Any number congruent to a word is as good as the word.                  *)
LEMMA ProductOfNumbers ==
  ASSUME NEW signed \in BOOLEAN, NEW m \in Word, NEW n \in Word
  PROVE  (Number(signed, m) * Number(signed, n)) % Modulus = (m * n) % Modulus
<1> DEFINE a == Number(signed, m)
           b == Number(signed, n)
<1>1. m \in Nat /\ n \in Nat /\ a \in Int /\ b \in Int
  BY NumberOf, Sizes DEF Word
<1>2. (a * n) % Modulus = (m * n) % Modulus
  BY <1>1, ShiftedLeft
<1>3. (a * b) % Modulus = (a * n) % Modulus
  <2>1. CASE b = n
    BY <2>1
  <2>2. CASE b = n - Modulus
    <3> HIDE DEF a, b
    <3> DEFINE c == a * n   e == a * b
    <3>1. a * n = a * b + Modulus * a
      BY <1>1, <2>2, Sizes
    <3>2. c = e + Modulus * a /\ c \in Int /\ e \in Int
      BY <1>1, <3>1
    <3> HIDE DEF c, e
    <3>3. c % Modulus = e % Modulus
      BY <1>1, <3>2, SameWord
    <3> QED BY <3>3 DEF c, e
  <2> QED BY <2>1, <2>2, NumberOf
<1> QED BY <1>2, <1>3

(* The words that two known words make.                                    *)
LEMMA ExactSound ==
  ASSUME NEW i, i.op = "scmp" => i.rel \in Relations,
         NEW m \in Word, NEW n \in Word, NEW place
  PROVE  LET v == Exact(i, m, n)
         IN  /\ IsValue(v)
             /\ v # Unknown => Machine(i, <<m, n>>) \subseteq Words(v, place)
             /\ i.op \in {"pand", "por", "pnand", "scmp"} => v \in Predicates
<1> DEFINE v == Exact(i, m, n)
           signed == i.sign = "s32"
           a == Number(signed, m)
           b == Number(signed, n)
           Sound == /\ IsValue(v)
                    /\ v # Unknown => Machine(i, <<m, n>>) \subseteq Words(v, place)
                    /\ i.op \in {"pand", "por", "pnand", "scmp"} => v \in Predicates
<1>1. /\ a = IF i.sign = "s32" THEN Signed(m) ELSE m
      /\ b = IF i.sign = "s32" THEN Signed(n) ELSE n
  BY SignedNumber DEF Number
<1>2. m \in Nat /\ n \in Nat /\ a \in Int /\ b \in Int /\ signed \in BOOLEAN
  BY WordFacts, NumberOf
<1>3. a % Modulus = m /\ b % Modulus = n /\ (a = 0 <=> m = 0) /\ (b = 0 <=> n = 0)
  <2>1. (a + 0) % Modulus = (m + 0) % Modulus /\ (b + 0) % Modulus = (n + 0) % Modulus
    <3>1. Number(signed, 0) = 0
      BY Sizes DEF Number
    <3> HIDE DEF signed
    <3> QED BY <1>2, <3>1, SmallWords, WordOfNumber
  <2>2. m % Modulus = m /\ n % Modulus = n
    BY WordFacts DEF Wrap
  <2>3. ASSUME NEW k \in Word
        PROVE  Number(signed, k) = 0 <=> k = 0
    BY Sizes DEF Number, Word
  <2> QED BY <1>2, <2>1, <2>2, <2>3 DEF a, b
<1> HIDE DEF a, b, signed
<1>4. ASSUME NEW k \in Int, v = Const(Wrap(k)), Machine(i, <<m, n>>) = {k % Modulus},
             i.op \notin {"pand", "por", "pnand", "scmp"}
      PROVE  Sound
  <2>1. k % Modulus \in Word
    BY <1>4, Wrapping
  <2> QED BY <1>4, <2>1, ConstIs DEF Wrap
<1>5. ASSUME NEW k \in Word, v = Const(k), Machine(i, <<m, n>>) = {k},
             i.op \notin {"pand", "por", "pnand", "scmp"}
      PROVE  Sound
  BY <1>5, ConstIs
<1>6. ASSUME NEW t \in BOOLEAN, v = Truth(t), Machine(i, <<m, n>>) = {IF t THEN 1 ELSE 0}
      PROVE  Sound
  BY <1>6, TruthIs
<1>7. CASE i.op = "sadd"
  <2>1. v = Const(Wrap(a + b)) /\ Machine(i, <<m, n>>) = {(m + n) % Modulus}
    BY <1>1, <1>7 DEF Exact, Machine, Casts
  <2>2. (a + b) % Modulus = (m + n) % Modulus /\ a + b \in Int
    BY <1>2, WordOfNumber DEF a, b
  <2> QED BY <1>4, <1>7, <2>1, <2>2
<1>8. CASE i.op = "ssub"
  <2>1. v = Const(Wrap(a - b)) /\ Machine(i, <<m, n>>) = {(m - n) % Modulus}
    BY <1>1, <1>8 DEF Exact, Machine, Casts
  <2>2. (a - b) % Modulus = (m - n) % Modulus /\ a - b \in Int
    BY <1>2, WordOfNumber DEF a, b
  <2> QED BY <1>4, <1>8, <2>1, <2>2
<1>9. CASE i.op = "smul"
  <2>1. v = Const(Wrap(a * b)) /\ Machine(i, <<m, n>>) = {(m * n) % Modulus}
    BY <1>1, <1>9 DEF Exact, Machine, Casts
  <2>2. (a * b) % Modulus = (m * n) % Modulus /\ a * b \in Int
    BY <1>2, ProductOfNumbers DEF a, b
  <2> QED BY <1>4, <1>9, <2>1, <2>2
<1>10. CASE i.op \in {"sand", "sor", "sxor"}
  <2>1. Wrap(a) = m /\ Wrap(b) = n
    BY <1>3 DEF Wrap
  <2>2. CASE i.op = "sand"
    <3>1. v = Const(And(m, n)) /\ Machine(i, <<m, n>>) = {And(m, n)}
      BY <1>1, <2>1, <2>2 DEF Exact, Machine, Casts
    <3> QED BY <1>5, <2>2, <3>1, BitsAreWords
  <2>3. CASE i.op = "sor"
    <3>1. v = Const(Or(m, n)) /\ Machine(i, <<m, n>>) = {Or(m, n)}
      BY <1>1, <2>1, <2>3 DEF Exact, Machine, Casts
    <3> QED BY <1>5, <2>3, <3>1, BitsAreWords
  <2>4. CASE i.op = "sxor"
    <3>1. v = Const(Or(m, n) - And(m, n)) /\ Machine(i, <<m, n>>) = {m + n - 2 * And(m, n)}
      BY <1>1, <2>1, <2>4 DEF Exact, Machine, Casts
    <3> QED BY <1>5, <2>4, <3>1, BitsAreWords
  <2> QED BY <1>10, <2>2, <2>3, <2>4
<1>11. CASE i.op \in {"pand", "por", "pnand"}
  <2>1. CASE i.op = "pand"
    <3>1. v = Truth(m # 0 /\ n # 0)
      BY <1>1, <1>3, <2>1 DEF Exact
    <3>2. Machine(i, <<m, n>>) = {IF m # 0 /\ n # 0 THEN 1 ELSE 0}
      BY <2>1 DEF Machine, Casts
    <3> QED BY <1>6, <3>1, <3>2
  <2>2. CASE i.op = "por"
    <3>1. v = Truth(m # 0 \/ n # 0)
      BY <1>1, <1>3, <2>2 DEF Exact
    <3>2. Machine(i, <<m, n>>) = {IF m # 0 \/ n # 0 THEN 1 ELSE 0}
      BY <2>2 DEF Machine, Casts
    <3> QED BY <1>6, <3>1, <3>2
  <2>3. CASE i.op = "pnand"
    <3>1. v = Truth(m = 0 \/ n = 0)
      BY <1>1, <1>3, <2>3 DEF Exact
    <3>2. Machine(i, <<m, n>>) = {IF m = 0 \/ n = 0 THEN 1 ELSE 0}
      BY <2>3 DEF Machine, Casts
    <3> QED BY <1>6, <3>1, <3>2
  <2> QED BY <1>11, <2>1, <2>2, <2>3
<1>12. CASE i.op = "scmp"
  <2>1. v = Truth(Holds(i.rel, a, b))
    BY <1>1, <1>12 DEF Exact
  <2>2. Machine(i, <<m, n>>) = {IF Holds(i.rel, a, b) THEN 1 ELSE 0}
    BY <1>1, <1>12 DEF Machine, Casts
  <2>3. Holds(i.rel, a, b) \in BOOLEAN
    BY DEF Holds
  <2> QED BY <1>6, <2>1, <2>2, <2>3
<1>13. CASE i.op \in {"sshll", "sshrl", "sshra"} /\ b \in 0..(WordBits - 1)
  <2> DEFINE d == 2^n
  <2>1. b = n /\ n \in 0..(WordBits - 1)
    <3>1. b >= 0
      BY <1>2, <1>13
    <3>2. b = n
      BY <3>1, NumberOf DEF b, signed
    <3> QED BY <1>13, <3>2
  <2>2. n < WordBits /\ d \in Nat \ {0}
    BY <2>1, WordAssumption, PowerAssumption, Sizes
  <2>3. CASE i.op = "sshll"
    <3>1. v = Const(Wrap(a * d)) /\ Machine(i, <<m, n>>) = {(m * d) % Modulus}
      BY <1>1, <1>13, <2>1, <2>2, <2>3 DEF Exact, Machine, Casts
    <3> HIDE DEF d
    <3>2. (a * d) % Modulus = (m * d) % Modulus /\ a * d \in Int
      BY <1>2, <2>2, ShiftedLeft, ProductInOrder DEF a
    <3> QED BY <1>4, <2>3, <3>1, <3>2
  <2>4. CASE i.op = "sshra"
    <3>1. v = Const(Wrap(a \div d)) /\ Machine(i, <<m, n>>) = {(a \div d) % Modulus}
      BY <1>1, <1>13, <2>1, <2>2, <2>4 DEF Exact, Machine, Casts
    <3> HIDE DEF d
    <3>2. a \div d \in Int
      BY <1>2, <2>2, QuotientInOrder
    <3> QED BY <1>4, <2>4, <3>1, <3>2
  <2>5. CASE i.op = "sshrl"
    <3>1. v = Const(Wrap(m \div d)) /\ Machine(i, <<m, n>>) = {m \div d}
      BY <1>1, <1>3, <1>13, <2>1, <2>2, <2>5 DEF Exact, Machine, Casts, Wrap
    <3> HIDE DEF d
    <3>2. m \div d \in Word
      BY <2>2, QuotientOfWord
    <3>3. Wrap(m \div d) = m \div d
      BY <3>2, WordFacts
    <3> QED BY <1>5, <2>5, <3>1, <3>2, <3>3
  <2> QED BY <1>13, <2>3, <2>4, <2>5
<1>14. CASE /\ i.op \notin {"sadd", "ssub", "smul", "sand", "sor", "sxor", "pand", "por", "pnand", "scmp"}
            /\ ~(i.op \in {"sshll", "sshrl", "sshra"} /\ b \in 0..(WordBits - 1))
  <2>1. v = Unknown
    BY <1>1, <1>14 DEF Exact
  <2> QED BY <1>14, <2>1 DEF IsValue
<1> QED BY <1>7, <1>8, <1>9, <1>10, <1>11, <1>12, <1>13, <1>14

(* The smaller of two words.                                               *)
LEMMA LeastIs ==
  ASSUME NEW a \in Int, NEW b \in Int
  PROVE  Least({a, b}) = IF a <= b THEN a ELSE b
<1> DEFINE P(n) == n \in {a, b} /\ \A m \in {a, b} : n <= m
<1>1. P(IF a <= b THEN a ELSE b)
  OBVIOUS
<1>2. P(CHOOSE n : P(n))
  BY <1>1
<1>3. Least({a, b}) = CHOOSE n : P(n)
  BY DEF Least
<1> QED BY <1>2, <1>3

LEMMA GreatestIs ==
  ASSUME NEW a \in Int, NEW b \in Int
  PROVE  Greatest({a, b}) = IF a <= b THEN b ELSE a
<1> DEFINE P(n) == n \in {a, b} /\ \A m \in {a, b} : m <= n
<1>1. P(IF a <= b THEN b ELSE a)
  OBVIOUS
<1>2. P(CHOOSE n : P(n))
  BY <1>1
<1>3. Greatest({a, b}) = CHOOSE n : P(n)
  BY DEF Greatest
<1> QED BY <1>2, <1>3

(* What Clamp takes a word to lie between.                                 *)
From(v) == IF IsNumeric(v) THEN v.lo ELSE 0
To(v) == IF IsNumeric(v) THEN v.hi ELSE Modulus - 1

LEMMA Between ==
  ASSUME NEW v, IsValue(v), NEW place, NEW m \in Words(v, place) \cap Word
  PROVE  /\ From(v) \in Word /\ To(v) \in Word /\ From(v) <= To(v)
         /\ m \in From(v)..To(v)
<1>1. m \in Nat /\ m < Modulus
  BY WordFacts
<1>2. CASE IsNumeric(v)
  BY <1>2, Kinds, Sizes DEF From, To, IsInterval, Word
<1>3. CASE ~IsNumeric(v)
  <2>1. From(v) = 0 /\ To(v) = Modulus - 1
    BY <1>3 DEF From, To
  <2> QED BY <1>1, <2>1, Sizes DEF Word
<1> QED BY <1>2, <1>3

LEMMA ClampSound ==
  ASSUME NEW i, Clamps(i), NEW x, NEW y, IsValue(x), IsValue(y), NEW place,
         NEW m \in Words(x, place) \cap Word, NEW n \in Words(y, place) \cap Word
  PROVE  LET v == Clamp(i, x, y)
         IN  /\ IsValue(v)
             /\ v # Unknown => Machine(i, <<m, n>>) \subseteq Words(v, place)
<1> DEFINE v == Clamp(i, x, y)
           lo == From(x)   hi == To(x)   blo == From(y)   bhi == To(y)
<1>1. /\ lo \in Word /\ hi \in Word /\ m \in lo..hi
      /\ blo \in Word /\ bhi \in Word /\ n \in blo..bhi
  BY Between
<1>2. lo \in Nat /\ hi \in Nat /\ blo \in Nat /\ bhi \in Nat /\ m \in Nat /\ n \in Nat
  BY <1>1, WordFacts
<1>3. CASE i.op = "smin"
  <2> DEFINE a == Least({lo, blo})
             b == Least({hi, bhi})
  <2>1. v = Interval(a, b)
    BY <1>3 DEF Clamp, From, To
  <2>2. a = (IF lo <= blo THEN lo ELSE blo) /\ b = (IF hi <= bhi THEN hi ELSE bhi)
    BY <1>2, LeastIs
  <2>3. Machine(i, <<m, n>>) = {IF m <= n THEN m ELSE n}
    <3> DEFINE P(k) == k \in {m, n} /\ k <= m /\ k <= n
    <3>1. Machine(i, <<m, n>>) = {CHOOSE k : P(k)}
      BY <1>3 DEF Machine, Casts, Clamps
    <3>2. P(IF m <= n THEN m ELSE n)
      BY <1>2
    <3>3. P(CHOOSE k : P(k))
      BY <3>2
    <3>4. (CHOOSE k : P(k)) = IF m <= n THEN m ELSE n
      BY <1>2, <3>3
    <3> QED BY <3>1, <3>4
  <2> HIDE DEF a, b, v, lo, hi, blo, bhi
  <2>4. a \in Word /\ b \in Word /\ a <= b /\ (IF m <= n THEN m ELSE n) \in a..b
    BY <1>1, <1>2, <2>2
  <2> QED BY <2>1, <2>3, <2>4, IntervalIs DEF v
<1>4. CASE i.op = "sand"
  <2>1. Machine(i, <<m, n>>) = {And(m, n)} /\ And(m, n) \in Word /\ And(m, n) <= m /\ And(m, n) <= n
    BY <1>4, BitsAreWords DEF Machine, Casts
  <2>2. CASE IsConst(x) /\ IsConst(y)
    <3>1. m = x.lo /\ n = y.lo
      BY <2>2, Kinds DEF IsInterval, Word
    <3>2. v = Const(And(m, n))
      BY <1>4, <2>2, <3>1 DEF Clamp
    <3> QED BY <2>1, <3>2, ConstIs
  <2>3. CASE ~(IsConst(x) /\ IsConst(y))
    <3> DEFINE b == Least({hi, bhi})
    <3>1. v = Interval(0, b)
      BY <1>4, <2>3 DEF Clamp, From, To
    <3>2. b = IF hi <= bhi THEN hi ELSE bhi
      BY <1>2, LeastIs
    <3> HIDE DEF b, v, lo, hi, blo, bhi
    <3>3. And(m, n) \in Nat
      BY <2>1, WordFacts
    <3>4. b \in Word /\ 0 <= b /\ And(m, n) \in 0..b
      BY <1>1, <1>2, <2>1, <3>2, <3>3
    <3> QED BY <2>1, <3>1, <3>4, SmallWords, IntervalIs DEF v
  <2> QED BY <2>2, <2>3
<1>5. CASE i.op = "sshrl"
  <2>1. CASE blo = bhi /\ blo \in 0..(WordBits - 1)
    <3> DEFINE d == 2^blo
               a == lo \div d
               b == hi \div d
    <3>1. v = Interval(a, b)
      BY <1>5, <2>1 DEF Clamp, From, To
    <3>2. n = blo /\ n < WordBits
      BY <1>1, <1>2, <2>1, WordAssumption
    <3>3. d \in Nat \ {0}
      BY <2>1, PowerAssumption, Sizes
    <3>4. Machine(i, <<m, n>>) = {m \div d}
      BY <1>5, <3>2 DEF Machine, Casts, Clamps
    <3> HIDE DEF d, v, lo, hi, blo, bhi
    <3>5. a \in Word /\ b \in Word /\ m \div d \in Word
      BY <1>1, <3>3, QuotientOfWord
    <3>6. a <= m \div d /\ m \div d <= b
      BY <1>1, <1>2, <3>3, QuotientInOrder
    <3> HIDE DEF a, b
    <3>7. a \in Nat /\ b \in Nat /\ m \div d \in Nat
      BY <3>5, WordFacts
    <3> QED BY <3>1, <3>4, <3>5, <3>6, <3>7, IntervalIs DEF v
  <2>2. CASE ~(blo = bhi /\ blo \in 0..(WordBits - 1))
    <3>1. v = Unknown
      BY <1>5, <2>2 DEF Clamp, From, To
    <3> QED BY <3>1 DEF IsValue
  <2> QED BY <2>1, <2>2
<1> QED BY <1>3, <1>4, <1>5 DEF Clamps

(* What intervals make is a value; a comparison makes a predicate.         *)
LEMMA SpanIs ==
  ASSUME NEW signed \in BOOLEAN, NEW lo \in Int, NEW hi \in Int
  PROVE  IsValue(Spanning(signed, lo, hi))
<1>1. CASE Spanning(signed, lo, hi) = Unknown
  BY <1>1 DEF IsValue
<1>2. CASE Spanning(signed, lo, hi) # Unknown
  <2>1. /\ Spanning(signed, lo, hi) = Interval(Wrap(lo), Wrap(hi))
        /\ -SignBit <= lo /\ lo <= hi /\ hi < Modulus /\ ~(lo < 0 /\ hi >= 0)
    BY <1>2, Sizes DEF Spanning
  <2>2. CASE lo >= 0
    <3>1. lo \in Word /\ hi \in Word
      BY <2>1, <2>2, Sizes DEF Word
    <3> QED BY <2>1, <3>1, WordFacts, IntervalIs
  <2>3. CASE hi < 0
    <3>1. Wrap(lo) = lo + Modulus /\ Wrap(hi) = hi + Modulus
      BY <2>1, <2>3, Sizes, Wrapping DEF Wrap
    <3>2. Wrap(lo) \in Word /\ Wrap(hi) \in Word /\ Wrap(lo) <= Wrap(hi)
      BY <2>1, <2>3, <3>1, Sizes DEF Word
    <3> QED BY <2>1, <3>2, IntervalIs
  <2> QED BY <2>1, <2>2, <2>3
<1> QED BY <1>1, <1>2

LEMMA ArithmeticIs ==
  ASSUME NEW i, i.op \in RangeOps, i.op = "scmp" => i.rel \in Relations,
         NEW x, NEW y, IsInterval(x), IsInterval(y)
  PROVE  /\ IsValue(Arithmetic(i, x, y))
         /\ i.op = "scmp" => Arithmetic(i, x, y) \in Predicates
<1> DEFINE v == Arithmetic(i, x, y)
           signed == IsSigned(i)
           lo == Number(signed, x.lo)   hi == Number(signed, x.hi)
           blo == Number(signed, y.lo)  bhi == Number(signed, y.hi)
<1>1. signed \in BOOLEAN /\ lo \in Int /\ hi \in Int /\ blo \in Int /\ bhi \in Int
  BY NumberOf DEF IsInterval, IsSigned
<1>2. CASE v = Unknown
  BY <1>2 DEF IsValue, Predicates
<1>3. CASE v # Unknown
  <2>1. CASE i.op = "scmp"
    <3>1. v = Compare(i.rel, lo, hi, blo, bhi)
      BY <1>3, <2>1 DEF Arithmetic
    <3>2. Compare(i.rel, lo, hi, blo, bhi) \in Predicates
      BY <2>1 DEF Compare, Relations, Predicates
    <3> QED BY <3>1, <3>2, PredicateIs
  <2>2. CASE i.op \in {"sadd", "ssub"}
    <3>1. v = Spanning(signed, lo + blo, hi + bhi) \/ v = Spanning(signed, lo - bhi, hi - blo)
      BY <1>3, <2>2 DEF Arithmetic
    <3> QED BY <1>1, <2>2, <3>1, SpanIs
  <2>3. CASE i.op \in {"sshll", "sshrl", "sshra"}
    <3> DEFINE d == 2^blo
    <3>1. blo \in 0..(WordBits - 1)
      BY <1>3, <2>3 DEF Arithmetic
    <3>2. d \in Nat \ {0}
      BY <3>1, PowerAssumption, Sizes
    <3>3. v = Spanning(signed, lo * d, hi * d) \/ v = Spanning(signed, lo \div d, hi \div d)
      BY <1>3, <2>3 DEF Arithmetic
    <3> HIDE DEF d, v, lo, hi, signed
    <3>4. lo * d \in Int /\ hi * d \in Int /\ lo \div d \in Int /\ hi \div d \in Int
      BY <1>1, <3>2, QuotientInOrder, ProductInOrder
    <3> QED BY <1>1, <2>3, <3>3, <3>4, SpanIs DEF v
  <2> QED BY <2>1, <2>2, <2>3 DEF RangeOps
<1> QED BY <1>2, <1>3

(* A number differs from its word by a multiple of the modulus.            *)
LEMMA WrapIs ==
  ASSUME NEW n \in Int
  PROVE  Wrap(n) \in Word /\ \E k \in Int : Wrap(n) = n + Modulus * k
<1> DEFINE q == n \div Modulus
           r == n % Modulus
<1>1. q \in Int /\ -q \in Int /\ r \in Int /\ n = Modulus * q + r /\ q + (-q) = 0
  <2>1. q \in Int /\ r \in 0..(Modulus - 1) /\ n = Modulus * q + r
    BY Sizes, Remainder
  <2> HIDE DEF q, r
  <2> QED BY <2>1, Sizes
<1>2. r \in Word
  BY Sizes, Remainder DEF Word
<1> HIDE DEF q, r
<1>3. Modulus * (q + (-q)) = Modulus * q + Modulus * (-q) /\ Modulus * 0 = 0
  BY <1>1, Sizes, Distributive
<1>4. r = n + Modulus * (-q)
  BY <1>1, <1>3, Sizes
<1> QED BY <1>1, <1>2, <1>4 DEF r, Wrap

(* Sums and differences of numbers that differ by multiples of the modulus. *)
LEMMA CongruentSums ==
  ASSUME NEW a \in Int, NEW b \in Int, NEW j \in Int, NEW k \in Int,
         NEW c \in Int, NEW d \in Int, c = a + Modulus * j, d = b + Modulus * k
  PROVE  (c + d) % Modulus = (a + b) % Modulus /\ (c - d) % Modulus = (a - b) % Modulus
<1> DEFINE e == c + d   f == a + b
           g == c - d   h == a - b
<1>1. e \in Int /\ f \in Int /\ g \in Int /\ h \in Int /\ j + k \in Int /\ j - k \in Int /\ -k \in Int
      /\ j - k = j + -k
  OBVIOUS
<1>2. Modulus * (j + k) = Modulus * j + Modulus * k
      /\ Modulus * (j + -k) = Modulus * j + Modulus * (-k)
      /\ Modulus * (k + (-k)) = Modulus * k + Modulus * (-k)
      /\ k + (-k) = 0 /\ Modulus * 0 = 0
  BY <1>1, Sizes, Distributive
<1>3. Modulus * j \in Int /\ Modulus * k \in Int /\ Modulus * (-k) \in Int
  BY <1>1, Sizes
<1>4. e = f + Modulus * (j + k) /\ g = h + Modulus * (j - k)
  BY <1>1, <1>2, <1>3
<1> HIDE DEF e, f, g, h
<1>5. e % Modulus = f % Modulus /\ g % Modulus = h % Modulus
  BY <1>1, <1>4, SameWord
<1> QED BY <1>5 DEF e, f, g, h

(* An address moves with its offset.                                       *)
LEMMA MovedAddress ==
  ASSUME NEW p \in Int, NEW o \in Int, NEW n \in Word, NEW d \in Int,
         d = n \/ d = Signed(n)
  PROVE  /\ (Wrap(p + o) + n) % Modulus = Wrap(p + (o + d))
         /\ (n + Wrap(p + o)) % Modulus = Wrap(p + (o + d))
         /\ (Wrap(p + o) - n) % Modulus = Wrap(p + (o - d))
<1>1. n \in Int /\ p + o \in Int
  BY WordFacts
<1>2. PICK j \in Int : Wrap(p + o) = (p + o) + Modulus * j
  BY <1>1, WrapIs
<1>3. PICK k \in Int : n = d + Modulus * k
  <2>1. CASE d = n
    BY <1>1, <2>1, Sizes
  <2>2. CASE d = Signed(n)
    <3>1. PICK k \in Int : Signed(n) = n + Modulus * k
      BY <1>1, SignedIs
    <3>2. Modulus * (k + (-k)) = Modulus * k + Modulus * (-k) /\ k + (-k) = 0 /\ -k \in Int /\ Modulus * 0 = 0
      BY Sizes, Distributive
    <3>3. n = d + Modulus * (-k)
      BY <1>1, <2>2, <3>1, <3>2, Sizes
    <3> QED BY <3>2, <3>3
  <2> QED BY <2>1, <2>2
<1>4. Wrap(p + o) \in Int
  <2>1. Wrap(p + o) \in Word
    BY <1>1, WrapIs
  <2> QED BY <2>1, WordFacts
<1>5. /\ (Wrap(p + o) + n) % Modulus = ((p + o) + d) % Modulus
      /\ (Wrap(p + o) - n) % Modulus = ((p + o) - d) % Modulus
  BY <1>1, <1>2, <1>3, <1>4, CongruentSums
<1>6. (p + o) + d = p + (o + d) /\ (p + o) - d = p + (o - d) /\ Wrap(p + o) + n = n + Wrap(p + o)
  BY <1>1, <1>4
<1> QED BY <1>5, <1>6 DEF Wrap

(* A conditional move of an unknown predicate covers both its words.       *)
LEMMA SelectSound ==
  ASSUME NEW cond \in Predicates, NEW x, NEW y, IsValue(x), IsValue(y), NEW place,
         NEW c \in Words(cond, place),
         NEW m \in Words(x, place) \cap Word, NEW n \in Words(y, place) \cap Word
  PROVE  LET v == Select(cond, x, y)
         IN  IsValue(v) /\ (v # Unknown => (IF c # 0 THEN n ELSE m) \in Words(v, place))
<1> DEFINE v == Select(cond, x, y)
<1>1. CASE cond = Const(0)
  <2>1. v = x /\ c = 0
    BY <1>1, SmallWords, ConstIs DEF Select
  <2> QED BY <2>1
<1>2. CASE cond = Const(1)
  <2>1. v = y /\ c = 1
    BY <1>2, SmallWords, ConstIs DEF Select
  <2> QED BY <2>1
<1>3. CASE cond = Unknown /\ IsNumeric(x) /\ IsNumeric(y)
  <2> DEFINE a == Least({x.lo, y.lo})
             b == Greatest({x.hi, y.hi})
  <2>1. v = Interval(a, b)
    BY <1>3 DEF Select
  <2>2. /\ x.lo \in Word /\ x.hi \in Word /\ x.lo <= x.hi /\ m \in x.lo..x.hi
        /\ y.lo \in Word /\ y.hi \in Word /\ y.lo <= y.hi /\ n \in y.lo..y.hi
    BY <1>3, Kinds DEF IsInterval
  <2>3. x.lo \in Nat /\ x.hi \in Nat /\ y.lo \in Nat /\ y.hi \in Nat /\ m \in Nat /\ n \in Nat
    BY <2>2, WordFacts
  <2>4. a = (IF x.lo <= y.lo THEN x.lo ELSE y.lo) /\ b = (IF x.hi <= y.hi THEN y.hi ELSE x.hi)
    BY <2>3, LeastIs, GreatestIs
  <2> HIDE DEF a, b, v
  <2>5. a \in Word /\ b \in Word /\ a <= b /\ m \in a..b /\ n \in a..b
    BY <2>2, <2>3, <2>4
  <2>6. IsValue(v) /\ Words(v, place) = a..b
    BY <2>1, <2>5, IntervalIs
  <2> QED BY <2>5, <2>6 DEF v
<1>4. CASE cond = Unknown /\ ~(IsNumeric(x) /\ IsNumeric(y))
  <2>1. v = Unknown
    BY <1>4 DEF Select
  <2> QED BY <2>1 DEF IsValue
<1> QED BY <1>1, <1>2, <1>3, <1>4 DEF Predicates

LEMMA SameBaseSound ==
  ASSUME NEW i, i.op = "scmp" => i.rel \in Relations,
         NEW x, NEW y, IsValue(x), IsValue(y), SameBase(i, x, y),
         NEW place, place[x.base] \in Int,
         i.op = "scmp" => Unwrapped(i, x, place) /\ Unwrapped(i, y, place),
         NEW m \in Words(x, place), NEW n \in Words(y, place)
  PROVE  LET v == Exact(i, x.lo, y.lo)
         IN  /\ IsValue(v)
             /\ v # Unknown => Machine(i, <<m, n>>) \subseteq Words(v, place)
             /\ i.op = "scmp" => v \in Predicates
<1> DEFINE v == Exact(i, x.lo, y.lo)
           p == place[x.base]
           a == IF i.sign = "s32" THEN Signed(x.lo) ELSE x.lo
           b == IF i.sign = "s32" THEN Signed(y.lo) ELSE y.lo
<1>1. /\ x.lo \in Int /\ y.lo \in Int /\ p \in Int /\ IsAddress(x) /\ IsAddress(y)
      /\ m = Wrap(p + x.lo) /\ n = Wrap(p + y.lo) /\ x.base = y.base
  BY Kinds DEF SameBase
<1>2. CASE i.op = "ssub"
  <2>1. v = Const(Wrap(a - b)) /\ Machine(i, <<m, n>>) = {(m - n) % Modulus}
    BY <1>2 DEF Exact, Machine, Casts
  <2>2. \E j \in Int : a = x.lo + Modulus * j
    <3>1. x.lo = x.lo + Modulus * 0
      BY <1>1, Sizes
    <3> QED BY <1>1, <3>1, SignedIs
  <2>3. \E k \in Int : b = y.lo + Modulus * k
    <3>1. y.lo = y.lo + Modulus * 0
      BY <1>1, Sizes
    <3> QED BY <1>1, <3>1, SignedIs
  <2>4. a \in Int /\ b \in Int
    BY <1>1, SignedIs
  <2> HIDE DEF a, b, p, v
  <2>5. (a - b) % Modulus = (x.lo - y.lo) % Modulus
    BY <1>1, <2>2, <2>3, <2>4, CongruentSums
  <2>6. (m - n) % Modulus = ((p + x.lo) - (p + y.lo)) % Modulus
    <3>1. p + x.lo \in Int /\ p + y.lo \in Int
      BY <1>1
    <3>2. /\ m \in Word /\ \E k \in Int : m = (p + x.lo) + Modulus * k
          /\ n \in Word /\ \E k \in Int : n = (p + y.lo) + Modulus * k
      BY <1>1, <3>1, WrapIs
    <3>3. m \in Int /\ n \in Int
      BY <3>2, WordFacts
    <3> DEFINE g == p + x.lo   h == p + y.lo
    <3>4. /\ g \in Int /\ h \in Int /\ m \in Int /\ n \in Int
          /\ \E k \in Int : m = g + Modulus * k
          /\ \E k \in Int : n = h + Modulus * k
      BY <3>1, <3>2, <3>3
    <3> HIDE <1>1 DEF g, h
    <3>5. (m - n) % Modulus = (g - h) % Modulus
      BY <3>4, CongruentSums
    <3> QED BY <3>5 DEF g, h
  <2>7. (p + x.lo) - (p + y.lo) = x.lo - y.lo
    BY <1>1
  <2>8. Wrap(a - b) \in Word /\ (m - n) % Modulus = Wrap(a - b)
    BY <2>4, <2>5, <2>6, <2>7, WrapIs DEF Wrap
  <2> QED BY <1>2, <2>1, <2>8, ConstIs DEF v
<1>3. CASE i.op = "scmp"
  <2> DEFINE t == Holds(i.rel, a, b)
  <2>1. v = Truth(t)
    BY <1>3 DEF Exact
  <2>2. Machine(i, <<m, n>>) = {IF Holds(i.rel, IF i.sign = "s32" THEN Signed(m) ELSE m,
                                          IF i.sign = "s32" THEN Signed(n) ELSE n)
                                THEN 1 ELSE 0}
    BY <1>3 DEF Machine, Casts
  <2>5. t \in BOOLEAN
    BY DEF Holds
  <2>3. CASE i.sign = "s32"
    <3>1. /\ x.lo \in SignedWords /\ y.lo \in SignedWords
          /\ p + x.lo \in SignedWords /\ p + y.lo \in SignedWords
      BY <1>1, <1>3, <2>3 DEF Unwrapped
    <3>2. a = x.lo /\ b = y.lo
      BY <1>1, <2>3, <3>1, SignedIs DEF SignedWords
    <3>3. Signed(m) = p + x.lo /\ Signed(n) = p + y.lo
      <4>1. ASSUME NEW k \in SignedWords
            PROVE  Signed(Wrap(k)) = k
        <5>1. k \in Int /\ Signed(k) = k /\ Wrap(k) \in Word
          BY SignedIs, Sizes, WrapIs DEF SignedWords
        <5>2. Wrap(Wrap(k)) = Wrap(k)
          BY <5>1, WordFacts
        <5> QED BY <5>1, <5>2 DEF Signed
      <4> QED BY <1>1, <3>1, <4>1
    <3>4. Holds(i.rel, p + x.lo, p + y.lo) <=> Holds(i.rel, x.lo, y.lo)
      BY <1>1, <1>3 DEF Holds, Relations
    <3>5. Machine(i, <<m, n>>) = {IF t THEN 1 ELSE 0}
      BY <2>2, <2>3, <3>2, <3>3, <3>4
    <3> QED BY <2>1, <2>5, <3>5, TruthIs
  <2>4. CASE i.sign # "s32"
    <3>1. p + x.lo \in Word /\ p + y.lo \in Word
      BY <1>1, <1>3, <2>4 DEF Unwrapped
    <3>2. m = p + x.lo /\ n = p + y.lo
      BY <1>1, <3>1, WordFacts
    <3>3. Holds(i.rel, p + x.lo, p + y.lo) <=> Holds(i.rel, x.lo, y.lo)
      BY <1>1, <1>3 DEF Holds, Relations
    <3>4. Machine(i, <<m, n>>) = {IF t THEN 1 ELSE 0}
      BY <2>2, <2>4, <3>2, <3>3
    <3> QED BY <2>1, <2>5, <3>4, TruthIs
  <2> QED BY <2>3, <2>4
<1> QED BY <1>2, <1>3 DEF SameBase

(* An address that a known word moves.                                     *)
LEMMA DisplacedSound ==
  ASSUME NEW i, NEW x, NEW y, IsValue(x), IsValue(y), MovesAddress(i, x, y),
         NEW place, IsAddress(x) => place[x.base] \in Int, IsAddress(y) => place[y.base] \in Int,
         NEW m \in Words(x, place), NEW n \in Words(y, place)
  PROVE  LET v == Displaced(i, x, y)
         IN  IsValue(v) /\ Machine(i, <<m, n>>) \subseteq Words(v, place)
<1> DEFINE v == Displaced(i, x, y)
<1>1. CASE IsAddress(x) /\ IsConst(y)
  <2> DEFINE d == IF i.sign = "s32" THEN Signed(y.lo) ELSE y.lo
             p == place[x.base]
  <2>1. /\ x.lo \in Int /\ p \in Int /\ m = Wrap(p + x.lo) /\ n = y.lo /\ n \in Word
        /\ ~IsAddress(y)
    <3>1. n \in y.lo..y.hi /\ y.hi = y.lo /\ y.lo \in Word /\ ~IsAddress(y)
      BY <1>1, Kinds DEF IsInterval
    <3>2. y.lo \in Int
      BY <3>1, WordFacts
    <3>3. n = y.lo
      BY <3>1, <3>2
    <3> QED BY <1>1, <3>1, <3>3, Kinds
  <2>2. d \in Int /\ (d = n \/ d = Signed(n))
    BY <2>1, WordFacts, SignedIs
  <2>3. v = Pointer(x.base, x.lo + (IF i.op = "ssub" THEN -d ELSE d))
    BY <1>1, <2>1 DEF Displaced
  <2> HIDE DEF d, p, v
  <2>4. /\ (m + n) % Modulus = Wrap(p + (x.lo + d))
        /\ (m - n) % Modulus = Wrap(p + (x.lo - d))
    BY <2>1, <2>2, MovedAddress
  <2>5. x.lo + d \in Int /\ x.lo - d \in Int /\ x.lo + (-d) = x.lo - d
    BY <2>1, <2>2
  <2>6. CASE i.op = "ssub"
    <3>1. Machine(i, <<m, n>>) = {(m - n) % Modulus}
      BY <2>6 DEF Machine, Casts
    <3> QED BY <2>3, <2>4, <2>5, <2>6, <3>1, AddressIs DEF v, p
  <2>7. CASE i.op # "ssub"
    <3>1. Machine(i, <<m, n>>) = {(m + n) % Modulus}
      BY <2>7 DEF Machine, Casts, MovesAddress
    <3> QED BY <2>3, <2>4, <2>5, <2>7, <3>1, AddressIs DEF v, p
  <2> QED BY <2>6, <2>7
<1>2. CASE i.op = "sadd" /\ IsAddress(y) /\ IsConst(x)
  <2> DEFINE d == IF i.sign = "s32" THEN Signed(x.lo) ELSE x.lo
             p == place[y.base]
  <2>1. y.lo \in Int /\ p \in Int /\ n = Wrap(p + y.lo) /\ m = x.lo /\ m \in Word
    <3>1. m \in x.lo..x.hi /\ x.hi = x.lo /\ x.lo \in Word
      BY <1>2, Kinds DEF IsInterval
    <3>2. x.lo \in Int
      BY <3>1, WordFacts
    <3>3. m = x.lo
      BY <3>1, <3>2
    <3> QED BY <1>2, <3>1, <3>3, Kinds
  <2>2. d \in Int /\ (d = m \/ d = Signed(m))
    BY <2>1, WordFacts, SignedIs
  <2>3. v = Pointer(y.base, y.lo + d)
    BY <1>2 DEF Displaced
  <2> HIDE DEF d, p, v
  <2>4. (m + n) % Modulus = Wrap(p + (y.lo + d)) /\ y.lo + d \in Int
    BY <2>1, <2>2, MovedAddress
  <2>5. Machine(i, <<m, n>>) = {(m + n) % Modulus}
    BY <1>2 DEF Machine, Casts
  <2> QED BY <2>3, <2>4, <2>5, AddressIs DEF v, p
<1> QED BY <1>1, <1>2 DEF MovesAddress

LEMMA WordsAreWords ==
  ASSUME NEW v, IsValue(v), NEW place, IsAddress(v) => place[v.base] \in Int
  PROVE  Words(v, place) \subseteq Word
<1>1. CASE IsAddress(v)
  <2>1. place[v.base] + v.lo \in Int /\ Words(v, place) = {Wrap(place[v.base] + v.lo)}
    BY <1>1, Kinds
  <2> QED BY <2>1, WrapIs
<1>2. CASE ~IsAddress(v)
  BY <1>2, Kinds
<1> QED BY <1>1, <1>2

LEMMA BinarySound ==
  ASSUME NEW i, NEW x, NEW y, IsValue(x), IsValue(y), NEW place,
         IsAddress(x) => place[x.base] \in Int, IsAddress(y) => place[y.base] \in Int,
         i.op = "scmp" => i.rel \in Relations,
         i.op = "scmp" /\ SameBase(i, x, y) => Unwrapped(i, x, place) /\ Unwrapped(i, y, place),
         i.op \notin {"pneg", "pnot"},
         NEW m \in Words(x, place), NEW n \in Words(y, place)
  PROVE  LET v == Binary(i, x, y)
         IN  /\ IsValue(v)
             /\ v # Unknown => Machine(i, <<m, n>>) \subseteq Words(v, place)
             /\ i.op \in PredicateOps => v \in Predicates
<1> DEFINE v == Binary(i, x, y)
           Sound == /\ IsValue(v)
                    /\ v # Unknown => Machine(i, <<m, n>>) \subseteq Words(v, place)
                    /\ i.op \in PredicateOps => v \in Predicates
<1>1. m \in Word /\ n \in Word
  BY WordsAreWords
<1>2. /\ IsConst(x) => m = x.lo /\ x = Const(m)
      /\ IsConst(y) => n = y.lo /\ y = Const(n)
  <2>1. ASSUME NEW u, IsValue(u), IsConst(u), NEW k \in Words(u, place)
        PROVE  k = u.lo /\ u = Const(k)
    <3>1. k \in u.lo..u.hi /\ u.hi = u.lo /\ u.lo \in Word /\ u = Const(u.lo)
      BY <2>1, Kinds DEF IsInterval
    <3>2. u.lo \in Int
      BY <3>1, WordFacts
    <3> QED BY <3>1, <3>2
  <2> QED BY <2>1
<1> DEFINE Decided == i.op \in {"pand", "pnand"} /\ Const(0) \in {x, y}
           Given == i.op = "por" /\ \E u \in {x, y} : IsConst(u) /\ u.lo # 0
           Ranges == IsNumeric(x) /\ IsNumeric(y) /\ ~(IsConst(x) /\ IsConst(y)) /\ i.op \in RangeOps
           IsFlag == i.op = "scalar_lea" /\ i.sign = "sflag"
<1>3. CASE Decided
  <2>1. v = Truth(i.op = "pnand")
    BY <1>3 DEF Binary
  <2>2. m = 0 \/ n = 0
    <3>1. Words(Const(0), place) = {0}
      BY SmallWords, ConstIs
    <3> QED BY <1>3, <3>1
  <2>3. Machine(i, <<m, n>>) = {IF i.op = "pnand" THEN 1 ELSE 0}
    BY <1>3, <2>2 DEF Machine, Casts
  <2> QED BY <2>1, <2>3, TruthIs
<1>4. CASE ~Decided /\ Given
  <2>1. v = Const(1) /\ Const(1) = Truth(TRUE)
    BY <1>4 DEF Binary, Truth
  <2>2. m # 0 \/ n # 0
    BY <1>2, <1>4
  <2>3. Machine(i, <<m, n>>) = {1}
    BY <1>4, <2>2 DEF Machine, Casts
  <2> QED BY <2>1, <2>3, TruthIs
<1>5. CASE ~Decided /\ ~Given /\ Ranges
  <2>1. v = Arithmetic(i, x, y)
    BY <1>5 DEF Binary
  <2>2. IsInterval(x) /\ IsInterval(y) /\ m \in x.lo..x.hi /\ n \in y.lo..y.hi
    BY <1>5, Kinds
  <2>3. Machine(i, <<m, n>>) \subseteq Words(Arithmetic(i, x, y), place)
    BY <1>5, <2>2, ArithmeticSound
  <2>4. IsValue(Arithmetic(i, x, y)) /\ (i.op = "scmp" => Arithmetic(i, x, y) \in Predicates)
    BY <1>5, <2>2, ArithmeticIs
  <2>5. i.op \in PredicateOps => i.op = "scmp"
    BY <1>5 DEF PredicateOps, RangeOps
  <2> QED BY <2>1, <2>3, <2>4, <2>5
<1>6. CASE ~Decided /\ ~Given /\ ~Ranges /\ Clamps(i)
  <2>1. v = Clamp(i, x, y)
    BY <1>6 DEF Binary
  <2>2. i.op \notin PredicateOps
    BY <1>6 DEF Clamps, PredicateOps
  <2> QED BY <1>1, <1>6, <2>1, <2>2, ClampSound
<1>7. CASE ~Decided /\ ~Given /\ ~Ranges /\ ~Clamps(i) /\ SameBase(i, x, y)
  <2>1. v = Exact(i, x.lo, y.lo)
    BY <1>7 DEF Binary
  <2>2. /\ i.op \in PredicateOps => i.op = "scmp"
        /\ place[x.base] \in Int
    BY <1>7 DEF SameBase, PredicateOps
  <2> QED BY <1>7, <2>1, <2>2, SameBaseSound
<1>8. CASE ~Decided /\ ~Given /\ ~Ranges /\ ~Clamps(i) /\ ~SameBase(i, x, y) /\ MovesAddress(i, x, y)
  <2>1. v = Displaced(i, x, y)
    BY <1>8 DEF Binary
  <2>2. i.op \notin PredicateOps
    BY <1>8 DEF MovesAddress, PredicateOps
  <2> QED BY <1>8, <2>1, <2>2, DisplacedSound
<1>9. CASE ~Decided /\ ~Given /\ ~Ranges /\ ~Clamps(i) /\ ~SameBase(i, x, y) /\ ~MovesAddress(i, x, y)
           /\ IsFlag
  <2>1. CASE IsAddress(x) /\ x.base \in Allocations /\ IsConst(y) /\ x.lo + y.lo >= 0
    <3> DEFINE p == place[x.base]
    <3>1. v = Flag(x.base, x.lo + n)
      BY <1>2, <1>9, <2>1 DEF Binary
    <3>2. p \in Int /\ x.lo \in Int /\ m = Wrap(p + x.lo) /\ n \in Int
      BY <1>1, <2>1, Kinds, WordFacts
    <3>3. Machine(i, <<m, n>>) = {(m + n) % Modulus}
      BY <1>9 DEF Machine, Casts
    <3>4. x.lo + n \in Int
      BY <3>2
    <3>5. (m + n) % Modulus = Wrap(p + (x.lo + n))
      <4> HIDE DEF p
      <4> QED BY <1>1, <3>2, MovedAddress
    <3>6. IsValue(Flag(x.base, x.lo + n)) /\ Words(Flag(x.base, x.lo + n), place) = {Wrap(p + (x.lo + n))}
      BY <3>4, AddressIs
    <3>7. i.op \notin PredicateOps
      BY <1>9 DEF PredicateOps
    <3> QED BY <3>1, <3>3, <3>5, <3>6, <3>7
  <2>2. CASE ~(IsAddress(x) /\ x.base \in Allocations /\ IsConst(y) /\ x.lo + y.lo >= 0)
    <3>1. v = Unknown
      BY <1>9, <2>2 DEF Binary
    <3> QED BY <3>1 DEF IsValue, Predicates
  <2> QED BY <2>1, <2>2
<1>10. CASE ~Decided /\ ~Given /\ ~Ranges /\ ~Clamps(i) /\ ~SameBase(i, x, y) /\ ~MovesAddress(i, x, y)
            /\ ~IsFlag
  <2>1. CASE IsConst(x) /\ IsConst(y)
    <3>1. v = Exact(i, m, n)
      BY <1>2, <1>10, <2>1 DEF Binary
    <3>2. i.op \in PredicateOps => i.op \in {"pand", "por", "pnand", "scmp"}
      BY DEF PredicateOps
    <3> QED BY <1>1, <3>1, <3>2, ExactSound
  <2>2. CASE ~(IsConst(x) /\ IsConst(y))
    <3>1. v = Unknown
      BY <1>10, <2>2 DEF Binary
    <3> QED BY <3>1 DEF IsValue, Predicates
  <2> QED BY <2>1, <2>2
<1> QED BY <1>3, <1>4, <1>5, <1>6, <1>7, <1>8, <1>9, <1>10

----------------------------------------------------------------------------
(* What an instruction writes when it reads the words w, and c its condition:
   a conditional move takes one of two words.                              *)
Written(i, c, w) ==
  IF i.op = "smov" /\ Len(w) = 2 THEN {w[IF c # 0 THEN 2 ELSE 1]} ELSE Machine(i, w)

(* The operands an instruction may have: predicates are 0 or 1, and compared
   addresses lie within their allocations.                                 *)
Operands(i, cond, x, place) ==
  /\ \A k \in 1..Len(x) : IsValue(x[k]) /\ (IsAddress(x[k]) => place[x[k].base] \in Int)
  /\ i.op = "smov" => cond \in Predicates
  /\ i.op \in {"pneg", "pnot"} => Len(x) = 1 /\ x[1] \in Predicates
  /\ i.op = "scalar_select" => Len(x) = 3
  /\ i.op = "scmp" => i.rel \in Relations
  /\ i.op = "scmp" /\ Len(x) = 2 /\ SameBase(i, x[1], x[2]) =>
       Unwrapped(i, x[1], place) /\ Unwrapped(i, x[2], place)

(* The branch of _evaluate that an instruction takes.                        *)
LEMMA Dispatch ==
  ASSUME NEW i, NEW cond, NEW x, NEW slot, NEW memory
  PROVE  LET v == Evaluate(i, cond, x, slot, memory)
         IN  /\ i.op \in Casts \cup {"smov", "pmov"} /\ Len(x) = 1 => v = x[1]
             /\ i.op = "smov" /\ Len(x) = 2 => v = Select(cond, x[1], x[2])
             /\ i.op \in {"pneg", "pnot"} /\ Len(x) = 1 =>
                  v = IF x[1] = Unknown THEN Unknown ELSE Truth(x[1] = Const(0))
             /\ i.op = "scalar_select" /\ Len(x) = 3 =>
                  v = IF ~IsConst(x[1]) THEN Unknown ELSE IF x[1].lo # 0 THEN x[2] ELSE x[3]
             /\ i.op \notin Casts \cup {"smov", "pmov", "pneg", "pnot", "sld", "scalar_select"} =>
                  v = IF Len(x) = 2 THEN Binary(i, x[1], x[2]) ELSE Unknown
             /\ i.op \in Casts \cup {"smov", "pmov"} /\ Len(x) # 1 /\ ~(i.op = "smov" /\ Len(x) = 2) =>
                  v = Unknown
             /\ i.op = "sld" /\ Len(x) # 2 =>
                  v = IF slot \in DOMAIN memory THEN memory[slot] ELSE Unknown
<1> DEFINE v == Evaluate(i, cond, x, slot, memory)
           one == i.op \in Casts \cup {"smov", "pmov"} /\ Len(x) = 1
           two == i.op = "smov" /\ Len(x) = 2
           neg == i.op \in {"pneg", "pnot"}
           ld == i.op = "sld"
           sel == i.op = "scalar_select"
           bin == i.op \notin Casts \cup {"smov", "pmov"} /\ Len(x) = 2
<1>0. v = CASE one -> x[1] [] two -> Select(cond, x[1], x[2])
            [] neg -> IF x[1] = Unknown THEN Unknown ELSE Truth(x[1] = Const(0))
            [] ld -> IF slot \in DOMAIN memory THEN memory[slot] ELSE Unknown
            [] sel -> IF ~IsConst(x[1]) THEN Unknown ELSE IF x[1].lo # 0 THEN x[2] ELSE x[3]
            [] bin -> Binary(i, x[1], x[2])
            [] OTHER -> Unknown
  BY DEF Evaluate
<1> HIDE DEF v
<1>1. ASSUME one PROVE v = x[1]
  <2>1. ~two /\ ~neg /\ ~ld /\ ~sel /\ ~bin
    BY <1>1 DEF Casts
  <2> HIDE DEF one, two, neg, ld, sel, bin
  <2> QED BY <1>0, <1>1, <2>1
<1>2. ASSUME two PROVE v = Select(cond, x[1], x[2])
  <2>1. ~one /\ ~neg /\ ~ld /\ ~sel /\ ~bin
    BY <1>2 DEF Casts
  <2> HIDE DEF one, two, neg, ld, sel, bin
  <2> QED BY <1>0, <1>2, <2>1
<1>3. ASSUME neg, Len(x) = 1 PROVE v = IF x[1] = Unknown THEN Unknown ELSE Truth(x[1] = Const(0))
  <2>1. ~one /\ ~two /\ ~ld /\ ~sel /\ ~bin
    BY <1>3 DEF Casts
  <2> HIDE DEF one, two, neg, ld, sel, bin
  <2> QED BY <1>0, <1>3, <2>1
<1>4. ASSUME sel, Len(x) = 3
      PROVE  v = IF ~IsConst(x[1]) THEN Unknown ELSE IF x[1].lo # 0 THEN x[2] ELSE x[3]
  <2>1. ~one /\ ~two /\ ~neg /\ ~ld /\ ~bin
    BY <1>4 DEF Casts
  <2> HIDE DEF one, two, neg, ld, sel, bin
  <2> QED BY <1>0, <1>4, <2>1
<1>5. ASSUME bin, ~neg, ~ld, ~sel PROVE v = Binary(i, x[1], x[2])
  <2>1. ~one /\ ~two
    BY <1>5 DEF Casts
  <2> HIDE DEF one, two, neg, ld, sel, bin
  <2> QED BY <1>0, <1>5, <2>1
<1>6. ASSUME ~one, ~two, ~neg, ~ld, ~sel, ~bin PROVE v = Unknown
  <2> HIDE DEF one, two, neg, ld, sel, bin
  <2> QED BY <1>0, <1>6
<1>7. i.op \notin Casts \cup {"smov", "pmov", "pneg", "pnot", "sld", "scalar_select"} =>
        v = IF Len(x) = 2 THEN Binary(i, x[1], x[2]) ELSE Unknown
  <2> SUFFICES ASSUME i.op \notin Casts \cup {"smov", "pmov", "pneg", "pnot", "sld", "scalar_select"}
               PROVE  v = IF Len(x) = 2 THEN Binary(i, x[1], x[2]) ELSE Unknown
    OBVIOUS
  <2>1. ~one /\ ~two /\ ~neg /\ ~ld /\ ~sel /\ (bin <=> Len(x) = 2)
    OBVIOUS
  <2> HIDE DEF one, two, neg, ld, sel, bin
  <2> QED BY <1>5, <1>6, <2>1
<1>8. i.op \in Casts \cup {"smov", "pmov"} /\ Len(x) # 1 /\ ~(i.op = "smov" /\ Len(x) = 2) => v = Unknown
  <2> SUFFICES ASSUME i.op \in Casts \cup {"smov", "pmov"}, Len(x) # 1, ~(i.op = "smov" /\ Len(x) = 2)
               PROVE  v = Unknown
    OBVIOUS
  <2>1. ~one /\ ~two /\ ~neg /\ ~ld /\ ~sel /\ ~bin
    BY DEF Casts
  <2> HIDE DEF one, two, neg, ld, sel, bin
  <2> QED BY <1>6, <2>1
<1>9. ASSUME ld, Len(x) # 2 PROVE v = IF slot \in DOMAIN memory THEN memory[slot] ELSE Unknown
  <2>1. ~one /\ ~two /\ ~neg /\ ~sel /\ ~bin
    BY <1>9 DEF Casts
  <2> HIDE DEF one, two, neg, ld, sel, bin
  <2> QED BY <1>0, <1>9, <2>1
<1> QED BY <1>1, <1>2, <1>3, <1>4, <1>7, <1>8, <1>9 DEF v

(* Whatever one instruction writes, from any words that its operands stand for
   and wherever allocations lie, is among the words of the value that the
   analysis finds; that value is again one of its values, and a predicate's is
   0 or 1.  (_evaluate, for words of every width; loads aside)              *)
THEOREM EvaluateSound ==
  ASSUME NEW i, i.op # "sld", NEW S, NEW x \in Seq(S), NEW w \in Seq(Word), Len(w) = Len(x),
         NEW cond, NEW place, NEW slot, NEW memory, NEW c,
         i.op = "smov" => c \in Words(cond, place),
         Operands(i, cond, x, place),
         \A k \in 1..Len(x) : w[k] \in Words(x[k], place)
  PROVE  LET v == Evaluate(i, cond, x, slot, memory)
         IN  /\ IsValue(v)
             /\ v # Unknown => Written(i, c, w) \subseteq Words(v, place)
             /\ i.op \in PredicateOps => v \in Predicates
<1> DEFINE v == Evaluate(i, cond, x, slot, memory)
           Sound == /\ IsValue(v)
                    /\ v # Unknown => Written(i, c, w) \subseteq Words(v, place)
                    /\ i.op \in PredicateOps => v \in Predicates
<1> SUFFICES Sound
  OBVIOUS
<1>1. ASSUME v = Unknown PROVE Sound
  BY <1>1 DEF IsValue, Predicates
<1>2. ASSUME NEW k \in 1..Len(x)
      PROVE  IsValue(x[k]) /\ w[k] \in Words(x[k], place) /\ w[k] \in Word
  BY WordsAreWords DEF Operands
<1>3. CASE i.op \in Casts \cup {"smov", "pmov"} /\ Len(x) = 1
  <2>1. v = x[1] /\ 1 \in 1..Len(x)
    BY <1>3, Dispatch
  <2>2. Written(i, c, w) = {w[1]}
    BY <1>3 DEF Written, Machine, Casts
  <2>3. i.op \notin PredicateOps
    BY <1>3 DEF PredicateOps, Casts
  <2> QED BY <1>2, <2>1, <2>2, <2>3
<1>4. CASE i.op = "smov" /\ Len(x) = 2
  <2>1. v = Select(cond, x[1], x[2])
    BY <1>4, Dispatch
  <2>2. Written(i, c, w) = {IF c # 0 THEN w[2] ELSE w[1]}
    BY <1>4 DEF Written
  <2>3. 1 \in 1..Len(x) /\ 2 \in 1..Len(x) /\ cond \in Predicates /\ i.op \notin PredicateOps
    BY <1>4 DEF Operands, PredicateOps
  <2>4. /\ IsValue(x[1]) /\ w[1] \in Words(x[1], place) \cap Word
        /\ IsValue(x[2]) /\ w[2] \in Words(x[2], place) \cap Word
        /\ c \in Words(cond, place)
    BY <1>2, <1>4, <2>3
  <2>5. LET u == Select(cond, x[1], x[2])
        IN  IsValue(u) /\ (u # Unknown => (IF c # 0 THEN w[2] ELSE w[1]) \in Words(u, place))
    BY <2>3, <2>4, SelectSound
  <2> HIDE DEF v
  <2> QED BY <2>1, <2>2, <2>3, <2>5
<1>5. CASE i.op \in {"pneg", "pnot"}
  <2>1. 1 \in 1..Len(x) /\ Len(x) = 1 /\ x[1] \in Predicates
    BY <1>5 DEF Operands
  <2>2. v = IF x[1] = Unknown THEN Unknown ELSE Truth(x[1] = Const(0))
    BY <1>5, <2>1, Dispatch
  <2> HIDE DEF v
  <2>3. CASE x[1] = Unknown
    <3>1. v = Unknown
      BY <2>2, <2>3
    <3> QED BY <1>1, <3>1
  <2>4. CASE x[1] # Unknown
    <3>1. v = Truth(x[1] = Const(0))
      BY <2>2, <2>4
    <3>2. Written(i, c, w) = {IF w[1] = 0 THEN 1 ELSE 0}
      BY <1>5 DEF Written, Machine, Casts
    <3>3. w[1] = 0 <=> x[1] = Const(0)
      BY <1>2, <2>1, <2>4, PredicateIs, SmallWords, ConstIs
    <3>4. Written(i, c, w) = {IF x[1] = Const(0) THEN 1 ELSE 0}
      BY <3>2, <3>3
    <3> QED BY <3>1, <3>4, TruthIs
  <2> QED BY <2>3, <2>4
<1>6. CASE i.op = "scalar_select"
  <2>1. Len(x) = 3
    BY <1>6 DEF Operands
  <2>2. 1 \in 1..Len(x) /\ 2 \in 1..Len(x) /\ 3 \in 1..Len(x)
    BY <2>1
  <2>3. i.op \notin PredicateOps
    BY <1>6 DEF PredicateOps
  <2>4. v = IF ~IsConst(x[1]) THEN Unknown ELSE IF x[1].lo # 0 THEN x[2] ELSE x[3]
    BY <1>6, <2>1, Dispatch
  <2> HIDE DEF v
  <2>5. CASE IsConst(x[1])
    <3>1. v = IF x[1].lo # 0 THEN x[2] ELSE x[3]
      BY <2>4, <2>5
    <3>2. Written(i, c, w) = {IF w[1] # 0 THEN w[2] ELSE w[3]}
      BY <1>6 DEF Written, Machine, Casts
    <3>3. w[1] = x[1].lo
      <4>1. w[1] \in x[1].lo..x[1].hi /\ x[1].hi = x[1].lo /\ x[1].lo \in Word
        BY <1>2, <2>2, <2>5, Kinds DEF IsInterval
      <4>2. x[1].lo \in Int
        BY <4>1, WordFacts
      <4> QED BY <4>1, <4>2
    <3> QED BY <1>2, <2>2, <2>3, <3>1, <3>2, <3>3
  <2>6. CASE ~IsConst(x[1])
    <3>1. v = Unknown
      BY <2>4, <2>6
    <3> QED BY <1>1, <3>1
  <2> QED BY <2>5, <2>6
<1> DEFINE Other == i.op \notin Casts \cup {"smov", "pmov", "pneg", "pnot", "sld", "scalar_select"}
<1>7. CASE Other /\ Len(x) = 2
  <2>1. v = Binary(i, x[1], x[2])
    BY <1>7, Dispatch
  <2>2. w = <<w[1], w[2]>>
    BY <1>7
  <2>3. Written(i, c, w) = Machine(i, <<w[1], w[2]>>)
    BY <1>7, <2>2 DEF Written
  <2>4. /\ 1 \in 1..Len(x) /\ 2 \in 1..Len(x)
        /\ IsAddress(x[1]) => place[x[1].base] \in Int
        /\ IsAddress(x[2]) => place[x[2].base] \in Int
        /\ i.op = "scmp" => i.rel \in Relations
        /\ i.op = "scmp" /\ SameBase(i, x[1], x[2]) =>
             Unwrapped(i, x[1], place) /\ Unwrapped(i, x[2], place)
        /\ i.op \notin {"pneg", "pnot"}
    BY <1>7 DEF Operands
  <2>5. /\ IsValue(x[1]) /\ w[1] \in Words(x[1], place)
        /\ IsValue(x[2]) /\ w[2] \in Words(x[2], place)
    BY <1>2, <2>4
  <2>6. LET u == Binary(i, x[1], x[2])
        IN  /\ IsValue(u)
            /\ u # Unknown => Machine(i, <<w[1], w[2]>>) \subseteq Words(u, place)
            /\ i.op \in PredicateOps => u \in Predicates
    BY <2>4, <2>5, BinarySound
  <2> HIDE DEF v
  <2> QED BY <2>1, <2>3, <2>6
<1>8. CASE Other /\ Len(x) # 2
  <2>1. v = Unknown
    BY <1>8, Dispatch
  <2> QED BY <1>1, <2>1
<1>9. CASE i.op \in Casts \cup {"smov", "pmov"} /\ Len(x) # 1 /\ ~(i.op = "smov" /\ Len(x) = 2)
  <2>1. v = Unknown
    BY <1>9, Dispatch
  <2> QED BY <1>1, <2>1
<1> QED BY <1>3, <1>4, <1>5, <1>6, <1>7, <1>8, <1>9

----------------------------------------------------------------------------
LEMMA FunctionIsSequence ==
  ASSUME NEW n \in Nat, NEW S, NEW f \in [1..n -> S]
  PROVE  f \in Seq(S) /\ Len(f) = n
  OBVIOUS

(* The operands an instruction may have, wherever allocations lie.         *)
TypedOperands(i, cond, x) ==
  /\ \A k \in 1..Len(x) : IsValue(x[k])
  /\ i.op = "smov" => cond \in Predicates
  /\ i.op \in {"pneg", "pnot"} => Len(x) = 1 /\ x[1] \in Predicates
  /\ i.op = "scalar_select" => Len(x) = 3
  /\ i.op = "scmp" => i.rel \in Relations

LEMMA StandsForAWord ==
  ASSUME NEW v, IsValue(v), NEW place, IsAddress(v) => place[v.base] \in Int
  PROVE  \E n \in Word : n \in Words(v, place)
<1>1. CASE v = Unknown
  BY <1>1, SmallWords, UnknownWords
<1>2. CASE IsNumeric(v)
  <2>1. v.lo \in Word /\ v.hi \in Word /\ v.lo <= v.hi /\ Words(v, place) = v.lo..v.hi
    BY <1>2, Kinds DEF IsInterval
  <2>2. v.lo \in Nat /\ v.hi \in Nat
    BY <2>1, WordFacts
  <2> QED BY <2>1, <2>2
<1>3. CASE IsAddress(v)
  <2>1. Words(v, place) # {} /\ Words(v, place) \subseteq Word
    BY <1>3, Kinds, WordsAreWords
  <2> QED BY <2>1
<1> QED BY <1>1, <1>2, <1>3, Kinds

LEMMA BinaryIs ==
  ASSUME NEW i, NEW x, NEW y, IsValue(x), IsValue(y),
         i.op = "scmp" => i.rel \in Relations, i.op \notin {"pneg", "pnot"}
  PROVE  IsValue(Binary(i, x, y)) /\ (i.op \in PredicateOps => Binary(i, x, y) \in Predicates)
<1>1. CASE i.op = "scmp" /\ SameBase(i, x, y)
  <2> DEFINE a == IF i.sign = "s32" THEN Signed(x.lo) ELSE x.lo
             b == IF i.sign = "s32" THEN Signed(y.lo) ELSE y.lo
  <2>1. Binary(i, x, y) = Exact(i, x.lo, y.lo)
    <3>1. IsAddress(x) /\ IsAddress(y) /\ ~IsNumeric(x) /\ ~IsNumeric(y)
      BY <1>1, Kinds DEF SameBase
    <3> QED BY <1>1, <3>1 DEF Binary, Clamps
  <2>2. Exact(i, x.lo, y.lo) = Truth(Holds(i.rel, a, b))
    BY <1>1 DEF Exact
  <2>3. Holds(i.rel, a, b) \in BOOLEAN
    BY DEF Holds
  <2> QED BY <2>1, <2>2, <2>3, TruthIs
<1>2. CASE ~(i.op = "scmp" /\ SameBase(i, x, y))
  <2> DEFINE place == [b \in {x.base, y.base} |-> 0]
  <2>1. place[x.base] \in Int /\ place[y.base] \in Int
    OBVIOUS
  <2> HIDE DEF place
  <2>2. PICK m \in Word : m \in Words(x, place)
    BY <2>1, StandsForAWord
  <2>3. PICK n \in Word : n \in Words(y, place)
    BY <2>1, StandsForAWord
  <2> QED BY <1>2, <2>1, <2>2, <2>3, BinarySound
<1> QED BY <1>1, <1>2

(* What the analysis finds is one of its values, of a predicate 0 or 1.    *)
LEMMA EvaluateIs ==
  ASSUME NEW i, i.op # "sld", NEW S, NEW x \in Seq(S), NEW cond, NEW slot, NEW memory,
         TypedOperands(i, cond, x)
  PROVE  LET v == Evaluate(i, cond, x, slot, memory)
         IN  IsValue(v) /\ (i.op \in PredicateOps => v \in Predicates)
<1> DEFINE Other == i.op \notin Casts \cup {"smov", "pmov", "pneg", "pnot", "sld", "scalar_select"}
<1>1. CASE Other /\ Len(x) = 2
  <2>1. Evaluate(i, cond, x, slot, memory) = Binary(i, x[1], x[2])
    BY <1>1, Dispatch
  <2>2. /\ 1 \in 1..Len(x) /\ 2 \in 1..Len(x) /\ i.op \notin {"pneg", "pnot"}
    BY <1>1
  <2> QED BY <2>1, <2>2, BinaryIs DEF TypedOperands
<1>2. CASE ~(Other /\ Len(x) = 2)
  <2> DEFINE place == [b \in {x[k].base : k \in 1..Len(x)} |-> 0]
             w == [k \in 1..Len(x) |-> CHOOSE n \in Word : n \in Words(x[k], place)]
             c == CHOOSE n : n \in Words(cond, place)
  <2>1. \A k \in 1..Len(x) : place[x[k].base] \in Int
    OBVIOUS
  <2> HIDE DEF place
  <2>2. ASSUME NEW k \in 1..Len(x)
        PROVE  w[k] \in Word /\ w[k] \in Words(x[k], place)
    <3>1. \E n \in Word : n \in Words(x[k], place)
      BY <2>1, StandsForAWord DEF TypedOperands
    <3> QED BY <3>1
  <2>3. w \in Seq(Word) /\ Len(w) = Len(x)
    <3>1. Len(x) \in Nat
      OBVIOUS
    <3>2. w \in [1..Len(x) -> Word]
      BY <2>2
    <3> HIDE DEF w
    <3> QED BY <3>1, <3>2, FunctionIsSequence
  <2>4. i.op = "smov" => c \in Words(cond, place)
    <3> SUFFICES ASSUME i.op = "smov" PROVE c \in Words(cond, place)
      OBVIOUS
    <3>1. IsValue(cond) /\ ~IsAddress(cond)
      <4>1. cond = Unknown \/ cond = Const(0) \/ cond = Const(1)
        BY DEF TypedOperands, Predicates
      <4>2. ~IsAddress(cond)
        BY <4>1 DEF Unknown, Const, Value, IsAddress
      <4> QED BY <4>2, PredicateIs DEF TypedOperands
    <3>2. \E n \in Word : n \in Words(cond, place)
      BY <3>1, StandsForAWord
    <3> QED BY <3>2
  <2>5. Operands(i, cond, x, place)
    <3>1. ~(i.op = "scmp" /\ Len(x) = 2)
      BY <1>2 DEF Casts
    <3>2. \A k \in 1..Len(x) : IsValue(x[k]) /\ (IsAddress(x[k]) => place[x[k].base] \in Int)
      BY <2>1 DEF TypedOperands
    <3> HIDE DEF Other
    <3> QED BY <3>1, <3>2 DEF Operands, TypedOperands
  <2> HIDE DEF w, c
  <2> QED BY <2>2, <2>3, <2>4, <2>5, EvaluateSound
<1> QED BY <1>1, <1>2

LEMMA InstructionSound ==
  ASSUME NEW i, i.op # "sld", NEW S, NEW x \in Seq(S), NEW cond,
         TypedOperands(i, cond, x), NEW Places \in SUBSET Int,
         i.cond # NoToken <=> (i.op = "smov" /\ Len(x) = 2)
  PROVE  SoundAt(i, cond, x, Places)
<1> DEFINE v == Evaluate(i, cond, x, NoSlot, <<>>)
           bases == {y.base : y \in {y \in ToSet(x) : IsAddress(y)}}
           chosen(w) == {w[c] : c \in IF cond = Unknown THEN {1, 2}
                                      ELSE IF cond = Const(0) THEN {1} ELSE {2}}
           found(w) == IF i.cond = NoToken THEN Machine(i, w) ELSE chosen(w)
<1> SUFFICES ASSUME v # Unknown, NEW place \in [bases -> Places],
                    i.op = "scmp" => \A y \in ToSet(x) : Unwrapped(i, y, place),
                    NEW w \in [DOMAIN x -> Word],
                    \A k \in DOMAIN x : w[k] \in Words(x[k], place)
             PROVE  found(w) \subseteq Words(v, place)
  BY Zenon DEF SoundAt
<1>1. DOMAIN x = 1..Len(x) /\ Len(x) \in Nat /\ \A k \in 1..Len(x) : x[k] \in ToSet(x)
  BY DEF ToSet
<1>2. w \in Seq(Word) /\ Len(w) = Len(x)
  BY <1>1, FunctionIsSequence
<1>3. \A k \in 1..Len(x) : IsAddress(x[k]) => place[x[k].base] \in Int
  BY <1>1
<1>4. Operands(i, cond, x, place)
  <2>1. i.op = "scmp" /\ Len(x) = 2 => Unwrapped(i, x[1], place) /\ Unwrapped(i, x[2], place)
    BY <1>1
  <2>2. \A k \in 1..Len(x) : IsValue(x[k]) /\ (IsAddress(x[k]) => place[x[k].base] \in Int)
    BY <1>3 DEF TypedOperands
  <2> HIDE DEF v, bases, found
  <2> QED BY <2>1, <2>2 DEF Operands, TypedOperands
<1>5. \A k \in 1..Len(x) : w[k] \in Words(x[k], place)
  BY <1>1
<1> HIDE DEF v, bases
<1>6. ASSUME NEW c, i.op = "smov" => c \in Words(cond, place)
      PROVE  Written(i, c, w) \subseteq Words(v, place)
  BY <1>2, <1>4, <1>5, <1>6, EvaluateSound DEF v
<1>7. i.op = "smov" => \/ cond = Unknown /\ Words(cond, place) = Word
                       \/ cond = Const(0) /\ Words(cond, place) = {0}
                       \/ cond = Const(1) /\ Words(cond, place) = {1}
  BY UnknownWords, PredicateIs DEF TypedOperands
<1>8. CASE i.cond = NoToken
  <2>1. PICK c : i.op = "smov" => c \in Words(cond, place)
    BY <1>7, SmallWords
  <2>2. Written(i, c, w) = Machine(i, w)
    BY <1>2, <1>8 DEF Written
  <2> QED BY <1>6, <1>8, <2>1, <2>2
<1>9. CASE i.cond # NoToken
  <2>1. i.op = "smov" /\ Len(w) = 2
    BY <1>2, <1>9
  <2>2. ASSUME NEW c, c \in Words(cond, place)
        PROVE  w[IF c # 0 THEN 2 ELSE 1] \in Words(v, place)
    <3>1. Written(i, c, w) = {w[IF c # 0 THEN 2 ELSE 1]}
      BY <2>1 DEF Written
    <3> QED BY <1>6, <2>2, <3>1
  <2>3. CASE cond = Unknown
    <3>1. w[1] \in Words(v, place) /\ w[2] \in Words(v, place)
      BY <2>2, <2>3, UnknownWords, SmallWords
    <3> QED BY <1>9, <2>3, <3>1
  <2>4. CASE cond = Const(0)
    <3>1. w[1] \in Words(v, place) /\ cond # Unknown
      BY <1>7, <2>1, <2>2, <2>4, ConstIs, SmallWords
    <3> QED BY <1>9, <2>4, <3>1
  <2>5. CASE cond = Const(1)
    <3>1. w[2] \in Words(v, place) /\ cond # Unknown /\ cond # Const(0)
      <4>1. Const(1) # Const(0) /\ Const(1) # Unknown
        BY DEF Const, Unknown, Value
      <4>2. 1 \in Words(cond, place)
        BY <1>7, <2>1, <2>5, <4>1
      <4> QED BY <2>2, <2>5, <4>1, <4>2
    <3> QED BY <1>9, <2>5, <3>1
  <2> QED BY <1>7, <2>1, <2>3, <2>4, <2>5
<1> QED BY <1>8, <1>9

----------------------------------------------------------------------------
(* What walk knows: a value of each register, a predicate's is 0 or 1.     *)
ValuesAre(values) ==
  \A r \in DOMAIN values : /\ IsValue(values[r])
                           /\ r \in PredicateRegisters => values[r] \in Predicates

LEMMA UnknownIs == IsValue(Unknown) /\ Unknown \in Predicates
  BY DEF IsValue, Predicates

LEMMA TruthIsPredicate ==
  ASSUME NEW b \in BOOLEAN
  PROVE  IsValue(Truth(b)) /\ Truth(b) \in Predicates
<1>1. \A place : IsValue(Truth(b)) /\ Truth(b) \in Predicates
  BY TruthIs
<1> QED BY <1>1

LEMMA ReadIs ==
  ASSUME IsKernel(kernel), NEW values, ValuesAre(values), NEW token
  PROVE  /\ IsToken(token) => IsValue(Read(token, values))
         /\ IsCondition(token) => Read(token, values) \in Predicates
<1> DEFINE name == NameOf(token)
           known == IF name \in DOMAIN kernel.assumed THEN Truth(kernel.assumed[name])
                    ELSE IF name \in DOMAIN values THEN values[name] ELSE Unknown
<1>1. IsValue(known) /\ (name \in PredicateRegisters => known \in Predicates)
  <2>1. CASE name \in DOMAIN kernel.assumed
    <3>1. kernel.assumed[name] \in BOOLEAN
      BY <2>1 DEF IsKernel
    <3> QED BY <2>1, <3>1, TruthIsPredicate
  <2>2. CASE name \notin DOMAIN kernel.assumed
    BY <2>2, UnknownIs DEF ValuesAre
  <2> QED BY <2>1, <2>2
<1>2. CASE token.t = "reg"
  <2>1. Read(token, values) = known
    BY <1>2 DEF Read
  <2>2. IsCondition(token) => name \in PredicateRegisters
    BY <1>2 DEF IsCondition, Const, Value
  <2> HIDE DEF known, name
  <2> QED BY <1>1, <2>1, <2>2
<1>3. CASE token.t = "not"
  <2>1. Read(token, values) = IF known = Unknown THEN Unknown ELSE Truth(known = Const(0))
    BY <1>3 DEF Read
  <2> HIDE DEF known
  <2>2. (known = Const(0)) \in BOOLEAN
    OBVIOUS
  <2>3. CASE known = Unknown
    BY <2>1, <2>3, UnknownIs
  <2>4. CASE known # Unknown
    <3>1. Read(token, values) = Truth(known = Const(0))
      BY <2>1, <2>4
    <3> QED BY <2>2, <3>1, TruthIsPredicate
  <2> QED BY <2>3, <2>4
<1>4. CASE token.t = "none"
  <2>1. Read(token, values) = Unknown
    BY <1>4 DEF Read
  <2> QED BY <2>1, UnknownIs
<1>5. CASE token.t \notin {"reg", "not", "none"}
  <2>1. Read(token, values) = token
    BY <1>5 DEF Read
  <2>2. IsToken(token) => IsValue(token)
    BY <1>5 DEF IsToken
  <2>3. IsCondition(token) => token \in Predicates
    BY <1>5 DEF IsCondition, Predicates
  <2> QED BY <2>1, <2>2, <2>3
<1> QED BY <1>2, <1>3, <1>4, <1>5

LEMMA GreatestExists ==
  ASSUME NEW n \in Nat, NEW S \in SUBSET (1..n), S # {}
  PROVE  \E m \in S : \A k \in S : k <= m
<1> DEFINE G == {T \in SUBSET (1..n) : T # {} => \E m \in T : \A k \in T : k <= m}
<1>1. IsFiniteSet(1..n)
  BY FS_Interval
<1>2. ASSUME NEW T \in SUBSET (1..n), \A U \in SUBSET T : U # T => U \in G
      PROVE  T \in G
  <2> SUFFICES ASSUME T # {} PROVE \E m \in T : \A k \in T : k <= m
    OBVIOUS
  <2>1. PICK x \in T : TRUE
    OBVIOUS
  <2>2. T \ {x} \in G
    BY <1>2, <2>1
  <2>3. CASE T \ {x} = {}
    BY <2>1, <2>3
  <2>4. CASE T \ {x} # {}
    <3>1. PICK m \in T \ {x} : \A k \in T \ {x} : k <= m
      BY <2>2, <2>4
    <3>2. m \in Int /\ x \in Int /\ \A k \in T : k \in Int
      BY <2>1
    <3>3. CASE x <= m
      BY <3>1, <3>2, <3>3
    <3>4. CASE ~(x <= m)
      BY <2>1, <3>1, <3>2, <3>4
    <3> QED BY <3>3, <3>4
  <2> QED BY <2>3, <2>4
<1>3. S \in G
  <2> DEFINE R == 1..n
  <2>1. IsFiniteSet(R)
    BY <1>1
  <2>2. ASSUME NEW T \in SUBSET R, \A U \in SUBSET T : U # T => U \in G
        PROVE  T \in G
    BY <1>2, <2>2
  <2>3. S \in SUBSET R
    OBVIOUS
  <2> HIDE DEF G, R
  <2>4. \A T \in SUBSET R : T \in G
    BY <2>1, <2>2, SubsetInduction
  <2> QED BY <2>3, <2>4
<1> HIDE DEF G
<1> QED BY <1>3 DEF G

LEMMA MaxIn ==
  ASSUME NEW n \in Nat, NEW S \in SUBSET (1..n), S # {}
  PROVE  Max(S) \in S /\ Greatest(S) \in S
<1>1. PICK m \in S : \A k \in S : k <= m
  BY GreatestExists
<1>2. \A k \in S : m >= k
  BY <1>1
<1> QED BY <1>1, <1>2 DEF Max, Greatest

LEMMA Bundles ==
  ASSUME IsKernel(kernel), NEW pc \in 1..Len(code)
  PROVE  /\ Len(code) \in Nat /\ End \in Nat \ {0} /\ pc + 1 \in 1..End /\ pc \in DOMAIN code
         /\ IsBundle(code[pc], End)
         /\ \A i \in ToSet(code[pc].ins) : IsInstruction(i, End)
         /\ Len(code[pc].ins) \in Nat
         /\ \A k \in 1..Len(code[pc].ins) : code[pc].ins[k] \in ToSet(code[pc].ins)
         /\ \A i \in ToSet(code[pc].ins) : \E k \in 1..Len(code[pc].ins) : i = code[pc].ins[k]
<1>1. code \in Seq(ToSet(code)) /\ \A b \in ToSet(code) : IsBundle(b, End)
  BY DEF IsKernel, code, End
<1>2. Len(code) \in Nat /\ DOMAIN code = 1..Len(code) /\ code[pc] \in ToSet(code)
  BY <1>1 DEF ToSet
<1>3. IsBundle(code[pc], End)
  BY <1>1, <1>2
<1>4. code[pc].ins \in Seq(ToSet(code[pc].ins))
      /\ \A i \in ToSet(code[pc].ins) : IsInstruction(i, End)
  BY <1>3 DEF IsBundle
<1> DEFINE ins == code[pc].ins
<1>5. Len(ins) \in Nat /\ DOMAIN ins = 1..Len(ins)
  BY <1>4
<1>6. End \in Nat \ {0} /\ pc + 1 \in 1..End
  BY <1>2 DEF End
<1> QED BY <1>2, <1>3, <1>4, <1>5, <1>6 DEF ToSet

LEMMA Arguments ==
  ASSUME NEW i, NEW end, IsInstruction(i, end)
  PROVE  /\ Len(i.args) \in Nat /\ DOMAIN i.args = 1..Len(i.args)
         /\ \A k \in 1..Len(i.args) : i.args[k] \in ToSet(i.args) /\ IsToken(i.args[k])
         /\ IsToken(i.guard) /\ IsToken(i.cond) /\ IsToken(i.at) /\ IsToken(i.plus)
<1>1. i.args \in Seq(ToSet(i.args))
      /\ \A v \in ToSet(i.args) \cup {i.guard, i.cond, i.at, i.plus} : IsToken(v)
  BY DEF IsInstruction
<1>2. Len(i.args) \in Nat /\ DOMAIN i.args = 1..Len(i.args)
  BY <1>1
<1>3. \A k \in 1..Len(i.args) : i.args[k] \in ToSet(i.args)
  BY <1>2 DEF ToSet
<1> QED BY <1>1, <1>2, <1>3

LEMMA Overridden ==
  ASSUME NEW f, NEW g, ValuesAre(f), ValuesAre(g)
  PROVE  ValuesAre(Overlay(f, g))
<1> SUFFICES ASSUME NEW r \in DOMAIN Overlay(f, g)
             PROVE  /\ IsValue(Overlay(f, g)[r])
                    /\ r \in PredicateRegisters => Overlay(f, g)[r] \in Predicates
  BY DEF ValuesAre
<1>1. /\ r \in DOMAIN f => Overlay(f, g)[r] = f[r]
      /\ r \notin DOMAIN f => r \in DOMAIN g /\ Overlay(f, g)[r] = g[r]
  BY DEF Overlay
<1> QED BY <1>1 DEF ValuesAre

(* Operands that are read.                                                 *)
LEMMA OperandsAre ==
  ASSUME IsKernel(kernel), NEW values, ValuesAre(values), NEW i, NEW end, IsInstruction(i, end)
  PROVE  LET x == [k \in DOMAIN i.args |-> Read(i.args[k], values)]
         IN  /\ \E S : x \in Seq(S)
             /\ Len(x) = Len(i.args)
             /\ DOMAIN x = 1..Len(i.args)
             /\ \A k \in 1..Len(x) : IsValue(x[k])
             /\ TypedOperands(i, Read(i.cond, values), x)
<1> DEFINE x == [k \in DOMAIN i.args |-> Read(i.args[k], values)]
           S == {Read(i.args[k], values) : k \in DOMAIN i.args}
<1>1. x \in [1..Len(i.args) -> S] /\ Len(i.args) \in Nat
  BY Arguments
<1>2. x \in Seq(S) /\ Len(x) = Len(i.args)
  <2> HIDE DEF x, S
  <2> QED BY <1>1, FunctionIsSequence
<1>3. \A k \in 1..Len(i.args) : x[k] = Read(i.args[k], values)
  BY Arguments
<1>4. \A k \in 1..Len(x) : IsValue(x[k])
  BY <1>2, <1>3, Arguments, ReadIs
<1>5. Read(i.cond, values) \in Predicates
  BY ReadIs DEF IsInstruction
<1>6. i.op \in {"pneg", "pnot"} => Len(x) = 1 /\ x[1] \in Predicates
  <2> SUFFICES ASSUME i.op \in {"pneg", "pnot"} PROVE Len(x) = 1 /\ x[1] \in Predicates
    OBVIOUS
  <2>1. Len(i.args) = 1 /\ IsCondition(i.args[1])
    BY DEF IsInstruction
  <2>2. x[1] = Read(i.args[1], values)
    BY <1>3, <2>1
  <2> HIDE DEF x
  <2> QED BY <1>2, <2>1, <2>2, ReadIs
<1>7. (i.op = "scalar_select" => Len(i.args) = 3) /\ (i.op = "scmp" => i.rel \in Relations)
  BY DEF IsInstruction
<1> HIDE DEF x, S
<1>8. TypedOperands(i, Read(i.cond, values), x)
  BY <1>2, <1>4, <1>5, <1>6, <1>7 DEF TypedOperands
<1>9. DOMAIN x = 1..Len(i.args)
  BY <1>1
<1> QED BY <1>2, <1>4, <1>8, <1>9 DEF x

LEMMA PhiValuesAre ==
  ASSUME IsKernel(kernel), NEW pc \in 1..Len(code), NEW previous, NEW values, ValuesAre(values),
         code[pc].header => \A i \in Phis(pc) : Len(i.args) = 2
  PROVE  ValuesAre(PhiValues(pc, previous, values))
<1> DEFINE found == PhiValues(pc, previous, values)
<1> SUFFICES ASSUME NEW r \in DOMAIN found
             PROVE  IsValue(found[r]) /\ (r \in PredicateRegisters => found[r] \in Predicates)
  BY DEF ValuesAre
<1> DEFINE i == CHOOSE i \in Phis(pc) : i.dest = r
           x == [k \in DOMAIN i.args |-> Read(i.args[k], values)]
<1>1. r \in {j.dest : j \in Phis(pc)} /\ found[r] = Chosen(i, pc, previous, x)
  BY DEF PhiValues
<1>2. i \in Phis(pc) /\ i.dest = r
  BY <1>1
<1> HIDE DEF i, found
<1>3. i.op = "sphi" /\ IsInstruction(i, End)
  BY <1>2, Bundles DEF Phis
<1>4. /\ Len(i.args) \in Nat /\ Len(i.args) # 0 /\ DOMAIN x = 1..Len(i.args)
      /\ \A k \in 1..Len(i.args) : x[k] = Read(i.args[k], values)
  <2>1. i.args # <<>> /\ i.args \in Seq(ToSet(i.args))
    BY <1>3 DEF IsInstruction
  <2>2. Len(i.args) \in Nat /\ DOMAIN i.args = 1..Len(i.args)
    BY <1>3, Arguments
  <2>3. Len(i.args) # 0
    BY <2>1
  <2> QED BY <2>2, <2>3
<1>5. \A k \in 1..Len(i.args) :
        /\ IsValue(x[k])
        /\ r \in PredicateRegisters => x[k] \in Predicates
  <2>1. r \in PredicateRegisters => \A v \in ToSet(i.args) : IsCondition(v)
    BY <1>2, <1>3 DEF IsInstruction, WritesPredicate, PredicateOps
  <2> HIDE DEF x
  <2> QED BY <1>3, <1>4, <2>1, Arguments, ReadIs
<1> HIDE DEF x
<1>6. PhiOperand(i, pc, previous) \in {0, 1, 2}
      /\ (PhiOperand(i, pc, previous) # 0 => Len(i.args) = 2)
  BY <1>2 DEF PhiOperand
<1>7. found[r] = Unknown \/ \E k \in 1..Len(i.args) : found[r] = x[k]
  <2> DEFINE k == PhiOperand(i, pc, previous)
  <2>1. Chosen(i, pc, previous, x) =
          IF k > 0 THEN x[k]
          ELSE IF \A j \in DOMAIN x : x[j] = x[1] THEN x[1] ELSE Unknown
    BY DEF Chosen
  <2> HIDE DEF k
  <2>2. k \in {0, 1, 2} /\ (k # 0 => k \in 1..Len(i.args)) /\ 1 \in 1..Len(i.args)
    BY <1>4, <1>6 DEF k
  <2> QED BY <1>1, <2>1, <2>2
<1> QED BY <1>5, <1>7, UnknownIs

----------------------------------------------------------------------------
(* The calls of walk *)

MemoryIs(memory) == \A x \in DOMAIN memory : IsValue(memory[x])
PendingJumps(end) == {NoJump} \cup [left : Nat, target : 1..end]

(* What an arm left behind.                                                *)
StateIs(s, end) ==
  ValuesAre(s.values) /\ MemoryIs(s.memory) /\ s.pending \in PendingJumps(end)

SplitIs(s, end) ==
  /\ DOMAIN s = {"on", "guard", "join", "second", "arms", "states"} /\ s.on = TRUE
  /\ s.join \in 1..end /\ s.second \in BOOLEAN
  /\ \E S : s.states \in Seq(S) /\ \A t \in S : StateIs(t, end)

FrameIs(f, end) ==
  /\ DOMAIN f = {"pc", "values", "memory", "previous", "pending", "stop", "loops", "phiDone",
                 "latch", "result", "split", "body"}
  /\ f.pc \in 1..end
  /\ ValuesAre(f.values) /\ MemoryIs(f.memory) /\ f.pending \in PendingJumps(end)
  /\ f.split.on => SplitIs(f.split, end)
  /\ f.body.on => f.body.end \in 1..end

Stack(calls, end) ==
  \E S : calls \in Seq(S) /\ \A f \in S : FrameIs(f, end)

LEMMA StackParts ==
  ASSUME NEW end, NEW calls, Stack(calls, end)
  PROVE  /\ Len(calls) \in Nat
         /\ \A n \in 1..Len(calls) : FrameIs(calls[n], end)
         /\ \A n \in 0..Len(calls) : Stack(SubSeq(calls, 1, n), end) /\ Len(SubSeq(calls, 1, n)) = n
<1>1. PICK S : calls \in Seq(S) /\ \A f \in S : FrameIs(f, end)
  BY DEF Stack
<1>2. Len(calls) \in Nat /\ \A n \in 1..Len(calls) : calls[n] \in S
  BY <1>1
<1>3. ASSUME NEW n \in 0..Len(calls)
      PROVE  SubSeq(calls, 1, n) \in Seq(S) /\ Len(SubSeq(calls, 1, n)) = n
  BY <1>1, <1>2
<1> QED BY <1>1, <1>2, <1>3 DEF Stack

LEMMA StackGrows ==
  ASSUME NEW end, NEW calls, Stack(calls, end), NEW f, FrameIs(f, end)
  PROVE  /\ Stack(Append(calls, f), end) /\ Append(calls, f) # <<>>
         /\ Len(Append(calls, f)) = Len(calls) + 1 /\ Append(calls, f)[Len(calls) + 1] = f
<1>1. PICK S : calls \in Seq(S) /\ \A g \in S : FrameIs(g, end)
  BY DEF Stack
<1> DEFINE T == S \cup {f}
<1>2. calls \in Seq(T) /\ f \in T
  BY <1>1
<1>3. \A g \in T : FrameIs(g, end)
  BY <1>1
<1> HIDE DEF T
<1>4. Append(calls, f) \in Seq(T) /\ Len(Append(calls, f)) = Len(calls) + 1
      /\ Append(calls, f)[Len(calls) + 1] = f /\ Append(calls, f) # <<>>
  BY <1>2
<1> QED BY <1>3, <1>4 DEF Stack

LEMMA StackGrowsByTwo ==
  ASSUME NEW end, NEW calls, Stack(calls, end), NEW f, FrameIs(f, end), NEW g, FrameIs(g, end)
  PROVE  Stack(calls \o <<f, g>>, end) /\ calls \o <<f, g>> # <<>>
<1>1. PICK S : calls \in Seq(S) /\ \A h \in S : FrameIs(h, end)
  BY DEF Stack
<1> DEFINE T == S \cup {f, g}
<1>2. calls \in Seq(T) /\ <<f, g>> \in Seq(T)
  BY <1>1
<1>3. \A h \in T : FrameIs(h, end)
  BY <1>1
<1> HIDE DEF T
<1>4. calls \o <<f, g>> \in Seq(T) /\ Len(calls \o <<f, g>>) = Len(calls) + 2
  BY <1>2
<1>5. calls \o <<f, g>> # <<>>
  BY <1>2, <1>4
<1> QED BY <1>3, <1>4, <1>5 DEF Stack

LEMMA StackOfOne ==
  ASSUME NEW end, NEW f, FrameIs(f, end)
  PROVE  Stack(<<f>>, end) /\ <<f>> # <<>>
<1> DEFINE S == {f}
           calls == <<f>>
<1>1. calls \in Seq(S) /\ calls # <<>>
  OBVIOUS
<1>2. \A g \in S : FrameIs(g, end)
  OBVIOUS
<1> HIDE DEF S, calls
<1>3. Stack(calls, end)
  BY <1>1, <1>2 DEF Stack
<1> QED BY <1>1, <1>3 DEF calls

(* The frame that is walked and its caller.                                *)
LEMMA TopOfStack ==
  ASSUME NEW end, Stack(frames, end), frames # <<>>
  PROVE  /\ Len(frames) \in Nat \ {0} /\ FrameIs(top, end)
         /\ Stack(Callers, end) /\ Len(Callers) = Len(frames) - 1
         /\ Len(frames) > 1 => /\ Last(Callers) = frames[Len(frames) - 1]
                               /\ FrameIs(Last(Callers), end)
                               /\ Stack(Front(Callers), end)
<1>1. Len(frames) \in Nat /\ Len(frames) # 0
  <2>1. PICK S : frames \in Seq(S)
    BY DEF Stack
  <2> QED BY <2>1
<1>2. FrameIs(top, end)
  BY <1>1, StackParts DEF top
<1> DEFINE m == Len(frames) - 1
<1>3. m \in 0..Len(frames) /\ Callers = SubSeq(frames, 1, m)
  BY <1>1 DEF Callers, Front
<1>4. Stack(Callers, end) /\ Len(Callers) = m
  BY <1>3, StackParts
<1>5. ASSUME Len(frames) > 1
      PROVE  Last(Callers) = frames[m] /\ FrameIs(Last(Callers), end) /\ Stack(Front(Callers), end)
  <2>1. m \in 1..Len(frames) /\ m - 1 \in 0..m
    BY <1>1, <1>5
  <2>2. Last(Callers) = Callers[m]
    BY <1>4 DEF Last
  <2>3. Callers[m] = frames[m]
    <3>1. PICK S : frames \in Seq(S)
      BY DEF Stack
    <3> QED BY <1>3, <2>1, <3>1
  <2>4. Front(Callers) = SubSeq(Callers, 1, m - 1)
    BY <1>4 DEF Front
  <2> HIDE DEF m
  <2> QED BY <1>4, <2>1, <2>2, <2>3, <2>4, StackParts
<1> QED BY <1>1, <1>2, <1>4, <1>5

----------------------------------------------------------------------------
(* What a turn of walk makes of a frame *)

LEMMA NothingIs == ValuesAre(<<>>) /\ MemoryIs(<<>>)
  BY DEF ValuesAre, MemoryIs

(* Phis that can be read.                                                  *)
Readable(f) == AmbiguousPhi(f.pc, f.previous) => f.phiDone

LEMMA EnteredIs ==
  ASSUME IsKernel(kernel), NEW f, FrameIs(f, End), f.pc \in 1..Len(code), Readable(f)
  PROVE  ValuesAre(Entered(f))
<1>1. ValuesAre(PollEnds(f.pc))
  <2> DEFINE guarded == {i \in Branches(f.pc) : i.guard # NoToken}
  <2>1. ASSUME NEW r \in DOMAIN PollEnds(f.pc)
        PROVE  \E b \in BOOLEAN : PollEnds(f.pc)[r] = Truth(b)
    <3>1. PollEnds(f.pc)[r] = Truth(\E i \in guarded : i.guard = Not(r))
      BY <2>1 DEF PollEnds
    <3> QED BY <3>1
  <2> QED BY <2>1, TruthIsPredicate DEF ValuesAre
<1>2. ValuesAre(f.values)
  BY DEF FrameIs
<1>3. CASE f.phiDone
  BY <1>1, <1>2, <1>3, Overridden DEF Entered
<1>4. CASE ~f.phiDone
  <2>1. code[f.pc].header => \A i \in Phis(f.pc) : Len(i.args) = 2
    BY <1>4 DEF Readable, AmbiguousPhi
  <2>2. ValuesAre(PhiValues(f.pc, f.previous, f.values))
    BY <1>2, <2>1, PhiValuesAre
  <2>3. ValuesAre(Overlay(PhiValues(f.pc, f.previous, f.values), f.values))
    BY <1>2, <2>2, Overridden
  <2> QED BY <1>1, <1>4, <2>3, Overridden DEF Entered
<1> QED BY <1>3, <1>4

LEMMA NewFrame ==
  ASSUME NEW end, NEW pc \in 1..end, NEW values, ValuesAre(values), NEW memory, MemoryIs(memory),
         NEW previous, NEW pending \in PendingJumps(end), NEW stop, NEW loops, NEW phiDone, NEW latch
  PROVE  FrameIs(Frame(pc, values, memory, previous, pending, stop, loops, phiDone, latch), end)
<1> DEFINE f == Frame(pc, values, memory, previous, pending, stop, loops, phiDone, latch)
<1>1. /\ f.pc = pc /\ f.values = values /\ f.memory = memory /\ f.pending = pending
      /\ f.split = NoSplit /\ f.body = NoBody
      /\ DOMAIN f = {"pc", "values", "memory", "previous", "pending", "stop", "loops", "phiDone",
                     "latch", "result", "split", "body"}
  BY DEF Frame
<1> HIDE DEF f
<1>2. ~f.split.on /\ ~f.body.on
  BY <1>1 DEF NoSplit, NoBody
<1> QED BY <1>1, <1>2 DEF FrameIs, f

LEMMA ArmIs ==
  ASSUME NEW f, NEW end, FrameIs(f, end), f.split.on, NEW choice \in BOOLEAN
  PROVE  FrameIs(Arm(f, choice), end)
<1> DEFINE g == f.split.guard
           known == [r \in {NameOf(g)} |-> Truth(choice # (g.t = "not"))]
<1>1. ValuesAre(known)
  <2>1. (choice # (g.t = "not")) \in BOOLEAN
    OBVIOUS
  <2> HIDE DEF g
  <2> QED BY <2>1, TruthIsPredicate DEF ValuesAre
<1>2. ValuesAre(Overlay(known, f.values))
  <2>1. ValuesAre(f.values)
    BY DEF FrameIs
  <2> HIDE DEF known
  <2> QED BY <1>1, <2>1, Overridden
<1>3. f.pc \in 1..end /\ MemoryIs(f.memory) /\ f.pending \in PendingJumps(end)
  BY DEF FrameIs
<1>4. Arm(f, choice) = Frame(f.pc, Overlay(known, f.values), f.memory, f.previous, f.pending,
                             f.split.join, f.loops, TRUE, f.latch)
  BY DEF Arm
<1> HIDE DEF known, g
<1> QED BY <1>2, <1>3, <1>4, NewFrame

(* The state of an arm is kept with those of the arms before it.           *)
LEMMA DeliveredIs ==
  ASSUME NEW f, NEW child, NEW end, FrameIs(f, end), f.split.on, FrameIs(child, end)
  PROVE  LET g == Delivered(f, child)
         IN  FrameIs(g, end) /\ g.split.on /\ g.split.states # <<>>
<1> DEFINE state == [values |-> child.values, memory |-> child.memory,
                     previous |-> child.previous, pending |-> child.pending, loops |-> child.loops]
           g == Delivered(f, child)
           s == f.split
<1>1. SplitIs(s, end)
  BY DEF FrameIs
<1>2. PICK S : s.states \in Seq(S) /\ \A t \in S : StateIs(t, end)
  BY <1>1 DEF SplitIs
<1>3. StateIs(state, end)
  BY DEF StateIs, FrameIs
<1>4. /\ g.split.on = s.on /\ g.split.join = s.join /\ g.split.second = s.second
      /\ g.split.states = Append(s.states, state) /\ DOMAIN g.split = DOMAIN s
      /\ g.pc = f.pc /\ g.values = f.values /\ g.memory = f.memory /\ g.pending = f.pending
      /\ g.body = f.body /\ DOMAIN g = DOMAIN f
  BY <1>1 DEF Delivered, FrameIs, SplitIs
<1> DEFINE T == S \cup {state}
<1>5. s.states \in Seq(T) /\ state \in T /\ \A t \in T : StateIs(t, end)
  BY <1>2, <1>3
<1> HIDE DEF T, state, g, s
<1>6. Append(s.states, state) \in Seq(T) /\ Append(s.states, state) # <<>>
  BY <1>5
<1>7. SplitIs(g.split, end)
  BY <1>1, <1>4, <1>5, <1>6 DEF SplitIs
<1>8. FrameIs(g, end)
  BY <1>4, <1>7 DEF FrameIs
<1>9. g.split.on
  BY <1>7 DEF SplitIs
<1> QED BY <1>4, <1>6, <1>8, <1>9 DEF g

LEMMA AgreedIs ==
  ASSUME NEW fs
  PROVE  /\ ValuesAre(fs[1]) => ValuesAre(Agreed(fs))
         /\ MemoryIs(fs[1]) => MemoryIs(Agreed(fs))
  BY DEF Agreed, ValuesAre, MemoryIs

LEMMA MergeIs ==
  ASSUME IsKernel(kernel), NEW f, FrameIs(f, End), f.split.on, f.split.states # <<>>
  PROVE  FrameIs(Merge(f), End)
<1> DEFINE states == f.split.states
           join == f.split.join
           phis == join < End /\ ~code[join].header
           values(s) == IF phis THEN Overlay(PhiValues(join, s.previous, s.values), s.values)
                        ELSE s.values
           all == [k \in DOMAIN states |-> values(states[k])]
           memories == [k \in DOMAIN states |-> states[k].memory]
           g == Merge(f)
<1>1. SplitIs(f.split, End)
  BY DEF FrameIs
<1>2. 1 \in DOMAIN states /\ StateIs(states[1], End) /\ join \in 1..End
  <2>1. PICK S : states \in Seq(S) /\ \A t \in S : StateIs(t, End)
    BY <1>1 DEF SplitIs
  <2>2. 1 \in DOMAIN states /\ states[1] \in S
    BY <2>1
  <2> QED BY <1>1, <2>1, <2>2 DEF SplitIs
<1>3. /\ g.values = Agreed(all) /\ g.memory = Agreed(memories) /\ g.pending = states[1].pending
      /\ g.pc = join /\ g.split = NoSplit /\ g.body = f.body /\ DOMAIN g = DOMAIN f
  BY DEF Merge, FrameIs
<1>4. all[1] = values(states[1]) /\ memories[1] = states[1].memory
  BY <1>2
<1>5. ValuesAre(values(states[1]))
  <2> DEFINE s == states[1]
  <2>1. ValuesAre(s.values)
    BY <1>2 DEF StateIs
  <2>2. CASE phis
    <3>1. join \in 1..Len(code)
      <4>1. Len(code) \in Nat
        BY DEF IsKernel, code
      <4> HIDE DEF join
      <4> QED BY <1>2, <2>2, <4>1 DEF End, join
    <3>2. ValuesAre(PhiValues(join, s.previous, s.values))
      <4> HIDE DEF s
      <4> QED BY <2>1, <2>2, <3>1, PhiValuesAre
    <3> QED BY <2>1, <2>2, <3>2, Overridden
  <2> QED BY <2>1, <2>2
<1> HIDE DEF all, memories, g, values
<1>6. ValuesAre(g.values) /\ MemoryIs(g.memory)
  BY <1>2, <1>3, <1>4, <1>5, AgreedIs DEF StateIs
<1>7. ~g.split.on /\ g.pc \in 1..End /\ g.pending \in PendingJumps(End)
  BY <1>2, <1>3 DEF NoSplit, StateIs
<1> QED BY <1>3, <1>6, <1>7 DEF FrameIs, g

LEMMA ProceedIs ==
  ASSUME IsKernel(kernel), NEW calls, Stack(calls, End), NEW f, FrameIs(f, End), f.split.on,
         ~f.split.second \/ f.split.states # <<>>
  PROVE  Stack(Proceed(calls, f), End) /\ Proceed(calls, f) # <<>>
<1>1. CASE f.split.second
  <2> DEFINE g == Merge(f)
  <2>1. FrameIs(g, End)
    BY <1>1, MergeIs
  <2>2. Proceed(calls, f) = Append(calls, g)
    BY <1>1 DEF Proceed
  <2> HIDE DEF g
  <2>3. Stack(Append(calls, g), End) /\ Append(calls, g) # <<>>
    BY <2>1, StackGrows
  <2> QED BY <2>2, <2>3
<1>2. CASE ~f.split.second
  <2> DEFINE g == [f EXCEPT !.split.second = TRUE]
  <2>1. Proceed(calls, f) = calls \o <<g, Arm(f, TRUE)>>
    BY <1>2 DEF Proceed
  <2>2. SplitIs(f.split, End)
    BY DEF FrameIs
  <2>3. /\ g.split.on = f.split.on /\ g.split.join = f.split.join /\ g.split.second = TRUE
        /\ g.split.states = f.split.states /\ DOMAIN g.split = DOMAIN f.split
        /\ g.pc = f.pc /\ g.values = f.values /\ g.memory = f.memory /\ g.pending = f.pending
        /\ g.body = f.body /\ DOMAIN g = DOMAIN f
    BY <2>2 DEF FrameIs, SplitIs
  <2> HIDE DEF g
  <2>4. SplitIs(g.split, End)
    BY <2>2, <2>3 DEF SplitIs
  <2>5. FrameIs(g, End)
    BY <2>3, <2>4 DEF FrameIs
  <2>6. FrameIs(Arm(f, TRUE), End)
    BY ArmIs
  <2> QED BY <2>1, <2>5, <2>6, StackGrowsByTwo
<1> QED BY <1>1, <1>2

(* A loop that is walked once.                                             *)
LEMMA SummaryIs ==
  ASSUME IsKernel(kernel), NEW f, FrameIs(f, End), f.pc \in 1..Len(code),
         NEW s \in Summaries(f), ~BadSummary(s)
  PROVE  s.end \in 1..End /\ s.on = TRUE
<1> DEFINE latch == code[f.pc].latch
<1>0. Len(code) \in Nat /\ End \in Int /\ IsBundle(code[f.pc], End)
  BY Bundles
<1>1. Entering(f)
  BY DEF Summaries
<1>2. s.latch \in Nat /\ s.end \in Int /\ s.on = TRUE
  <2>1. CASE code[f.pc].hlo > 0
    <3>1. PICK i \in Branches(latch) : s = Summary(latch, latch + i.delay + 1, code[f.pc].hlo, "hlo")
      BY <1>1, <2>1 DEF Summaries
    <3>2. latch \in 1..Len(code)
      BY <1>0, <2>1 DEF IsBundle, End
    <3>3. i.delay \in Int
      <4>1. i.op = "sbr" /\ IsInstruction(i, End)
        BY <3>1, <3>2, Bundles DEF Branches
      <4> QED BY <4>1 DEF IsInstruction, NoDelay
    <3>4. s.latch = latch /\ s.end = latch + i.delay + 1 /\ s.on = TRUE
      BY <3>1 DEF Summary
    <3> HIDE DEF latch
    <3> QED BY <3>2, <3>3, <3>4
  <2>2. CASE ~(code[f.pc].hlo > 0)
    <3>1. PICK l \in kernel.loops : s.latch = l.latch /\ s.end = l.end /\ s.on = TRUE
      BY <1>1, <2>2 DEF Summaries, Summary
    <3> QED BY <3>1 DEF IsKernel
  <2> QED BY <2>1, <2>2
<1>3. ~(s.end <= s.latch) /\ ~(s.end > End)
  BY DEF BadSummary
<1> QED BY <1>0, <1>2, <1>3

LEMMA EnterBodyIs ==
  ASSUME NEW f, NEW end, FrameIs(f, end), NEW s, s.end \in 1..end, s.on = TRUE,
         NEW calls, Stack(calls, end)
  PROVE  Stack(calls \o EnterBody(f, s), end) /\ calls \o EnterBody(f, s) # <<>>
<1> DEFINE values == Forget(f.values, AssignedIn(f.pc, s.end - 1))
           g == [f EXCEPT !.values = values, !.loops = FreshLoops(f), !.body = s]
           b == Frame(f.pc, values, <<>>, f.previous, NoJump, s.end, {}, TRUE, s.latch)
<1>1. ValuesAre(values)
  BY DEF FrameIs, ValuesAre, Forget
<1>2. /\ g.values = values /\ g.body = s /\ g.pc = f.pc /\ g.memory = f.memory
      /\ g.pending = f.pending /\ g.split = f.split /\ DOMAIN g = DOMAIN f
  BY DEF FrameIs
<1>3. EnterBody(f, s) = <<g, b>>
  BY DEF EnterBody
<1>4. f.pc \in 1..end /\ NoJump \in PendingJumps(end)
  BY DEF FrameIs, PendingJumps
<1> HIDE DEF values, g
<1>5. FrameIs(g, end)
  BY <1>1, <1>2 DEF FrameIs
<1>6. FrameIs(b, end)
  BY <1>1, <1>4, NothingIs, NewFrame
<1> HIDE DEF b
<1> QED BY <1>3, <1>5, <1>6, StackGrowsByTwo

LEMMA LeaveBodyIs ==
  ASSUME NEW f, NEW end, FrameIs(f, end), f.body.on, NEW result
  PROVE  FrameIs(LeaveBody(f, result), end)
<1> DEFINE g == LeaveBody(f, result)
<1>1. /\ g.values = f.values /\ g.body = NoBody /\ g.pc = f.body.end /\ g.memory = <<>>
      /\ g.pending = f.pending /\ g.split = f.split /\ DOMAIN g = DOMAIN f
  BY DEF FrameIs, LeaveBody
<1> HIDE DEF g
<1>2. ~g.body.on
  BY <1>1 DEF NoBody
<1> QED BY <1>1, <1>2, NothingIs DEF FrameIs, g

(* A guard that isn't known.                                               *)
LEMMA SplitAtIs ==
  ASSUME IsKernel(kernel), NEW f, FrameIs(f, End), f.pc \in 1..Len(code), Readable(f), ~BadSplit(f),
         NEW calls, Stack(calls, End)
  PROVE  Stack(calls \o SplitAt(f), End) /\ calls \o SplitAt(f) # <<>>
<1> DEFINE s == [on |-> TRUE, guard |-> SplitGuard(f), join |-> JoinOf(f), second |-> FALSE,
                 arms |-> <<>>, states |-> <<>>]
           g == [f EXCEPT !.values = Entered(f), !.loops = FreshLoops(f), !.phiDone = FALSE,
                          !.split = s]
<1>1. SplitAt(f) = <<g, Arm(g, FALSE)>>
  BY DEF SplitAt
<1>2. JoinOf(f) \in 1..End
  <2> DEFINE branch == SharedBranch(f, NameOf(SplitGuard(f)))
  <2>1. CASE branch # 0
    <3>1. branch \in DOMAIN kernel.joins /\ JoinOf(f) = kernel.joins[branch]
      BY <2>1 DEF BadSplit, JoinOf
    <3> QED BY <3>1 DEF IsKernel, End, code
  <2>2. CASE branch = 0 /\ f.pending.left = 0
    <3>1. JoinOf(f) = f.pending.target
      BY <2>2 DEF JoinOf
    <3>2. f.pending # NoJump /\ f.pending \in PendingJumps(End)
      BY <2>2 DEF NoJump, FrameIs
    <3> QED BY <3>1, <3>2 DEF PendingJumps
  <2>3. CASE branch = 0 /\ f.pending.left # 0
    <3>1. JoinOf(f) = f.pc + 1
      BY <2>3 DEF JoinOf
    <3> QED BY <3>1, Bundles
  <2> QED BY <2>1, <2>2, <2>3
<1>3. SplitIs(s, End) /\ s.on
  <2>1. \E S : s.states \in Seq(S) /\ \A t \in S : StateIs(t, End)
    <3>1. s.states = <<>>
      OBVIOUS
    <3>2. <<>> \in Seq({}) /\ \A t \in {} : StateIs(t, End)
      OBVIOUS
    <3> HIDE DEF s
    <3> QED BY <3>1, <3>2
  <2>2. /\ s.on = TRUE /\ s.join \in 1..End /\ s.second \in BOOLEAN
        /\ DOMAIN s = {"on", "guard", "join", "second", "arms", "states"}
    BY <1>2
  <2> HIDE DEF s
  <2> QED BY <2>1, <2>2 DEF SplitIs
<1>4. /\ g.values = Entered(f) /\ g.split = s /\ g.pc = f.pc /\ g.memory = f.memory
      /\ g.pending = f.pending /\ g.body = f.body /\ DOMAIN g = DOMAIN f
  BY DEF FrameIs
<1>5. ValuesAre(Entered(f))
  BY EnteredIs
<1> HIDE DEF s, g
<1>6. FrameIs(g, End)
  BY <1>3, <1>4, <1>5 DEF FrameIs
<1>7. FrameIs(Arm(g, FALSE), End)
  BY <1>3, <1>4, <1>6, ArmIs
<1> QED BY <1>1, <1>6, <1>7, StackGrowsByTwo

----------------------------------------------------------------------------
(* A bundle is executed *)

InputsAre(inputs) == \A n \in DOMAIN inputs : IsValue(inputs[n])

LEMMA OperandIs ==
  ASSUME IsKernel(kernel), InputsAre(unit.inputs), NEW i
  PROVE  IsValue(Operand(i))
<1>1. i.index \in DOMAIN kernel.scalars => IsValue(kernel.scalars[i.index])
  BY DEF IsKernel
<1> QED BY <1>1, UnknownIs DEF Operand, InputsAre

LEMMA ResultIs ==
  ASSUME IsKernel(kernel), InputsAre(unit.inputs), NEW f, FrameIs(f, End), ValuesAre(Entered(f)),
         NEW i, IsInstruction(i, End), i.op # "sphi"
  PROVE  /\ IsValue(Result(f, i))
         /\ i.dest \in PredicateRegisters => Result(f, i) \in Predicates
<1> DEFINE values == Entered(f)
           cond == Read(i.cond, values)
           x == [k \in DOMAIN i.args |-> Read(i.args[k], values)]
           e == Evaluate(i, cond, x, Slot(f, i), f.memory)
           v == IF i.op = "inlined_call_operand" THEN Operand(i) ELSE e
           address == Pointer(<<i.dest, IF f.pc \in kernel.repeated THEN work + 1 ELSE 0>>, 0)
           given == i.dest \in PredicateRegisters
<1>1. Result(f, i) = IF v = Unknown /\ FreshAddress(i) THEN address ELSE v
  BY DEF Result
<1>2. IsValue(address)
  BY DEF IsValue, Pointer, Value, IsAddress
<1>3. given => \/ i.op \in PredicateOps
               \/ /\ i.op \in {"smov", "pmov"} /\ i.cond = NoToken
                  /\ \A u \in ToSet(i.args) : IsCondition(u)
  BY DEF IsInstruction, WritesPredicate
<1>4. given => ~FreshAddress(i)
  BY <1>3 DEF FreshAddress, PredicateOps
<1>5. /\ \E S : x \in Seq(S)
      /\ Len(x) = Len(i.args) /\ TypedOperands(i, cond, x)
      /\ \A k \in 1..Len(x) : IsValue(x[k])
  BY OperandsAre
<1>6. (i.op = "sld" => Len(i.args) # 2) /\ (i.cond # NoToken <=> (i.op = "smov" /\ Len(i.args) = 2))
  BY DEF IsInstruction
<1>7. given /\ 1 \in 1..Len(i.args) /\ i.op \notin PredicateOps => x[1] \in Predicates
  <2>1. 1 \in 1..Len(i.args) => x[1] = Read(i.args[1], values) /\ i.args[1] \in ToSet(i.args)
    BY Arguments
  <2> HIDE DEF x, values
  <2> QED BY <1>3, <2>1, ReadIs DEF values
<1> HIDE DEF x, cond, values
<1>8. CASE i.op = "inlined_call_operand"
  <2>1. IsValue(v) /\ ~given
    BY <1>3, <1>8, OperandIs DEF PredicateOps
  <2> HIDE DEF v, address
  <2> QED BY <1>1, <1>2, <2>1
<1>9. CASE i.op = "sld"
  <2>1. e = IF Slot(f, i) \in DOMAIN f.memory THEN f.memory[Slot(f, i)] ELSE Unknown
    BY <1>5, <1>6, <1>9, Dispatch
  <2>2. IsValue(e)
    BY <2>1, UnknownIs DEF FrameIs, MemoryIs
  <2>3. v = e /\ ~given
    BY <1>3, <1>9 DEF PredicateOps
  <2> HIDE DEF v, e, address
  <2> QED BY <1>1, <1>2, <2>2, <2>3
<1>10. CASE i.op \notin {"sld", "inlined_call_operand"}
  <2>1. v = e
    BY <1>10
  <2>2. IsValue(e) /\ (i.op \in PredicateOps => e \in Predicates)
    BY <1>5, <1>10, EvaluateIs
  <2>3. given /\ i.op \notin PredicateOps => e \in Predicates
    <3> SUFFICES ASSUME given, i.op \notin PredicateOps PROVE e \in Predicates
      OBVIOUS
    <3>1. i.op \in {"smov", "pmov"} /\ ~(i.op = "smov" /\ Len(x) = 2)
      BY <1>3, <1>5, <1>6
    <3>2. CASE Len(x) = 1
      <4>1. e = x[1]
        BY <3>1, <3>2, Dispatch
      <4> QED BY <1>5, <1>7, <3>2, <4>1
    <3>3. CASE Len(x) # 1
      <4>1. e = Unknown
        BY <3>1, <3>3, Dispatch
      <4> QED BY <4>1, UnknownIs
    <3> QED BY <3>2, <3>3
  <2> HIDE DEF v, e, address
  <2> QED BY <1>1, <1>2, <1>4, <2>1, <2>2, <2>3
<1> QED BY <1>8, <1>9, <1>10

LEMMA WritesAre ==
  ASSUME IsKernel(kernel), InputsAre(unit.inputs), NEW f, FrameIs(f, End), f.pc \in 1..Len(code),
         ValuesAre(Entered(f))
  PROVE  ValuesAre(Writes(f))
<1> DEFINE found == Writes(f)
<1> SUFFICES ASSUME NEW r \in DOMAIN found
             PROVE  IsValue(found[r]) /\ (r \in PredicateRegisters => found[r] \in Predicates)
  BY DEF ValuesAre
<1> DEFINE ins == code[f.pc].ins
           Writing == {k \in 1..Len(ins) : ins[k].dest = r}
           n == Max(Writing)
           i == ins[n]
<1>1. r \in Assigned(f.pc) /\ r \notin {j.dest : j \in Phis(f.pc)}
  BY DEF Writes
<1>2. Writing # {} /\ Writing \in SUBSET (1..Len(ins)) /\ Len(ins) \in Nat
  <2>1. PICK j \in ToSet(ins) : j.dest = r
    BY <1>1 DEF Assigned
  <2> QED BY <2>1, Bundles
<1>3. n \in Writing
  <2> HIDE DEF Writing, ins
  <2> QED BY <1>2, MaxIn
<1>4. i \in ToSet(ins) /\ i.dest = r /\ IsInstruction(i, End)
  BY <1>3, Bundles
<1>5. i.op # "sphi"
  BY <1>1, <1>4 DEF Phis
<1>6. found[r] = CASE Predicate(f, i) = Const(0) -> Look(Entered(f), r)
                   [] Predicate(f, i) = Unknown -> Unknown
                   [] OTHER -> Result(f, i)
  <2>1. SelectLastInSeq(ins, LAMBDA j : j.dest = r) = n
    BY <1>2 DEF SelectLastInSeq
  <2> HIDE DEF n
  <2> QED BY <2>1 DEF Writes
<1> HIDE DEF i, found
<1>7. IsValue(Look(Entered(f), r)) /\ (r \in PredicateRegisters => Look(Entered(f), r) \in Predicates)
  BY UnknownIs DEF Look, ValuesAre
<1>8. IsValue(Result(f, i)) /\ (r \in PredicateRegisters => Result(f, i) \in Predicates)
  BY <1>4, <1>5, ResultIs
<1> QED BY <1>6, <1>7, <1>8, UnknownIs

LEMMA StoredIs ==
  ASSUME IsKernel(kernel), NEW f, f.pc \in 1..Len(code), ValuesAre(Entered(f))
  PROVE  MemoryIs(Stored(f))
<1> DEFINE found == Stored(f)
<1> SUFFICES ASSUME NEW y \in DOMAIN found PROVE IsValue(found[y])
  BY DEF MemoryIs
<1> DEFINE ins == code[f.pc].ins
           Storing == {k \in 1..Len(ins) : ins[k] \in StoresOf(f) /\ Slot(f, ins[k]) = y}
           n == Max(Storing)
           i == ins[n]
<1>1. PICK j \in StoresOf(f) : y = Slot(f, j)
  BY DEF Stored
<1>2. Storing # {} /\ Storing \in SUBSET (1..Len(ins)) /\ Len(ins) \in Nat
  <2>1. j \in ToSet(ins)
    BY <1>1 DEF StoresOf
  <2>2. PICK k \in 1..Len(ins) : j = ins[k]
    BY <2>1, Bundles
  <2>3. k \in Storing
    BY <1>1, <2>2
  <2>4. Len(ins) \in Nat
    BY Bundles
  <2> QED BY <2>3, <2>4
<1>3. n \in Storing
  <2> HIDE DEF Storing, ins
  <2> QED BY <1>2, MaxIn
<1>4. i \in ToSet(ins) /\ IsInstruction(i, End) /\ i.op = "sst"
  BY <1>3, Bundles DEF StoresOf
<1>5. found[y] = IF Predicate(f, i) = Unknown THEN Unknown ELSE Read(i.args[1], Entered(f))
  <2>1. SelectLastInSeq(ins, LAMBDA k : k \in StoresOf(f) /\ Slot(f, k) = y) = n
    BY <1>2 DEF SelectLastInSeq
  <2> HIDE DEF n
  <2> QED BY <2>1 DEF Stored
<1> HIDE DEF i, found
<1>6. IsToken(i.args[1])
  <2>1. i.args # <<>> /\ i.args \in Seq(ToSet(i.args))
    BY <1>4 DEF IsInstruction
  <2>2. Len(i.args) \in Nat /\ Len(i.args) # 0
    BY <2>1
  <2> QED BY <1>4, <2>2, Arguments
<1> QED BY <1>5, <1>6, ReadIs, UnknownIs

LEMMA OverriddenMemory ==
  ASSUME NEW f, NEW g, MemoryIs(f), MemoryIs(g)
  PROVE  MemoryIs(Overlay(f, g))
<1> SUFFICES ASSUME NEW r \in DOMAIN Overlay(f, g) PROVE IsValue(Overlay(f, g)[r])
  BY DEF MemoryIs
<1>1. /\ r \in DOMAIN f => Overlay(f, g)[r] = f[r]
      /\ r \notin DOMAIN f => r \in DOMAIN g /\ Overlay(f, g)[r] = g[r]
  BY DEF Overlay
<1> QED BY <1>1 DEF MemoryIs

LEMMA RememberedIs ==
  ASSUME IsKernel(kernel), NEW f, NEW stored, MemoryIs(stored)
  PROVE  MemoryIs(Remembered(f, stored))
<1> DEFINE written == {v.base : v \in {v \in DmaDestinations(f) : Allocated(v)}}
           given == kernel.memory
           private == [x \in {x \in DOMAIN stored : x[1] \in kernel.spills} |-> stored[x]]
           assumed == [x \in {x \in DOMAIN given : x[1] \in written} |-> given[x]]
           kept == [x \in {x \in DOMAIN stored : x[1] \notin written} |-> stored[x]]
<1>1. MemoryIs(private) /\ MemoryIs(kept)
  BY DEF MemoryIs
<1>2. MemoryIs(assumed)
  BY DEF MemoryIs, IsKernel
<1>3. Remembered(f, stored) \in {private, Overlay(assumed, kept)}
  BY DEF Remembered
<1> HIDE DEF private, assumed, kept
<1> QED BY <1>1, <1>2, <1>3, OverriddenMemory

LEMMA JumpIs ==
  ASSUME IsKernel(kernel), NEW f, FrameIs(f, End), f.pc \in 1..Len(code), ~Raises(f)
  PROVE  Jump(f) \in PendingJumps(End)
<1> DEFINE ins == code[f.pc].ins
           Taken == {k \in 1..Len(ins) : /\ ins[k].op = "sbr" /\ Predicate(f, ins[k]) # Const(0)
                                         /\ ~Summarized(f, ins[k])}
           n == Max(Taken)
           k == SelectLastInSeq(ins, LAMBDA i : /\ i.op = "sbr" /\ Predicate(f, i) # Const(0)
                                                /\ ~Summarized(f, i))
<1>1. Taken \in SUBSET (1..Len(ins)) /\ Len(ins) \in Nat
  BY Bundles
<1>2. k = IF Taken # {} THEN n ELSE 0
  BY DEF SelectLastInSeq
<1>3. Jump(f) = IF k = 0 THEN f.pending ELSE [left |-> ins[k].delay, target |-> ins[k].target]
  BY DEF Jump
<1>4. CASE Taken = {}
  <2>1. Jump(f) = f.pending
    BY <1>2, <1>3, <1>4
  <2> QED BY <2>1 DEF FrameIs
<1>5. CASE Taken # {}
  <2>1. n \in Taken
    <3> HIDE DEF Taken, ins
    <3> QED BY <1>1, <1>5, MaxIn
  <2> HIDE DEF n
  <2>2. ins[n] \in ToSet(ins) /\ IsInstruction(ins[n], End) /\ ins[n].op = "sbr" /\ n # 0
    BY <1>1, <2>1, Bundles
  <2>3. ~BadJump(f, ins[n])
    BY <2>2 DEF Raises
  <2>4. ins[n].target # NoTarget /\ ins[n].delay # NoDelay
    BY <2>2, <2>3 DEF BadJump, Jumps
  <2>5. ins[n].target \in 1..End /\ ins[n].delay \in Nat
    <3>1. End \in Nat
      BY Bundles
    <3>2. ins[n].target \in 0..End /\ ins[n].delay \in Nat \cup {NoDelay}
      BY <2>2 DEF IsInstruction
    <3> HIDE DEF ins
    <3> QED BY <2>4, <3>1, <3>2 DEF NoTarget
  <2>6. Jump(f) = [left |-> ins[n].delay, target |-> ins[n].target]
    BY <1>2, <1>3, <1>5, <2>2
  <2> HIDE DEF ins
  <2> QED BY <2>5, <2>6 DEF PendingJumps
<1> QED BY <1>4, <1>5

LEMMA AdvanceIs ==
  ASSUME IsKernel(kernel), InputsAre(unit.inputs), NEW f, FrameIs(f, End), f.pc \in 1..Len(code),
         Readable(f), ~Raises(f)
  PROVE  FrameIs(Advance(f), End)
<1> DEFINE jump == Jump(f)
           g == Advance(f)
<1>1. /\ g.values = Overlay(Writes(f), Entered(f))
      /\ g.memory = Remembered(f, Overlay(Stored(f), f.memory))
      /\ g.pc = IF jump.left = 0 THEN jump.target ELSE f.pc + 1
      /\ g.pending = IF jump = NoJump \/ jump.left = 0 THEN NoJump ELSE [jump EXCEPT !.left = @ - 1]
      /\ g.split = f.split /\ g.body = f.body /\ DOMAIN g = DOMAIN f
  BY DEF Advance, FrameIs
<1>2. jump \in PendingJumps(End)
  BY JumpIs
<1> HIDE DEF g, jump
<1>3. ValuesAre(Entered(f))
  BY EnteredIs
<1>4. ValuesAre(g.values)
  BY <1>1, <1>3, WritesAre, Overridden
<1>5. MemoryIs(g.memory)
  <2>1. MemoryIs(f.memory)
    BY DEF FrameIs
  <2> QED BY <1>1, <1>3, <2>1, StoredIs, OverriddenMemory, RememberedIs
<1>6. g.pc \in 1..End /\ g.pending \in PendingJumps(End)
  <2>1. f.pc + 1 \in 1..End
    BY Bundles
  <2> QED BY <1>1, <1>2, <2>1 DEF PendingJumps, NoJump
<1> QED BY <1>1, <1>4, <1>5, <1>6 DEF FrameIs, g

----------------------------------------------------------------------------
(* The theorem *)

(* Learn takes the result (ProgramBound).                                  *)
Forgotten ==
  /\ outcome = "resolved" /\ outcome' = "idle" /\ tree' = <<>>
  /\ UNCHANGED <<unit, frames, work, visits>>

(* resolve_scalar_operands, called for any kernels and any scalar inputs.  *)
WalkNext ==
  \/ \E n \in DOMAIN Kernels, inputs \in Seq({Unknown} \cup {Const(k) : k \in Word}) :
       Start(n, inputs)
  \/ Walk
  \/ Forgotten

WalkSpec == Init /\ [][WalkNext]_walkVars

(* The inductive invariant: every call of walk, the one that is walked and
   those that wait for it, knows a value of each register and each word.   *)
WalkInv ==
  outcome = "walking" =>
    /\ \E n \in DOMAIN Kernels : kernel = Kernels[n]
    /\ InputsAre(unit.inputs)
    /\ frames # <<>> /\ Stack(frames, End)

LEMMA Walking ==
  ASSUME WalkInv, outcome = "walking"
  PROVE  /\ IsKernel(kernel) /\ InputsAre(unit.inputs)
         /\ frames # <<>> /\ Stack(frames, End) /\ FrameIs(top, End)
         /\ ~AtEnd(top) => top.pc \in 1..Len(code)
<1>1. /\ IsKernel(kernel) /\ InputsAre(unit.inputs)
      /\ frames # <<>> /\ Stack(frames, End)
  BY KernelAssumption DEF WalkInv
<1>2. FrameIs(top, End)
  BY <1>1, TopOfStack
<1>3. Len(code) \in Nat
  BY <1>1 DEF IsKernel, code
<1>4. ~AtEnd(top) => top.pc \in 1..Len(code)
  BY <1>2, <1>3 DEF FrameIs, AtEnd, End
<1> QED BY <1>1, <1>2, <1>4

(* The calls a step leaves.                                                *)
LEMMA WalksOn ==
  ASSUME WalkInv, outcome = "walking", UNCHANGED unit, NEW calls, frames' = calls,
         calls # <<>>, Stack(calls, End)
  PROVE  WalkInv'
<1>1. kernel' = kernel /\ code' = code
  BY DEF kernel, code
<1>2. End' = End
  BY <1>1 DEF End
<1>3. Stack(frames', End')
  BY <1>2
<1>4. (\E n \in DOMAIN Kernels : kernel = Kernels[n]) /\ InputsAre(unit.inputs)
  BY DEF WalkInv
<1>5. (\E n \in DOMAIN Kernels : kernel' = Kernels[n]) /\ InputsAre(unit'.inputs)
  BY <1>1, <1>4
<1> QED BY <1>3, <1>5 DEF WalkInv

LEMMA StartKeeps ==
  ASSUME NEW n \in DOMAIN Kernels, NEW inputs \in Seq({Unknown} \cup {Const(k) : k \in Word}),
         Start(n, inputs)
  PROVE  WalkInv'
<1>1. unit'.kernel = Kernels[n] /\ unit'.inputs = inputs
  BY DEF Start, Called
<1>2. kernel' = Kernels[n] /\ IsKernel(Kernels[n])
  BY <1>1, KernelAssumption DEF kernel
<1>3. InputsAre(inputs)
  <2> SUFFICES ASSUME NEW k \in DOMAIN inputs PROVE IsValue(inputs[k])
    BY DEF InputsAre
  <2>1. inputs[k] = Unknown \/ \E m \in Word : inputs[k] = Const(m)
    OBVIOUS
  <2>2. \A m \in Word : IsValue(Const(m))
    BY ConstIs
  <2> QED BY <2>1, <2>2, UnknownIs
<1>4. End' \in Nat \ {0}
  <2>1. End' = Len(Kernels[n].code) + 1
    BY <1>2 DEF End, code
  <2>2. Len(Kernels[n].code) \in Nat
    BY <1>2 DEF IsKernel
  <2> QED BY <2>1, <2>2
<1> DEFINE f == Frame(1, <<>>, Kernels[n].memory, 0, NoJump, 0, {}, FALSE, 0)
           end == End'
<1>5. FrameIs(f, end)
  <2>1. MemoryIs(Kernels[n].memory)
    BY <1>2 DEF IsKernel, MemoryIs
  <2>2. 1 \in 1..end /\ NoJump \in PendingJumps(end)
    BY <1>4 DEF PendingJumps
  <2> HIDE DEF end
  <2> QED BY <2>1, <2>2, NothingIs, NewFrame
<1>6. frames' = <<f>>
  BY <1>1 DEF Start
<1> HIDE DEF f, end
<1>7. Stack(<<f>>, end) /\ <<f>> # <<>>
  BY <1>5, StackOfOne
<1>8. Stack(frames', End') /\ frames' # <<>>
  BY <1>6, <1>7 DEF end
<1>9. (\E m \in DOMAIN Kernels : kernel' = Kernels[m]) /\ InputsAre(unit'.inputs)
  BY <1>1, <1>2, <1>3
<1> QED BY <1>8, <1>9 DEF WalkInv

LEMMA SummarizeKeeps ==
  ASSUME WalkInv, outcome = "walking", ~Problem(top), Summarize
  PROVE  WalkInv'
<1>1. ~AtEnd(top) /\ UNCHANGED unit
  BY DEF Summarize
<1>2. PICK s \in Summaries(top) : frames' = Callers \o EnterBody(top, s)
  BY DEF Summarize
<1>3. ~BadSummary(s)
  BY <1>1, <1>2 DEF Problem
<1>4. s.end \in 1..End /\ s.on = TRUE
  BY <1>1, <1>2, <1>3, Walking, SummaryIs
<1>5. Stack(Callers, End)
  BY Walking, TopOfStack
<1>6. Stack(Callers \o EnterBody(top, s), End) /\ Callers \o EnterBody(top, s) # <<>>
  BY <1>4, <1>5, Walking, EnterBodyIs
<1> QED BY <1>1, <1>2, <1>6, WalksOn

LEMMA SplitKeeps ==
  ASSUME WalkInv, outcome = "walking", ~Problem(top), Split
  PROVE  WalkInv'
<1>1. /\ ~AtEnd(top) /\ UNCHANGED unit /\ frames' = Callers \o SplitAt(top)
      /\ Summaries(top) = {} /\ UnknownGuards(top) # {}
  BY DEF Split
<1>2. ~BadSplit(top) /\ Readable(top)
  BY <1>1 DEF Problem, Readable
<1>3. Stack(Callers, End)
  BY Walking, TopOfStack
<1>4. Stack(Callers \o SplitAt(top), End) /\ Callers \o SplitAt(top) # <<>>
  BY <1>1, <1>2, <1>3, Walking, SplitAtIs
<1> QED BY <1>1, <1>4, WalksOn

LEMMA ExecuteKeeps ==
  ASSUME WalkInv, outcome = "walking", ~Problem(top), Execute
  PROVE  WalkInv'
<1>1. /\ ~AtEnd(top) /\ UNCHANGED unit /\ frames' = Append(Callers, Advance(top))
      /\ Summaries(top) = {} /\ ~Raises(top)
  BY DEF Execute
<1>2. Readable(top)
  BY <1>1 DEF Problem, Readable
<1>3. Stack(Callers, End)
  BY Walking, TopOfStack
<1>4. FrameIs(Advance(top), End)
  BY <1>1, <1>2, Walking, AdvanceIs
<1>5. Stack(Append(Callers, Advance(top)), End) /\ Append(Callers, Advance(top)) # <<>>
  BY <1>3, <1>4, StackGrows
<1> QED BY <1>1, <1>5, WalksOn

LEMMA HaltKeeps ==
  ASSUME WalkInv, outcome = "walking", Halt
  PROVE  WalkInv'
<1> DEFINE catching == {n \in 1..(Len(frames) - 1) :
              frames[n].split.on /\ (~frames[n].split.second \/ frames[n].split.states # <<>>)}
           n == Greatest(catching)
           calls == Proceed(SubSeq(frames, 1, n - 1), frames[n])
<1>1. /\ UNCHANGED unit
      /\ IF catching = {} THEN outcome' = "halted" /\ frames' = <<>>
         ELSE frames' = calls /\ UNCHANGED outcome
  BY DEF Halt
<1>2. CASE catching = {}
  <2>1. outcome' = "halted"
    BY <1>1, <1>2
  <2> QED BY <2>1 DEF WalkInv
<1>3. CASE catching # {}
  <2>1. Len(frames) \in Nat \ {0}
    BY Walking, TopOfStack
  <2>2. n \in catching
    <3> DEFINE m == Len(frames) - 1
    <3>1. m \in Nat /\ catching \in SUBSET (1..m)
      BY <2>1
    <3> HIDE DEF m, catching
    <3> QED BY <1>3, <3>1, MaxIn
  <2>3. /\ n \in 1..Len(frames) /\ n - 1 \in 0..Len(frames)
        /\ frames[n].split.on /\ (~frames[n].split.second \/ frames[n].split.states # <<>>)
    <3>1. n \in 1..(Len(frames) - 1)
          /\ frames[n].split.on /\ (~frames[n].split.second \/ frames[n].split.states # <<>>)
      BY <2>2
    <3> HIDE DEF n
    <3> QED BY <2>1, <3>1
  <2>4. frames' = calls
    BY <1>1, <1>3
  <2> HIDE DEF n
  <2>5. FrameIs(frames[n], End) /\ Stack(SubSeq(frames, 1, n - 1), End)
    BY <2>3, Walking, StackParts
  <2>6. Stack(calls, End) /\ calls # <<>>
    BY <2>3, <2>5, Walking, ProceedIs
  <2> HIDE DEF calls
  <2> QED BY <1>1, <2>4, <2>6, WalksOn
<1> QED BY <1>2, <1>3

LEMMA ReturnArmKeeps ==
  ASSUME WalkInv, outcome = "walking", ReturnArm
  PROVE  WalkInv'
<1> DEFINE f == Delivered(Last(Callers), top)
<1>1. /\ Len(frames) > 1 /\ Last(Callers).split.on /\ UNCHANGED unit
      /\ frames' = Proceed(Front(Callers), f)
  BY DEF ReturnArm
<1>2. FrameIs(Last(Callers), End) /\ Stack(Front(Callers), End)
  BY <1>1, Walking, TopOfStack
<1>3. FrameIs(f, End) /\ f.split.on /\ f.split.states # <<>>
  BY <1>1, <1>2, Walking, DeliveredIs
<1> HIDE DEF f
<1>4. Stack(Proceed(Front(Callers), f), End) /\ Proceed(Front(Callers), f) # <<>>
  BY <1>2, <1>3, Walking, ProceedIs
<1> QED BY <1>1, <1>4, WalksOn

LEMMA ReturnBodyKeeps ==
  ASSUME WalkInv, outcome = "walking", ReturnBody
  PROVE  WalkInv'
<1> DEFINE f == LeaveBody(Last(Callers), top.result)
<1>1. /\ Len(frames) > 1 /\ Last(Callers).body.on /\ UNCHANGED unit
      /\ frames' = Append(Front(Callers), f)
  BY DEF ReturnBody
<1>2. FrameIs(Last(Callers), End) /\ Stack(Front(Callers), End)
  BY <1>1, Walking, TopOfStack
<1>3. FrameIs(f, End)
  BY <1>1, <1>2, LeaveBodyIs
<1> HIDE DEF f
<1>4. Stack(Append(Front(Callers), f), End) /\ Append(Front(Callers), f) # <<>>
  BY <1>2, <1>3, StackGrows
<1> QED BY <1>1, <1>4, WalksOn

LEMMA NextKeeps ==
  ASSUME WalkInv, [WalkNext]_walkVars
  PROVE  WalkInv'
<1>1. ASSUME NEW n \in DOMAIN Kernels,
             NEW inputs \in Seq({Unknown} \cup {Const(k) : k \in Word}), Start(n, inputs)
      PROVE  WalkInv'
  BY <1>1, StartKeeps
<1>2. CASE Walk
  <2>1. outcome = "walking"
    BY <1>2 DEF Walk
  <2>2. CASE Fail
    BY <2>2 DEF Fail, WalkInv
  <2>3. CASE ~Problem(top) /\ Summarize
    BY <2>1, <2>3, SummarizeKeeps
  <2>4. CASE ~Problem(top) /\ Split
    BY <2>1, <2>4, SplitKeeps
  <2>5. CASE ~Problem(top) /\ Execute
    BY <2>1, <2>5, ExecuteKeeps
  <2>6. CASE Halt
    BY <2>1, <2>6, HaltKeeps
  <2>7. CASE ReturnArm
    BY <2>1, <2>7, ReturnArmKeeps
  <2>8. CASE ReturnBody
    BY <2>1, <2>8, ReturnBodyKeeps
  <2>9. CASE Resolved
    BY <2>9 DEF Resolved, WalkInv
  <2> QED BY <1>2, <2>2, <2>3, <2>4, <2>5, <2>6, <2>7, <2>8, <2>9 DEF Walk
<1>3. CASE Forgotten
  BY <1>3 DEF Forgotten, WalkInv
<1>4. CASE UNCHANGED walkVars
  BY <1>4 DEF walkVars, WalkInv, kernel, code, End
<1> QED BY <1>1, <1>2, <1>3, <1>4 DEF WalkNext

LEMMA InvariantSound ==
  ASSUME WalkInv, NEW Places \in SUBSET Int
  PROVE  SoundFor(Places)
<1> SUFFICES ASSUME outcome = "walking", ~AtEnd(top), Readable(top),
                    NEW i \in ToSet(code[top.pc].ins), i.op \notin {"sphi", "sld"}
             PROVE  SoundAt(i, Read(i.cond, Entered(top)),
                            [k \in DOMAIN i.args |-> Read(i.args[k], Entered(top))], Places)
  BY DEF SoundFor, Readable
<1> DEFINE values == Entered(top)
           x == [k \in DOMAIN i.args |-> Read(i.args[k], values)]
<1>1. IsKernel(kernel) /\ FrameIs(top, End) /\ top.pc \in 1..Len(code)
  BY Walking
<1>2. ValuesAre(values) /\ IsInstruction(i, End)
  BY <1>1, EnteredIs, Bundles
<1> HIDE DEF values
<1>3. /\ \E S : x \in Seq(S)
      /\ Len(x) = Len(i.args) /\ TypedOperands(i, Read(i.cond, values), x)
  BY <1>1, <1>2, OperandsAre
<1>4. i.cond # NoToken <=> (i.op = "smov" /\ Len(x) = 2)
  BY <1>2, <1>3 DEF IsInstruction
<1> HIDE DEF x
<1>5. SoundAt(i, Read(i.cond, values), x, Places)
  BY <1>3, <1>4, InstructionSound
<1> QED BY <1>5 DEF x, values

(* Whatever kernel is resolved for whatever inputs, at every bundle of the
   walk (control_flow.py:193-480) the value that _evaluate finds for an
   instruction (scalar.py:64-198) stands for every word the machine may
   write, wherever the allocations lie.                                    *)
THEOREM WalkSound == WalkSpec => [](ScalarsSound /\ SoundFor(Int))
<1>1. Init => WalkInv
  BY DEF Init, WalkInv
<1>2. WalkInv /\ [WalkNext]_walkVars => WalkInv'
  BY NextKeeps
<1>3. WalkInv => ScalarsSound /\ SoundFor(Int)
  <2>1. {0, 1} \in SUBSET Int
    OBVIOUS
  <2> QED BY <2>1, InvariantSound DEF ScalarsSound
<1> QED BY <1>1, <1>2, <1>3, PTL DEF WalkSpec
============================================================================
