---------------------------- MODULE WordsTheorems ---------------------------
(***************************************************************************)
(* Facts about the 16-bit arithmetic of module Words: every operation on   *)
(* cells gives a cell, and carries out of a cell change nothing.  Then     *)
(* induction, from the least element of a set of naturals; sums over a     *)
(* finite set, which may be taken in any order; and what the readers of    *)
(* module Numbers make of a string of any length.                          *)
(***************************************************************************)
EXTENDS Numbers, WellFoundedInduction, FiniteSetTheorems, TLAPS

\* What it is to be a byte and a cell, as the rest of the proofs use it.
LEMMA ByteInt == \A n : n \in Byte <=> n \in Int /\ 0 <= n /\ n <= 255
  BY DEF Byte

LEMMA WordInt == \A n : n \in Word <=> n \in Int /\ 0 <= n /\ n <= 65535
  BY DEF Word

\* A uint16_t keeps any integer within a cell.
LEMMA WrapWord == \A n \in Int : Wrap(n) \in Word
  BY DEF Wrap, Word

\* Both truth values are cells.
LEMMA TruthWord == \A b : Truth(b) \in Word
  BY WordInt DEF Truth, True, False

\* So are both readings of a cell integers.
LEMMA ToSignedInt == \A n \in Word : n \in Int /\ ToSigned(n) \in Int
  BY WordInt DEF ToSigned

\* The powers of two that shifts use.
LEMMA PowerNat == \A k \in 0 .. 15 : Power[k + 1] \in Nat \ {0}
<1> SUFFICES ASSUME NEW k \in 0 .. 15 PROVE Power[k + 1] \in Nat \ {0}
  OBVIOUS
<1>1. k \in {0, 1, 2, 3, 4, 5, 6, 7} \/ k \in {8, 9, 10, 11, 12, 13, 14, 15}
  OBVIOUS
<1> QED BY <1>1 DEF Power

\* An integer divided by a positive one is an integer.
LEMMA DivInt == \A n \in Int, d \in Nat \ {0} : n \div d \in Int
  OBVIOUS

\* The low and the high byte of a sum of powers of two are bytes.
LEMMA DigitsByte == \A P : LowByte(P) \in Byte /\ HighByte(P) \in Byte
<1> SUFFICES ASSUME NEW P
             PROVE  LowByte(P) \in Byte /\ HighByte(P) \in Byte
  OBVIOUS
<1> DEFINE d(i) == Digit(P, i)
<1>1. \A i : d(i) \in Int /\ 0 <= d(i) /\ d(i) <= 1
  BY DEF Digit
<1> HIDE DEF d
<1>2. ASSUME NEW a, NEW b, NEW c, NEW e
      PROVE  LET q == d(a) + 2*d(b) + 4*d(c) + 8*d(e)
             IN  q \in Int /\ 0 <= q /\ q <= 15
  BY <1>1
<1>3. ASSUME NEW a, NEW b, NEW c, NEW e
      PROVE  LET q == 16*d(a) + 32*d(b) + 64*d(c) + 128*d(e)
             IN  q \in Int /\ 0 <= q /\ q <= 240
  BY <1>1
<1> QED BY <1>1, ByteInt DEF LowByte, HighByte, d

\* The bitwise operators give cells, whatever they are applied to.
LEMMA FromBitsWord == \A P : FromBits(P) \in Word
<1> SUFFICES ASSUME NEW P PROVE FromBits(P) \in Word
  OBVIOUS
<1>1. /\ LowByte(P) \in Int /\ 0 <= LowByte(P) /\ LowByte(P) <= 255
      /\ HighByte(P) \in Int /\ 0 <= HighByte(P) /\ HighByte(P) <= 255
  BY DigitsByte, ByteInt
<1> QED BY <1>1, WordInt DEF FromBits

\* Products are cells.
LEMMA MulWord == \A m, n \in Word : Mul(m, n) \in Word
<1> SUFFICES ASSUME NEW m \in Word, NEW n \in Word PROVE Mul(m, n) \in Word
  OBVIOUS
<1>1. m \in Int /\ n \in Int
  BY WordInt
<1>2. m \div 256 \in Int /\ m % 256 \in Int
  BY <1>1
<1>3. (m \div 256) * n \in Int /\ (m % 256) * n \in Int
  BY <1>1, <1>2
<1>4. Wrap((m \div 256) * n) \in Word
  BY <1>3, WrapWord
<1>5. Wrap((m \div 256) * n) \in Int
  BY <1>4, WordInt
<1>6. Wrap((m \div 256) * n) * 256 + (m % 256) * n \in Int
  BY <1>3, <1>5
<1> QED BY <1>6, WrapWord DEF Mul

\* So are the results of the three shifts, for every count.
LEMMA ShiftWord ==
  \A n \in Word, k \in Nat :
    /\ ShiftLeft(n, k) \in Word
    /\ ShiftRight(n, k) \in Word
    /\ ShiftArithmetic(n, k) \in Word
<1> SUFFICES ASSUME NEW n \in Word, NEW k \in Nat
             PROVE  /\ ShiftLeft(n, k) \in Word
                    /\ ShiftRight(n, k) \in Word
                    /\ ShiftArithmetic(n, k) \in Word
  OBVIOUS
<1>1. CASE k < 16
  <2> DEFINE p == Power[k + 1]
  <2>1. p \in Nat \ {0}
    BY <1>1, PowerNat
  <2>2. n \in Int /\ ToSigned(n) \in Int
    BY ToSignedInt
  <2> HIDE DEF p
  <2>3. n * p \in Int
    BY <2>1, <2>2
  <2>4. n \div p \in Int /\ ToSigned(n) \div p \in Int
    BY <2>1, <2>2, DivInt
  <2>5. Wrap(n * p) \in Word /\ Wrap(n \div p) \in Word
        /\ Wrap(ToSigned(n) \div p) \in Word
    BY <2>3, <2>4, WrapWord
  <2> QED BY <1>1, <2>5 DEF ShiftLeft, ShiftRight, ShiftArithmetic, p
<1>2. CASE ~(k < 16)
  <2>1. 0 \in Word
    BY WordInt
  <2> QED
    BY <1>2, <2>1, TruthWord DEF ShiftLeft, ShiftRight, ShiftArithmetic
<1> QED BY <1>1, <1>2

\* The counts of a shift are natural numbers.
LEMMA ShiftCountsNat == \A u \in Word : ShiftCounts(u) \subseteq Nat
  BY WordInt DEF ShiftCounts

-----------------------------------------------------------------------------
(* Arithmetic modulo 2^16.                                                 *)

LEMMA WrapRest ==
  ASSUME NEW n \in Int
  PROVE  \E q \in Int : Wrap(n) = n - 65536 * q
<1> WITNESS n \div 65536 \in Int
<1> QED
  BY DEF Wrap

LEMMA WrapSame ==
  ASSUME NEW n \in Int, NEW w \in Word, NEW q \in Int, n = w + 65536 * q
  PROVE  Wrap(n) = w
  BY WordInt DEF Wrap

LEMMA WrapMinus ==
  ASSUME NEW n \in Int
  PROVE  Wrap(0 - Wrap(n)) = Wrap(0 - n)
<1>1. PICK q \in Int : Wrap(n) = n - 65536 * q
  BY WrapRest
<1>2. PICK r \in Int : Wrap(0 - Wrap(n)) = (0 - Wrap(n)) - 65536 * r
  BY <1>1, WrapRest
<1> DEFINE w == Wrap(0 - Wrap(n))
<1>3. w \in Word
  BY <1>1, WrapWord
<1>4. w = (0 - (n - 65536 * q)) - 65536 * r
  BY <1>1, <1>2
<1> HIDE DEF w
<1>5. 0 - n = w + 65536 * (r - q) /\ r - q \in Int /\ 0 - n \in Int
  BY <1>3, <1>4, WordInt
<1> DEFINE d == r - q
<1>6. 0 - n = w + 65536 * d /\ d \in Int
  BY <1>5
<1> HIDE DEF d
<1>7. Wrap(0 - n) = w
  BY <1>3, <1>5, <1>6, WrapSame
<1> QED
  BY <1>7 DEF w

\* Splitting a factor of a product leaves its low 16 bits what they are.
LEMMA MulRest ==
  ASSUME NEW m \in Word, NEW n \in Word
  PROVE  \E q \in Int : Mul(m, n) = m * n - 65536 * q
<1>1. m \in Int /\ n \in Int
  BY WordInt
<1> DEFINE high == m \div 256
           low  == m % 256
<1>2. high \in Int /\ low \in Int /\ m = 256 * high + low
  BY <1>1
<1> HIDE DEF high, low
<1> DEFINE hn == high * n
           ln == low * n
<1>3. hn \in Int /\ ln \in Int /\ m * n = 256 * hn + ln
  BY <1>1, <1>2
<1> HIDE DEF hn, ln
<1>4. PICK p \in Int : Wrap(hn) = hn - 65536 * p
  BY <1>3, WrapRest
<1>5. PICK r \in Int : Wrap(Wrap(hn) * 256 + ln) = (Wrap(hn) * 256 + ln) - 65536 * r
  BY <1>3, <1>4, WrapRest
<1>6. Mul(m, n) = Wrap(Wrap(hn) * 256 + ln)
  BY DEF Mul, hn, ln, high, low
<1> DEFINE q == 256 * p + r
<1>7. q \in Int /\ Mul(m, n) = m * n - 65536 * q
  BY <1>3, <1>4, <1>5, <1>6
<1> HIDE DEF q
<1> QED
  BY <1>7

-----------------------------------------------------------------------------
(* Induction.                                                              *)

\* A set of naturals has a least element.
LEMMA Least ==
  ASSUME NEW T, T \subseteq Nat, T # {}
  PROVE  \E n \in T : \A m \in T : n <= m
<1> DEFINE R == {p \in Nat \X Nat : p[1] < p[2]}
<1>1. IsWellFoundedOn(R, Nat)
  BY NatLessThanWellFounded DEF OpToRel
<1> HIDE DEF R
<1>2. \E n \in T : \A m \in T : ~ (<<m, n>> \in R)
  BY <1>1, WFMin
<1>3. \A n, m \in Nat : ~ (<<m, n>> \in R) => n <= m
  BY DEF R
<1> QED
  BY <1>2, <1>3

\* Induction over an interval: what holds of its first number and is passed on
\* from each to the next holds of all of them.
LEMMA Along ==
  ASSUME NEW a \in Int, NEW b \in Int, NEW T, a \in T,
         \A k \in Int : a <= k /\ k < b /\ k \in T => k + 1 \in T
  PROVE  \A k \in a .. b : k \in T
<1> DEFINE L == {n \in Nat : a + n <= b /\ a + n \notin T}
<1>1. L = {}
  <2> SUFFICES ASSUME L # {} PROVE FALSE
    OBVIOUS
  <2>1. L \subseteq Nat
    OBVIOUS
  <2>2. PICK n \in L : \A m \in L : n <= m
    <3> HIDE DEF L
    <3> QED
      BY <2>1, Least
  <2>3. n \in Nat /\ a + n <= b /\ a + n \notin T /\ n # 0
    BY <2>2
  <2>4. n - 1 \in Nat /\ a + (n - 1) < b /\ a <= a + (n - 1)
        /\ a + (n - 1) \in Int /\ (a + (n - 1)) + 1 = a + n
    BY <2>3
  <2>5. a + (n - 1) \in T
    BY <2>2, <2>4
  <2> QED
    BY <2>3, <2>4, <2>5
<1>2. ASSUME NEW k \in a .. b PROVE k \in T
  <2>1. k - a \in Nat /\ a + (k - a) = k /\ k <= b
    <3> HIDE DEF L
    <3> QED
      OBVIOUS
  <2> QED
    BY <1>1, <2>1
<1> QED
  BY <1>2

\* A function that is defined from its values one place earlier exists: step
\* gives the value at a place from the one before.
Recurs(f, a, b, V, v, step) ==
  /\ f \in [a .. b -> V]
  /\ \A k \in a .. b : f[k] = IF k = a THEN v ELSE step[<<k, f[k - 1]>>]

LEMMA Primitive ==
  ASSUME NEW a \in Int, NEW b \in Int, a <= b, NEW V, NEW v \in V,
         NEW step \in [(a .. b) \X V -> V]
  PROVE  \E f : Recurs(f, a, b, V, v, step)
<1> DEFINE Upto(f, n) == /\ f \in [a .. n -> V]
                         /\ \A k \in a .. n :
                              f[k] = IF k = a THEN v ELSE step[<<k, f[k - 1]>>]
           Has(n) == \E f : Upto(f, n)
           T == {n \in Int : Has(n)}
<1>1. Has(a)
  <2> DEFINE f == [k \in a .. a |-> v]
  <2>1. Upto(f, a)
    OBVIOUS
  <2> QED
    BY <2>1
<1>2. ASSUME NEW n \in Int, a <= n, n < b, Has(n)
      PROVE  Has(n + 1)
  <2>1. PICK f : Upto(f, n)
    BY <1>2
  <2> DEFINE g == [k \in a .. n + 1 |->
                     IF k = n + 1 THEN step[<<n + 1, f[n]>>] ELSE f[k]]
  <2>2. /\ n + 1 \in a .. b /\ n \in a .. n /\ n + 1 # a
        /\ (n + 1) - 1 = n /\ n + 1 \in a .. n + 1 /\ n \in a .. n + 1
        /\ n # n + 1
    <3> HIDE DEF g
    <3> QED
      BY <1>2
  <2>9. ASSUME NEW k \in a .. n + 1, k # n + 1 PROVE k \in a .. n
    BY <1>2, <2>9
  <2>10. ASSUME NEW k \in a .. n
         PROVE  k # n + 1 /\ k \in a .. n + 1
                /\ (k # a => k - 1 \in a .. n /\ k - 1 \in a .. n + 1
                             /\ k - 1 # n + 1)
    BY <1>2
  <2>3. f[n] \in V /\ <<n + 1, f[n]>> \in (a .. b) \X V
    BY <2>1, <2>2
  <2>4. step[<<n + 1, f[n]>>] \in V
    BY <2>3
  <2>5. g \in [a .. n + 1 -> V]
    BY <2>1, <2>4, <2>9
  <2>6. g[n + 1] = step[<<n + 1, g[n]>>]
    BY <2>2
  <2>7. \A k \in a .. n : g[k] = IF k = a THEN v ELSE step[<<k, g[k - 1]>>]
    BY <2>1, <2>10
  <2> HIDE DEF g
  <2>8. Upto(g, n + 1)
    BY <2>2, <2>5, <2>6, <2>7, <2>9
  <2> QED
    BY <2>8
<1>3. a \in T /\ \A n \in Int : a <= n /\ n < b /\ n \in T => n + 1 \in T
  <2> HIDE DEF Has
  <2> QED
    BY <1>1, <1>2
<1>4. b \in T
  <2> HIDE DEF T
  <2>1. b \in a .. b
    OBVIOUS
  <2> QED
    BY <1>3, <2>1, Along
<1> QED
  BY <1>4 DEF Recurs

\* A character is a digit of the base or none.
LEMMA ToDigitInt ==
  ASSUME NEW c \in Byte, NEW base \in Word
  PROVE  /\ ToDigit(c, base) \in Int
         /\ ToDigit(c, base) >= 0 => ToDigit(c, base) \in Word
<1>1. c \in Int /\ 0 <= c /\ c <= 255
  BY ByteInt
<1> DEFINE low   == c \in 97 .. 122
           upper == c \in 65 .. 90
           d     == CASE low -> c - 87 [] upper -> c - 55 [] OTHER -> c - 48
<1>2. d \in Int /\ d <= 255
  <2>1. /\ c - 87 \in Int /\ c - 55 \in Int /\ c - 48 \in Int
        /\ c - 87 <= 255 /\ c - 55 <= 255 /\ c - 48 <= 255
    BY <1>1
  <2> HIDE DEF low, upper
  <2> QED
    BY <2>1
<1>3. ToDigit(c, base) = IF d >= base \/ d < 0 THEN -1 ELSE d
  BY DEF ToDigit
<1> HIDE DEF d
<1> QED
  BY <1>2, <1>3, WordInt

-----------------------------------------------------------------------------
(* Sums over a set, as MapThenSumSet computes them: it takes the elements  *)
(* in the order of CHOOSE.                                                 *)

\* g gives every part of S the sum of f over it.
Summed(g, f, S) ==
  g = [T \in SUBSET S |->
         IF T = {} THEN 0
         ELSE LET x == CHOOSE x \in T : TRUE IN f[x] + g[T \ {x}]]

LEMMA PartFinite ==
  ASSUME NEW S, IsFiniteSet(S), NEW T \in SUBSET S, NEW x \in T
  PROVE  /\ Cardinality(T) \in Nat /\ Cardinality(T) > 0
         /\ T \ {x} \in SUBSET S
         /\ Cardinality(T \ {x}) = Cardinality(T) - 1
<1>1. IsFiniteSet(T)
  BY FS_Subset
<1>2. Cardinality(T) \in Nat /\ (Cardinality(T) = 0 <=> T = {})
  BY <1>1, FS_CardinalityType, FS_EmptySet
<1>3. Cardinality(T \ {x}) = Cardinality(T) - 1
  BY <1>1, FS_RemoveElement
<1> QED
  BY <1>2, <1>3

LEMMA NoPart ==
  ASSUME NEW S, IsFiniteSet(S), NEW T \in SUBSET S, Cardinality(T) <= 0
  PROVE  T = {}
<1>1. ASSUME NEW x \in T PROVE FALSE
  <2>1. Cardinality(T) \in Nat /\ Cardinality(T) > 0
    BY PartFinite
  <2> QED
    BY <2>1
<1> QED
  BY <1>1

LEMMA SumExists ==
  ASSUME NEW S, IsFiniteSet(S), NEW f
  PROVE  \E g : Summed(g, f, S)
<1> DEFINE Pick(T) == CHOOSE x \in T : TRUE
           Value(g, T) == IF T = {} THEN 0 ELSE f[Pick(T)] + g[T \ {Pick(T)}]
           Upto(g, n) == /\ g = [T \in SUBSET S |-> g[T]]
                         /\ \A T \in SUBSET S : Cardinality(T) <= n => g[T] = Value(g, T)
           C == {n \in Int : \E g : Upto(g, n)}
<1>1. Cardinality(S) \in Nat
  BY FS_CardinalityType
<1>2. \A T \in SUBSET S : T # {} => Pick(T) \in T
  OBVIOUS
<1>3. 0 \in C
  <2> DEFINE g == [T \in SUBSET S |-> 0]
  <2>1. \A T \in SUBSET S : Cardinality(T) <= 0 => T = {}
    BY NoPart
  <2>2. g = [T \in SUBSET S |-> g[T]]
    OBVIOUS
  <2>3. ASSUME NEW T \in SUBSET S, T = {} PROVE g[T] = Value(g, T)
    BY <2>3
  <2> HIDE DEF g, Value
  <2>4. \A T \in SUBSET S : Cardinality(T) <= 0 => g[T] = Value(g, T)
    BY <2>1, <2>3
  <2>5. Upto(g, 0)
    BY <2>2, <2>4
  <2> HIDE DEF Upto
  <2> QED
    BY <2>5
<1>4. ASSUME NEW n \in Int, 0 <= n, n < Cardinality(S), n \in C
      PROVE  n + 1 \in C
  <2>1. PICK g : Upto(g, n)
    BY <1>4
  <2> DEFINE h == [T \in SUBSET S |-> Value(g, T)]
  <2>2. ASSUME NEW T \in SUBSET S, Cardinality(T) <= n + 1
        PROVE  h[T] = Value(h, T)
    <3>1. CASE T = {}
      BY <3>1
    <3>2. CASE T # {}
      <4> DEFINE x == Pick(T)
      <4>1. x \in T
        BY <1>2, <3>2
      <4> HIDE DEF Pick
      <4> HIDE DEF x
      <4>2. T \ {x} \in SUBSET S /\ Cardinality(T \ {x}) <= n
        BY <1>4, <2>2, <4>1, PartFinite
      <4> HIDE DEF Value
      <4>3. g[T \ {x}] = h[T \ {x}]
        BY <2>1, <4>2
      <4>4. h[T] = f[x] + g[T \ {x}]
        BY <3>2 DEF x, Value
      <4>5. Value(h, T) = f[x] + h[T \ {x}]
        BY <3>2 DEF x, Value
      <4> QED
        BY <4>3, <4>4, <4>5
    <3> QED
      BY <3>1, <3>2
  <2>3. h = [T \in SUBSET S |-> h[T]]
    <3> HIDE DEF Value
    <3> QED
      OBVIOUS
  <2> HIDE DEF h
  <2>4. Upto(h, n + 1)
    BY <2>2, <2>3
  <2> HIDE DEF Upto
  <2> QED
    BY <1>4, <2>4
<1> HIDE DEF C
<1>5. Cardinality(S) \in C
  BY <1>1, <1>3, <1>4, Along
<1>6. PICK g : Upto(g, Cardinality(S))
  BY <1>5 DEF C
<1>7. \A T \in SUBSET S : Cardinality(T) <= Cardinality(S)
  BY FS_Subset
<1> HIDE DEF Value
<1>8. g = [T \in SUBSET S |-> Value(g, T)]
  BY <1>6, <1>7
<1> QED
  BY <1>8 DEF Summed, Value, Pick

LEMMA SumSplits ==
  ASSUME NEW S, IsFiniteSet(S), NEW f \in [S -> Int],
         NEW g, Summed(g, f, S)
  PROVE  \A T \in SUBSET S :
           g[T] \in Int /\ \A x \in T : g[T] = f[x] + g[T \ {x}]
<1> DEFINE Good(T) == g[T] \in Int /\ \A x \in T : g[T] = f[x] + g[T \ {x}]
           Pick(T) == CHOOSE x \in T : TRUE
           C == {n \in Int : \A T \in SUBSET S : Cardinality(T) <= n => Good(T)}
<1>1. Cardinality(S) \in Nat
  BY FS_CardinalityType
<1>2. \A T \in SUBSET S : T # {} => Pick(T) \in T /\ g[T] = f[Pick(T)] + g[T \ {Pick(T)}]
  BY DEF Summed
<1>3. g[{}] = 0
  BY DEF Summed
<1> HIDE DEF Pick
<1>4. 0 \in C
  <2>1. \A T \in SUBSET S : Cardinality(T) <= 0 => T = {}
    BY NoPart
  <2> QED
    BY <1>3, <2>1
<1>5. ASSUME NEW n \in Int, 0 <= n, n < Cardinality(S), n \in C
      PROVE  n + 1 \in C
  <2> SUFFICES ASSUME NEW T \in SUBSET S, Cardinality(T) <= n + 1
               PROVE  Good(T)
    BY <1>5
  <2>1. CASE T = {}
    BY <1>3, <2>1
  <2>2. CASE T # {}
    <3> DEFINE y == Pick(T)
    <3>1. y \in T /\ g[T] = f[y] + g[T \ {y}]
      BY <1>2, <2>2
    <3>2. \A x \in T : /\ T \ {x} \in SUBSET S /\ Cardinality(T \ {x}) <= n
      BY <1>5, PartFinite
    <3> HIDE DEF y, Good
    <3>3. \A x \in T : Good(T \ {x})
      BY <1>5, <3>2
    <3>4. \A x \in T : f[x] \in Int
      OBVIOUS
    <3>5. g[T] \in Int
      BY <3>1, <3>3, <3>4 DEF Good
    <3>6. ASSUME NEW x \in T, x # y
          PROVE  g[T] = f[x] + g[T \ {x}]
      <4>1. x \in T \ {y} /\ y \in T \ {x} /\ (T \ {x}) \ {y} = (T \ {y}) \ {x}
        BY <3>1, <3>6
      <4> DEFINE r == g[(T \ {y}) \ {x}]
      <4>2. g[T \ {y}] = f[x] + r
        BY <3>1, <3>3, <4>1 DEF Good
      <4>3. g[T \ {x}] = f[y] + r
        BY <3>3, <4>1 DEF Good
      <4>4. r \in Int
        <5>1. Good((T \ {y}) \ {x})
          <6>1. T \ {y} \in SUBSET S /\ (T \ {y}) \ {x} \in SUBSET S
            OBVIOUS
          <6>2. Cardinality(T \ {y}) <= n /\ Cardinality(T \ {y}) \in Nat
            BY <3>1, <3>2, <4>1, <6>1, PartFinite
          <6>3. Cardinality((T \ {y}) \ {x}) = Cardinality(T \ {y}) - 1
            BY <4>1, <6>1, PartFinite
          <6>4. Cardinality((T \ {y}) \ {x}) <= n
            BY <6>2, <6>3
          <6> QED
            BY <1>5, <6>1, <6>4
        <5> QED
          BY <5>1 DEF Good
      <4> HIDE DEF r
      <4> QED
        BY <3>1, <3>4, <4>2, <4>3, <4>4
    <3> QED
      BY <3>1, <3>5, <3>6 DEF Good
  <2> QED
    BY <2>1, <2>2
<1> HIDE DEF C
<1>6. Cardinality(S) \in C
  BY <1>1, <1>4, <1>5, Along
<1>7. \A T \in SUBSET S : Cardinality(T) <= Cardinality(S)
  BY FS_Subset
<1> QED
  BY <1>6, <1>7 DEF C

-----------------------------------------------------------------------------
(* Numbers.                                                                *)

\* The value of the digits up to a place, as Digits computes it.
IsReading(f, s, n, start, base, negative) ==
  f = [k \in n .. Len(s) |->
         IF k = n THEN start
         ELSE IF f[k - 1] = Wrong THEN Wrong
         ELSE IF s[k] = Minus
                THEN IF negative THEN Wrong ELSE Mul(f[k - 1], base)
         ELSE IF ToDigit(s[k], base) < 0 THEN Wrong
         ELSE Wrap(Mul(f[k - 1], base) + ToDigit(s[k], base))]

LEMMA DigitsRead ==
  ASSUME NEW s, NEW n, NEW start, NEW base, NEW negative,
         \E f : IsReading(f, s, n, start, base, negative)
  PROVE  \E f : /\ IsReading(f, s, n, start, base, negative)
                /\ Digits(s, n, start, base, negative) = f[Len(s)]
<1> DEFINE h == CHOOSE f : IsReading(f, s, n, start, base, negative)
<1>1. Digits(s, n, start, base, negative) = h[Len(s)]
  BY DEF Digits, IsReading
<1>2. IsReading(h, s, n, start, base, negative)
  OBVIOUS
<1> QED
  BY <1>1, <1>2

\* The reading exists.
LEMMA Readable ==
  ASSUME NEW s \in Seq(Byte), NEW n \in Nat, n >= 1, n <= Len(s),
         NEW start \in Word, NEW base \in Word, NEW negative \in BOOLEAN
  PROVE  \E f : IsReading(f, s, n, start, base, negative)
<1> DEFINE V == Word \cup {Wrong}
           Step(k, x) ==
             IF x = Wrong THEN Wrong
             ELSE IF s[k] = Minus
               THEN IF negative THEN Wrong ELSE Mul(x, base)
             ELSE IF ToDigit(s[k], base) < 0 THEN Wrong
             ELSE Wrap(Mul(x, base) + ToDigit(s[k], base))
           step == [p \in (n .. Len(s)) \X V |-> Step(p[1], p[2])]
<1>1. ASSUME NEW k \in n .. Len(s), NEW x \in V PROVE Step(k, x) \in V
  <2>1. s[k] \in Byte
    OBVIOUS
  <2>2. ToDigit(s[k], base) \in Int
    BY <2>1, ToDigitInt
  <2>3. CASE x \in Word
    <3>1. Mul(x, base) \in Word /\ Mul(x, base) \in Int
      BY <2>3, MulWord, WordInt
    <3>2. Wrap(Mul(x, base) + ToDigit(s[k], base)) \in Word
      BY <2>2, <3>1, WrapWord
    <3> QED
      BY <3>1, <3>2
  <2> QED
    BY <2>3
<1> HIDE DEF Step
<1>2. step \in [(n .. Len(s)) \X V -> V]
  BY <1>1
<1>3. \A k \in n .. Len(s), x \in V : step[<<k, x>>] = Step(k, x)
  OBVIOUS
<1>4. n \in Int /\ Len(s) \in Int /\ n <= Len(s) /\ start \in V
  OBVIOUS
<1> HIDE DEF step, V
<1>5. PICK f : Recurs(f, n, Len(s), V, start, step)
  BY <1>2, <1>4, Primitive
<1>6. \A k \in n .. Len(s) : f[k] = IF k = n THEN start ELSE Step(k, f[k - 1])
  <2>1. \A k \in n .. Len(s) : k # n => k - 1 \in n .. Len(s)
    OBVIOUS
  <2> QED
    BY <1>3, <1>5, <2>1 DEF Recurs
<1>7. f = [k \in n .. Len(s) |-> IF k = n THEN start ELSE Step(k, f[k - 1])]
  BY <1>5, <1>6 DEF Recurs
<1> QED
  BY <1>7 DEF IsReading, Step

LEMMA DigitsWord ==
  ASSUME NEW s \in Seq(Byte), NEW n \in Nat, n >= 1, n <= Len(s),
         NEW start \in Word, NEW base \in Word, NEW negative \in BOOLEAN
  PROVE  Digits(s, n, start, base, negative) \in Word \cup {Wrong}
<1>1. PICK f : /\ IsReading(f, s, n, start, base, negative)
               /\ Digits(s, n, start, base, negative) = f[Len(s)]
  BY Readable, DigitsRead
<1> DEFINE T == {k \in Int : f[k] \in Word \cup {Wrong}}
<1>2. n \in T
  BY <1>1 DEF IsReading
<1>3. ASSUME NEW k \in Int, n <= k, k < Len(s), k \in T PROVE k + 1 \in T
  <2>1. k + 1 \in n .. Len(s) /\ k + 1 # n /\ (k + 1) - 1 = k
    BY <1>3
  <2>2. f[k + 1] =
         IF f[k] = Wrong THEN Wrong
         ELSE IF s[k + 1] = Minus
                THEN IF negative THEN Wrong ELSE Mul(f[k], base)
         ELSE IF ToDigit(s[k + 1], base) < 0 THEN Wrong
         ELSE Wrap(Mul(f[k], base) + ToDigit(s[k + 1], base))
    BY <1>1, <2>1 DEF IsReading
  <2>3. s[k + 1] \in Byte
    BY <2>1
  <2>4. ToDigit(s[k + 1], base) \in Int
    BY <2>3, ToDigitInt
  <2>5. CASE f[k] \in Word
    <3>1. Mul(f[k], base) \in Word /\ Mul(f[k], base) \in Int
      BY <2>5, MulWord, WordInt
    <3>2. Wrap(Mul(f[k], base) + ToDigit(s[k + 1], base)) \in Word
      BY <2>4, <3>1, WrapWord
    <3>3. f[k + 1] \in Word \cup {Wrong}
      BY <2>2, <3>1, <3>2
    <3> QED
      BY <3>3
  <2> QED
    BY <1>3, <2>2, <2>5
<1>4. \A k \in n .. Len(s) : k \in T
  <2>1. n \in Int /\ Len(s) \in Int
    OBVIOUS
  <2> HIDE DEF T
  <2> QED
    BY <1>2, <1>3, <2>1, Along
<1> QED
  BY <1>1, <1>4

\* What is wrong once stays wrong.
LEMMA WrongStays ==
  ASSUME NEW f, NEW s \in Seq(Byte), NEW n \in Nat, NEW start, NEW base,
         NEW negative, IsReading(f, s, n, start, base, negative),
         NEW m \in n .. Len(s), f[m] = Wrong
  PROVE  f[Len(s)] = Wrong
<1> DEFINE T == {k \in Int : f[k] = Wrong}
<1>1. m \in T /\ m \in Int /\ Len(s) \in Int /\ Len(s) \in m .. Len(s)
  OBVIOUS
<1>2. ASSUME NEW k \in Int, m <= k, k < Len(s), k \in T PROVE k + 1 \in T
  <2>1. k + 1 \in n .. Len(s) /\ k + 1 # n /\ (k + 1) - 1 = k
    BY <1>2
  <2> QED
    BY <1>2, <2>1 DEF IsReading
<1>3. \A k \in m .. Len(s) : k \in T
  <2> HIDE DEF T
  <2> QED
    BY <1>1, <1>2, Along
<1> QED
  BY <1>1, <1>3

LEMMA SignedWord ==
  ASSUME NEW v \in Word \cup {Wrong}, NEW negative \in BOOLEAN
  PROVE  Signed(v, negative) \in Word \cup {Wrong}
<1>1. CASE v \in Word
  <2>1. 0 - v \in Int
    BY <1>1, WordInt
  <2>2. Wrap(0 - v) \in Word
    BY <2>1, WrapWord
  <2> QED
    BY <1>1, <2>2 DEF Signed
<1>2. CASE v = Wrong
  BY <1>2 DEF Signed
<1> QED
  BY <1>1, <1>2

LEMMA CharacterWord ==
  ASSUME NEW s \in Seq(Byte)
  PROVE  Character(s) \in Word \cup {Wrong}
<1>1. CASE Len(s) = 3
  <2>1. s[2] \in Int /\ 0 <= s[2] /\ s[2] <= 255
    <3>1. s[2] \in Byte
      BY <1>1
    <3> QED
      BY <3>1, ByteInt
  <2>2. s[2] \in Word /\ (~(s[2] < 128) => s[2] + 65280 \in Word)
    BY <2>1, WordInt
  <2> QED
    BY <2>2 DEF Character
<1>2. CASE Len(s) # 3
  BY <1>2 DEF Character
<1> QED
  BY <1>1, <1>2

LEMMA BaseOfWord == \A p \in Prefix : BaseOf(p) \in Word
  BY WordInt DEF BaseOf, Prefix, Percent, Hash, Dollar

LEMMA UnprefixedWord ==
  ASSUME NEW s \in Seq(Byte), s # <<>>, NEW base \in Word
  PROVE  Unprefixed(s, base) \in Word \cup {Wrong}
<1>1. 1 \in Nat /\ 1 >= 1 /\ 1 <= Len(s) /\ s[1] \in Byte
  OBVIOUS
<1>2. CASE s[1] = Minus
  <2>1. Digits(s, 1, 0, base, TRUE) \in Word \cup {Wrong}
    <3>1. 0 \in Word /\ TRUE \in BOOLEAN
      BY WordInt
    <3> QED
      BY <1>1, <3>1, DigitsWord, Zenon
  <2> QED
    BY <1>2, <2>1, SignedWord DEF Unprefixed
<1>3. CASE s[1] # Minus /\ ToDigit(s[1], base) < 0
  BY <1>3 DEF Unprefixed
<1>4. CASE s[1] # Minus /\ ~(ToDigit(s[1], base) < 0)
  <2>1. ToDigit(s[1], base) \in Word
    BY <1>1, <1>4, ToDigitInt
  <2>2. Digits(s, 1, ToDigit(s[1], base), base, FALSE) \in Word \cup {Wrong}
    <3>1. FALSE \in BOOLEAN
      OBVIOUS
    <3> QED
      BY <1>1, <2>1, <3>1, DigitsWord, Zenon
  <2> QED
    BY <1>4, <2>2 DEF Unprefixed
<1> QED
  BY <1>2, <1>3, <1>4

\* Whatever (NUMBER) takes for a number is a cell.
LEMMA PNumberWord ==
  ASSUME NEW s \in Seq(Byte), s # <<>>, NEW base \in Word
  PROVE  PNumber(s, base) \in Word \cup {Wrong}
<1>1. 1 \in Nat /\ 1 >= 1 /\ 1 <= Len(s)
  OBVIOUS
<1>2. CASE s[1] = Quote
  BY <1>2, CharacterWord DEF PNumber
<1>3. CASE s[1] # Quote /\ s[1] \in Prefix
  <2> DEFINE v == Digits(s, 1, 0, BaseOf(s[1]), s[2] = Minus)
  <2>1. BaseOf(s[1]) \in Word /\ 0 \in Word
    BY <1>3, BaseOfWord, WordInt
  <2>2. v \in Word \cup {Wrong}
    <3>1. (s[2] = Minus) \in BOOLEAN
      OBVIOUS
    <3> QED
      BY <1>1, <2>1, <3>1, DigitsWord, Zenon
  <2>3. Signed(v, s[2] = Minus) \in Word \cup {Wrong}
    BY <2>2, SignedWord
  <2> QED
    BY <1>3, <2>3 DEF PNumber
<1>4. CASE s[1] # Quote /\ s[1] \notin Prefix
  BY <1>4, UnprefixedWord DEF PNumber
<1> QED
  BY <1>2, <1>3, <1>4

\* A minus sign makes a number that is negative already wrong.
LEMMA SecondMinus ==
  ASSUME NEW s \in Seq(Byte), Len(s) > 2, s[2] = Minus, NEW base \in Word
  PROVE  Digits(s, 1, 0, base, TRUE) = Wrong
<1>1. 1 \in Nat /\ 1 >= 1 /\ 1 <= Len(s) /\ 2 \in 1 .. Len(s) /\ 0 \in Word
  BY WordInt
<1>2. PICK f : /\ IsReading(f, s, 1, 0, base, TRUE)
               /\ Digits(s, 1, 0, base, TRUE) = f[Len(s)]
  <2>1. TRUE \in BOOLEAN
    OBVIOUS
  <2>2. \E f : IsReading(f, s, 1, 0, base, TRUE)
    BY <1>1, <2>1, Readable, Zenon
  <2> QED
    BY <2>2, DigitsRead, Zenon
<1>3. f[2] = Wrong
  BY <1>1, <1>2 DEF IsReading
<1> QED
  BY <1>1, <1>2, <1>3, WrongStays

\* Both programs give a string that (NUMBER) takes for a number the same value.
LEMMA SameNumber ==
  ASSUME NEW s \in Seq(Byte), s # <<>>, PNumber(s, 10) # Wrong
  PROVE  ReadNumber(s) = PNumber(s, 10)
<1>1. CASE s[1] = Quote
  BY <1>1 DEF PNumber, ReadNumber
<1>2. CASE s[1] # Quote /\ s[1] \in Prefix
  <2> DEFINE base == BaseOf(s[1])
  <2>1. base \in Word
    BY <1>2, BaseOfWord
  <2>2. Len(s) > 2 /\ Len(s) > 1 /\ Len(s) # 1
    BY <1>2 DEF PNumber
  <2>3. PNumber(s, 10) = Signed(Digits(s, 1, 0, base, s[2] = Minus), s[2] = Minus)
    BY <1>2, <2>2 DEF PNumber
  <2> HIDE DEF base
  <2>4. s[2] # Minus
    <3> SUFFICES ASSUME s[2] = Minus PROVE FALSE
      OBVIOUS
    <3>1. Digits(s, 1, 0, base, TRUE) = Wrong
      BY <2>1, <2>2, SecondMinus
    <3>2. (s[2] = Minus) = TRUE
      OBVIOUS
    <3>3. PNumber(s, 10) = Signed(Wrong, TRUE)
      BY <2>3, <3>1, <3>2
    <3> QED
      BY <3>3 DEF Signed
  <2>5. (s[2] = Minus) = FALSE
    BY <2>4
  <2>6. PNumber(s, 10) = Signed(Digits(s, 1, 0, base, FALSE), FALSE)
    BY <2>3, <2>5
  <2>7. ReadNumber(s) = Signed(Digits(s, 1, 0, base, FALSE), FALSE)
    BY <1>2, <2>2, <2>5 DEF ReadNumber, base
  <2> QED
    BY <2>6, <2>7
<1>3. CASE s[1] # Quote /\ s[1] \notin Prefix
  BY <1>3 DEF PNumber, ReadNumber
<1> QED
  BY <1>1, <1>2, <1>3
=============================================================================
