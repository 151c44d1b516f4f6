--------------------------- MODULE NumbersProofs ----------------------------
(***************************************************************************)
(* For strings of any length, over any alphabet of bytes: the two readers  *)
(* give a numeral of the document's grammar its meaning, and what the      *)
(* Forth system takes for a number the assembler takes for the same one.   *)
(* Both go through the digits in one loop, so these are inductions over    *)
(* the string.  The loop works from the left and drops what is carried     *)
(* out of a cell at each digit; the meaning is one sum over the places.    *)
(* The invariant that joins them: what was read, at its place, and the     *)
(* digits that are left, at theirs, are worth the whole modulo 2^16.       *)
(***************************************************************************)
EXTENDS MCNumbers, WordsTheorems

\* A string of the alphabet is one of bytes.
LEMMA TypeCorrect == Spec => []TypeOK
<1>1. Init => TypeOK
  BY DEF Init, TypeOK
<1>2. TypeOK /\ [Type]_vars => TypeOK'
  <2> SUFFICES ASSUME TypeOK, [Type]_vars PROVE TypeOK'
    OBVIOUS
  <2>1. CASE Type
    BY <2>1 DEF Type, TypeOK
  <2>2. CASE UNCHANGED vars
    BY <2>2 DEF vars, TypeOK
  <2> QED
    BY <2>1, <2>2
<1> QED
  BY <1>1, <1>2, PTL DEF Spec

LEMMA BytesTyped ==
  ASSUME TypeOK
  PROVE  text \in Seq(Byte)
<1>1. text \in Seq(Alphabet) /\ Alphabet \subseteq Byte
  BY AlphabetAssumption DEF TypeOK
<1> QED
  BY <1>1

\* instr_pnumber and read_number agree: a number behind a prefix that (NUMBER)
\* accepts has no minus sign, because the loop refuses the one it meets, and
\* without one both call the loop alike.
THEOREM ReadersAlwaysAgree == Spec => []ReadersAgree
<1>1. TypeOK => ReadersAgree
  <2> SUFFICES ASSUME TypeOK, text # <<>>, base = 10, PNumber(text, 10) # Wrong
               PROVE  ReadNumber(text) = PNumber(text, 10)
    BY DEF ReadersAgree
  <2> QED
    BY BytesTyped, SameNumber
<1> QED
  BY <1>1, TypeCorrect, PTL

-----------------------------------------------------------------------------
\* The sum that gives a numeral its meaning can be split.
LEMMA MeaningSum ==
  ASSUME NEW s, NEW first, NEW b, NEW f, IsFiniteSet(Places(s, first)),
         \A k \in Places(s, first) :
           f[k] = DigitValue(s[k]) * PowerOf(b, Len(s) - k)
  PROVE  \E g : /\ Summed(g, f, Places(s, first))
                /\ Meaning(s, first, b) =
                     Wrap(IF IsMinusAt(s, first)
                            THEN 0 - g[Places(s, first)]
                            ELSE g[Places(s, first)])
<1> DEFINE S == Places(s, first)
           Folded(g) ==
             g = [T \in SUBSET S |->
                    IF T = {} THEN 0
                    ELSE LET x == CHOOSE x \in T : TRUE
                         IN  DigitValue(s[x]) * PowerOf(b, Len(s) - x)
                               + g[T \ {x}]]
           h == CHOOSE g : Folded(g)
<1>1. Meaning(s, first, b) = Wrap(IF IsMinusAt(s, first) THEN 0 - h[S] ELSE h[S])
  BY DEF Meaning, MapThenSumSet, MapThenFoldSet
<1>2. ASSUME NEW g PROVE Folded(g) <=> Summed(g, f, S)
  <2> DEFINE at(T) == CHOOSE x \in T : TRUE
  <2>1. \A T \in SUBSET S : T # {} => at(T) \in S
    OBVIOUS
  <2> HIDE DEF at
  <2>2. \A T \in SUBSET S :
          T # {} => f[at(T)] = DigitValue(s[at(T)]) * PowerOf(b, Len(s) - at(T))
    BY <2>1
  <2> HIDE DEF S
  <2> QED
    BY <2>2 DEF Summed, at
<1>3. Folded(h)
  <2>1. PICK g : Summed(g, f, S)
    BY SumExists
  <2> HIDE DEF Folded
  <2> QED
    BY <1>2, <2>1
<1>4. Summed(h, f, S)
  BY <1>2, <1>3
<1> QED
  BY <1>1, <1>4

-----------------------------------------------------------------------------
(* Powers of the base.                                                     *)

PowersUpto(p, b, k) ==
  p = [j \in 0 .. k |-> IF j = 0 THEN 1 ELSE b * p[j - 1]]

LEMMA PowersRead ==
  ASSUME NEW b \in Int, NEW k \in Nat
  PROVE  \E p : /\ PowersUpto(p, b, k) /\ PowerOf(b, k) = p[k]
                /\ \A j \in 0 .. k : p[j] \in Int
<1> DEFINE h == CHOOSE p : PowersUpto(p, b, k)
           step == [x \in (0 .. k) \X Int |-> b * x[2]]
<1>1. PowerOf(b, k) = h[k]
  BY DEF PowerOf, PowersUpto
<1>2. step \in [(0 .. k) \X Int -> Int]
  OBVIOUS
<1>3. \A j \in 0 .. k, x \in Int : step[<<j, x>>] = b * x
  OBVIOUS
<1> HIDE DEF step
<1>4. PICK p : Recurs(p, 0, k, Int, 1, step)
  <2>1. 0 \in Int /\ k \in Int /\ 0 <= k /\ 1 \in Int
    OBVIOUS
  <2> QED
    BY <1>2, <2>1, Primitive
<1>5. \A j \in 0 .. k : p[j] \in Int /\ (j # 0 => j - 1 \in 0 .. k)
  BY <1>4 DEF Recurs
<1>6. PowersUpto(p, b, k)
  BY <1>3, <1>4, <1>5 DEF Recurs, PowersUpto
<1>7. PowersUpto(h, b, k)
  BY <1>6
<1> HIDE DEF h
<1>8. \A j \in 0 .. k : h[j] \in Int
  <2> DEFINE T == {j \in Int : h[j] \in Int}
  <2>1. 0 \in T
    BY <1>7 DEF PowersUpto
  <2>2. ASSUME NEW j \in Int, 0 <= j, j < k, j \in T PROVE j + 1 \in T
    <3>1. j + 1 \in 0 .. k /\ j + 1 # 0 /\ (j + 1) - 1 = j
      BY <2>2
    <3>2. h[j + 1] = b * h[j]
      BY <1>7, <3>1 DEF PowersUpto
    <3> QED
      BY <2>2, <3>2
  <2> HIDE DEF T
  <2>3. \A j \in 0 .. k : j \in T
    BY <2>1, <2>2, Along
  <2> QED
    BY <2>3 DEF T
<1> QED
  BY <1>1, <1>7, <1>8

LEMMA PowerSteps ==
  ASSUME NEW b \in Int, NEW k \in Nat
  PROVE  /\ PowerOf(b, 0) = 1
         /\ PowerOf(b, k) \in Int
         /\ PowerOf(b, k + 1) = b * PowerOf(b, k)
<1>1. PICK p : /\ PowersUpto(p, b, k) /\ PowerOf(b, k) = p[k]
               /\ \A j \in 0 .. k : p[j] \in Int
  BY PowersRead
<1>2. PICK r : PowersUpto(r, b, k + 1) /\ PowerOf(b, k + 1) = r[k + 1]
  BY PowersRead
<1>3. PowerOf(b, 0) = 1
  <2>1. PICK z : PowersUpto(z, b, 0) /\ PowerOf(b, 0) = z[0]
    BY PowersRead
  <2> QED
    BY <2>1 DEF PowersUpto
<1>4. r[k] = p[k]
  <2> DEFINE T == {j \in Int : r[j] = p[j]}
  <2>1. 0 \in T
    BY <1>1, <1>2 DEF PowersUpto
  <2>2. ASSUME NEW j \in Int, 0 <= j, j < k, j \in T PROVE j + 1 \in T
    <3>1. /\ j + 1 \in 0 .. k /\ j + 1 \in 0 .. k + 1 /\ j + 1 # 0
          /\ (j + 1) - 1 = j
      BY <2>2
    <3>2. p[j + 1] = b * p[j] /\ r[j + 1] = b * r[j]
      BY <1>1, <1>2, <3>1 DEF PowersUpto
    <3> QED
      BY <2>2, <3>2
  <2> HIDE DEF T
  <2>3. \A j \in 0 .. k : j \in T
    BY <2>1, <2>2, Along
  <2> QED
    BY <2>3 DEF T
<1>5. r[k + 1] = b * r[k]
  <2>1. k + 1 \in 0 .. k + 1 /\ k + 1 # 0 /\ (k + 1) - 1 = k
    OBVIOUS
  <2> QED
    BY <1>2, <2>1 DEF PowersUpto
<1>6. k \in 0 .. k
  OBVIOUS
<1> QED
  BY <1>1, <1>2, <1>3, <1>4, <1>5, <1>6

-----------------------------------------------------------------------------
(* Digits.                                                                 *)

\* A digit of the document's grammar is one to to_digit, with its value.
LEMMA DigitRead ==
  ASSUME NEW c \in Byte, NEW b \in 2 .. 36, IsDigit(c, b)
  PROVE  /\ DigitValue(c) \in 0 .. 35
         /\ ToDigit(c, b) = DigitValue(c)
         /\ c # Minus /\ c # Quote /\ c \notin Prefix
<1>1. c \in Int
  BY ByteInt
<1>2. CASE c \in 48 .. 57
  BY <1>1, <1>2 DEF IsDigit, DigitValue, ToDigit, Minus, Quote, Prefix, Percent, Hash, Dollar
<1>3. CASE c \in 65 .. 90
  BY <1>1, <1>3 DEF IsDigit, DigitValue, ToDigit, Minus, Quote, Prefix, Percent, Hash, Dollar
<1>4. CASE c \in 97 .. 122
  BY <1>1, <1>4 DEF IsDigit, DigitValue, ToDigit, Minus, Quote, Prefix, Percent, Hash, Dollar
<1> QED
  BY <1>2, <1>3, <1>4 DEF IsDigit

LEMMA CarryLost ==
  ASSUME NEW v \in Int, NEW b \in Int, NEW p \in Int, NEW d \in Int,
         NEW c \in Int, NEW t \in Int, NEW q \in Int
  PROVE  v * (b * p) + (d * p + t) + 65536 * q
           = ((v * b + d) - 65536 * c) * p + t + 65536 * (q + c * p)
<1> DEFINE vb == v * b
           vbp == vb * p
           dp == d * p
           cp == c * p
<1>1. vb \in Int /\ vbp \in Int /\ dp \in Int /\ cp \in Int
  OBVIOUS
<1>2. v * (b * p) = vbp
  OBVIOUS
<1>3. ((vb + d) - 65536 * c) * p = (vbp + dp) - 65536 * cp
  OBVIOUS
<1> HIDE DEF vbp, dp, cp
<1>4. vbp + (dp + t) + 65536 * q
        = ((vbp + dp) - 65536 * cp) + t + 65536 * (q + cp)
  BY <1>1
<1> QED
  BY <1>2, <1>3, <1>4 DEF cp, dp


\* What a number that is read so far and the characters behind it are worth,
\* p being the worth of the number's last place.
Worth(v, p, t) == v * p + t

\* One digit d more: v becomes w, and the last place moves from bp to p.
Reads(v, b, d, p, t, w, bp, dt) ==
  /\ v \in Word /\ b \in Word /\ d \in Int /\ p \in Int /\ t \in Int
  /\ w = Wrap(Mul(v, b) + d) /\ bp = b * p /\ dt = d * p + t

\* What is carried out of the cell changes nothing.
LEMMA StepKept ==
  ASSUME NEW v, NEW b, NEW d, NEW p, NEW t, NEW w, NEW bp, NEW dt,
         Reads(v, b, d, p, t, w, bp, dt)
  PROVE  Wrap(Worth(v, bp, dt)) = Wrap(Worth(w, p, t))
<1>0. /\ v \in Word /\ b \in Word /\ d \in Int /\ p \in Int /\ t \in Int
      /\ w = Wrap(Mul(v, b) + d) /\ bp = b * p /\ dt = d * p + t
  BY DEF Reads
<1>1. v \in Int /\ b \in Int /\ v * b \in Int
  BY <1>0, WordInt
<1>2. PICK m \in Int : Mul(v, b) = v * b - 65536 * m
  <2>1. v \in Word /\ b \in Word
    BY <1>0
  <2> QED
    BY <2>1, MulRest
<1> DEFINE n == Mul(v, b) + d
<1>3. n \in Int /\ n = (v * b + d) - 65536 * m
  BY <1>0, <1>1, <1>2
<1>4. w = Wrap(n)
  BY <1>0
<1> HIDE DEF n
<1>5. PICK r \in Int : Wrap(n) = n - 65536 * r
  <2>1. n \in Int
    BY <1>3
  <2> QED
    BY <2>1, WrapRest
<1> DEFINE c == m + r
<1>6. c \in Int /\ w = (v * b + d) - 65536 * c
  <2> DEFINE vbd == v * b + d
  <2>1. vbd \in Int
    BY <1>0, <1>1
  <2>2. n = vbd - 65536 * m
    BY <1>3
  <2> HIDE DEF vbd
  <2>3. c \in Int /\ w = vbd - 65536 * c
    BY <1>4, <1>5, <2>1, <2>2
  <2> QED
    BY <2>3 DEF vbd
<1> HIDE DEF c
<1> DEFINE q == c * p
           x == v * (b * p) + (d * p + t)
           y == w * p + t
<1>7. x = ((v * b + d) - 65536 * c) * p + t + 65536 * (0 + c * p)
  <2>0. d \in Int /\ p \in Int /\ t \in Int
    BY <1>0
  <2>1. 0 \in Int /\ x \in Int /\ x + 65536 * 0 = x
    BY <1>1, <2>0
  <2>2. v * (b * p) + (d * p + t) + 65536 * 0
          = ((v * b + d) - 65536 * c) * p + t + 65536 * (0 + c * p)
    BY <1>1, <1>6, <2>0, <2>1, CarryLost
  <2> QED
    BY <2>1, <2>2
<1>8. q \in Int /\ 0 + c * p = q
  <2>1. c \in Int /\ p \in Int
    BY <1>0, <1>6
  <2> QED
    BY <2>1
<1>9. y \in Int /\ x \in Int
  <2>1. w \in Int /\ d \in Int /\ p \in Int /\ t \in Int
    BY <1>0, <1>1, <1>6
  <2> QED
    BY <1>1, <2>1
<1>10. x = y + 65536 * q
  BY <1>6, <1>7, <1>8
<1>11. Wrap(x) = Wrap(y)
  <2> HIDE DEF x, y, q
  <2>1. q \in Int /\ y \in Int
    BY <1>8, <1>9
  <2>2. Wrap(y + 65536 * q) = Wrap(y)
    BY <2>1 DEF Wrap
  <2> QED
    BY <1>10, <2>2
<1> QED
  BY <1>0, <1>11 DEF Worth

\* The characters behind the n-th are digits; rest[k] is the worth of those
\* behind the k-th at their places.
RestOf(rest, s, n, b) ==
  /\ \A k \in n + 1 .. Len(s) : IsDigit(s[k], b)
  /\ \A k \in n .. Len(s) : rest[k] \in Int
  /\ rest[Len(s)] = 0
  /\ \A k \in n + 1 .. Len(s) :
       rest[k - 1] = DigitValue(s[k]) * PowerOf(b, Len(s) - k) + rest[k]

\* The loop over the digits begins with start as the value of n characters.
Begins(rest, s, n, start, b, negative) ==
  /\ s \in Seq(Byte) /\ b \in 2 .. 36 /\ start \in Word /\ negative \in BOOLEAN
  /\ n \in Nat /\ n >= 1 /\ n <= Len(s)
  /\ RestOf(rest, s, n, b)

\* It gives what it began with and the digits behind it what they are worth
\* at their places, up to carries out of a cell.
LEMMA DigitsMean ==
  ASSUME NEW rest, NEW s, NEW n, NEW start, NEW b, NEW negative,
         Begins(rest, s, n, start, b, negative)
  PROVE  Digits(s, n, start, b, negative)
           = Wrap(Worth(start, PowerOf(b, Len(s) - n), rest[n]))
<1> SUFFICES ASSUME s \in Seq(Byte), b \in 2 .. 36, start \in Word,
                    negative \in BOOLEAN, n \in Nat, n >= 1, n <= Len(s),
                    RestOf(rest, s, n, b)
             PROVE  Digits(s, n, start, b, negative)
                      = Wrap(Worth(start, PowerOf(b, Len(s) - n), rest[n]))
  BY DEF Begins
<1> DEFINE total == Worth(start, PowerOf(b, Len(s) - n), rest[n])
<1>0. b \in Word /\ b \in Int
  BY WordInt
<1>1. PICK f : /\ IsReading(f, s, n, start, b, negative)
               /\ Digits(s, n, start, b, negative) = f[Len(s)]
  <2>1. \E f : IsReading(f, s, n, start, b, negative)
    BY <1>0, Readable
  <2> QED
    BY <2>1, DigitsRead
<1>9. total = Worth(start, PowerOf(b, Len(s) - n), rest[n])
  OBVIOUS
<1> HIDE DEF total
<1> DEFINE Holds(k) ==
             /\ f[k] \in Word
             /\ Wrap(total) = Wrap(Worth(f[k], PowerOf(b, Len(s) - k), rest[k]))
           T == {k \in Int : Holds(k)}
<1>2. n \in T
  <2>1. n \in n .. Len(s) /\ n \in Int
    OBVIOUS
  <2>2. f[n] = start
    BY <1>1, <2>1 DEF IsReading
  <2> QED
    BY <1>9, <2>1, <2>2
<1>3. ASSUME NEW k \in Int, n <= k, k < Len(s), k \in T PROVE k + 1 \in T
  <2> DEFINE p == PowerOf(b, Len(s) - (k + 1))
             d == DigitValue(s[k + 1])
             t == rest[k + 1]
             v == f[k]
  <2>1. /\ k + 1 \in n .. Len(s) /\ k + 1 \in n + 1 .. Len(s) /\ k + 1 # n
        /\ (k + 1) - 1 = k /\ k \in n .. Len(s) /\ k + 1 \in 1 .. Len(s)
        /\ Len(s) - (k + 1) \in Nat /\ (Len(s) - (k + 1)) + 1 = Len(s) - k
    BY <1>3
  <2>2. p \in Int /\ PowerOf(b, Len(s) - k) = b * p
    BY <1>0, <2>1, PowerSteps
  <2>3. s[k + 1] \in Byte /\ IsDigit(s[k + 1], b)
    BY <2>1 DEF RestOf
  <2>4. d \in 0 .. 35 /\ ToDigit(s[k + 1], b) = d /\ s[k + 1] # Minus
    BY <2>3, DigitRead
  <2>5. t \in Int /\ rest[k] = d * p + t
    BY <2>1 DEF RestOf
  <2>6. v \in Word /\ v # Wrong /\ d \in Int /\ Mul(v, b) + d \in Int
    <3>1. v \in Word
      BY <1>3
    <3> HIDE DEF v, d
    <3>2. d \in Int
      BY <2>4
    <3>3. Mul(v, b) \in Int
      BY <1>0, <3>1, MulWord, WordInt
    <3>4. v # Wrong
      BY <3>1, WordInt DEF Wrong
    <3> QED
      BY <3>1, <3>2, <3>3, <3>4
  <2>7. f[k + 1] = Wrap(Mul(v, b) + d)
    <3>1. f[k + 1] =
           IF f[k] = Wrong THEN Wrong
           ELSE IF s[k + 1] = Minus
                  THEN IF negative THEN Wrong ELSE Mul(f[k], b)
           ELSE IF ToDigit(s[k + 1], b) < 0 THEN Wrong
           ELSE Wrap(Mul(f[k], b) + ToDigit(s[k + 1], b))
      <4> HIDE DEF p, d, t, v, T
      <4>1. k + 1 \in n .. Len(s) /\ k + 1 # n /\ (k + 1) - 1 = k
        BY <2>1
      <4> QED
        BY <1>1, <4>1 DEF IsReading
    <3>2. ~(ToDigit(s[k + 1], b) < 0)
      <4> HIDE DEF d
      <4> QED
        BY <2>4
    <3> HIDE DEF d
    <3> QED
      BY <2>4, <2>6, <3>1, <3>2
  <2>8. Wrap(total) = Wrap(Worth(v, PowerOf(b, Len(s) - k), rest[k]))
    BY <1>3
  <2> HIDE DEF p, d, t, v
  <2>10. Wrap(total) = Wrap(Worth(f[k + 1], p, t))
    <3> DEFINE w == f[k + 1]
               bp == PowerOf(b, Len(s) - k)
               dt == rest[k]
    <3>1. w = Wrap(Mul(v, b) + d) /\ bp = b * p /\ dt = d * p + t
      BY <2>2, <2>5, <2>7
    <3>2. b \in Word /\ v \in Word /\ d \in Int /\ p \in Int /\ t \in Int
      BY <1>0, <2>2, <2>5, <2>6
    <3>3. Wrap(total) = Wrap(Worth(v, bp, dt))
      BY <2>8
    <3> HIDE DEF w, bp, dt
    <3>5. Reads(v, b, d, p, t, w, bp, dt)
      BY <3>1, <3>2 DEF Reads
    <3>4. Wrap(Worth(v, bp, dt)) = Wrap(Worth(w, p, t))
      BY <3>5, StepKept
    <3> QED
      BY <3>3, <3>4 DEF w
  <2>11. f[k + 1] \in Word
    BY <2>6, <2>7, WrapWord
  <2> QED
    BY <1>3, <2>10, <2>11 DEF p, t
<1>4. Holds(Len(s))
  <2>1. n \in Int /\ Len(s) \in Int /\ Len(s) \in n .. Len(s)
    OBVIOUS
  <2>2. \A k \in n .. Len(s) : k \in T
    <3> HIDE DEF T
    <3> QED
      BY <1>2, <1>3, <2>1, Along
  <2> QED
    BY <2>1, <2>2
<1>5. PowerOf(b, Len(s) - Len(s)) = 1
  <2>1. Len(s) - Len(s) = 0 /\ 0 \in Nat
    OBVIOUS
  <2> QED
    BY <1>0, <2>1, PowerSteps
<1>6. Worth(f[Len(s)], PowerOf(b, Len(s) - Len(s)), rest[Len(s)]) = f[Len(s)]
  <2>1. f[Len(s)] * 1 + rest[Len(s)] = f[Len(s)]
    BY <1>4, WordInt DEF RestOf
  <2> QED
    BY <1>5, <2>1 DEF Worth
<1>7. Wrap(total) = Wrap(f[Len(s)])
  BY <1>4, <1>6
<1>8. Wrap(f[Len(s)]) = f[Len(s)]
  <2>1. f[Len(s)] \in Word
    BY <1>4
  <2> QED
    BY <2>1, WordInt DEF Wrap
<1> QED
  BY <1>1, <1>7, <1>8 DEF total

-----------------------------------------------------------------------------
(* Numerals.                                                               *)

\* What the digits of s from first to last are worth at their places.
Terms(s, S, b) == [k \in S |-> DigitValue(s[k]) * PowerOf(b, Len(s) - k)]

LEMMA TermsTyped ==
  ASSUME NEW s \in Seq(Byte), NEW b \in 2 .. 36, NEW S \in SUBSET (1 .. Len(s)),
         \A k \in S : IsDigit(s[k], b)
  PROVE  Terms(s, S, b) \in [S -> Int]
<1> SUFFICES ASSUME NEW k \in S
             PROVE  DigitValue(s[k]) * PowerOf(b, Len(s) - k) \in Int
  BY DEF Terms
<1>1. s[k] \in Byte /\ Len(s) - k \in Nat /\ IsDigit(s[k], b)
  OBVIOUS
<1> DEFINE d == DigitValue(s[k])
           p == PowerOf(b, Len(s) - k)
<1>2. d \in Int
  <2>1. d \in 0 .. 35
    BY <1>1, DigitRead
  <2> HIDE DEF d
  <2> QED
    BY <2>1
<1>3. p \in Int
  <2>1. b \in Int
    OBVIOUS
  <2> QED
    BY <1>1, <2>1, PowerSteps
<1> HIDE DEF d, p
<1>4. d * p \in Int
  BY <1>2, <1>3
<1> QED
  BY <1>4 DEF d, p

LEMMA RestSummed ==
  ASSUME NEW s \in Seq(Byte), NEW b \in 2 .. 36, NEW low \in Nat, low >= 1,
         NEW n \in Nat, n <= Len(s), low <= n + 1,
         \A k \in low .. Len(s) : IsDigit(s[k], b),
         NEW g, Summed(g, Terms(s, low .. Len(s), b), low .. Len(s))
  PROVE  RestOf([k \in n .. Len(s) |-> g[k + 1 .. Len(s)]], s, n, b)
<1> DEFINE S == low .. Len(s)
           f == Terms(s, S, b)
           rest == [k \in n .. Len(s) |-> g[k + 1 .. Len(s)]]
<1>1. S \in SUBSET (1 .. Len(s)) /\ low \in Int /\ Len(s) \in Int
  OBVIOUS
<1>2. f \in [S -> Int]
  BY <1>1, TermsTyped
<1>3. IsFiniteSet(S)
  BY <1>1, FS_Interval
<1>4. \A T \in SUBSET S : g[T] \in Int /\ \A x \in T : g[T] = f[x] + g[T \ {x}]
  <2>1. Summed(g, f, S)
    OBVIOUS
  <2> HIDE DEF f, S
  <2> QED
    BY <1>2, <1>3, <2>1, SumSplits
<1>5. \A k \in n .. Len(s) : k + 1 .. Len(s) \in SUBSET S
  OBVIOUS
<1>6. \A k \in n .. Len(s) : rest[k] = g[k + 1 .. Len(s)] /\ rest[k] \in Int
  <2> HIDE DEF S
  <2> QED
    BY <1>4, <1>5
<1>7. rest[Len(s)] = 0
  <2>1. Len(s) \in n .. Len(s) /\ Len(s) + 1 .. Len(s) = {}
    OBVIOUS
  <2>2. g[{}] = 0
    BY DEF Summed
  <2> QED
    BY <2>1, <2>2
<1>8. ASSUME NEW k \in n + 1 .. Len(s)
      PROVE  rest[k - 1] = DigitValue(s[k]) * PowerOf(b, Len(s) - k) + rest[k]
  <2>1. /\ k \in n .. Len(s) /\ k - 1 \in n .. Len(s) /\ (k - 1) + 1 = k
        /\ k \in k .. Len(s) /\ (k .. Len(s)) \ {k} = k + 1 .. Len(s)
        /\ k \in low .. Len(s)
    OBVIOUS
  <2>2. k .. Len(s) \in SUBSET S
    BY <1>5, <2>1
  <2>3. g[k .. Len(s)] = f[k] + g[k + 1 .. Len(s)]
    <3> HIDE DEF f, S
    <3> QED
      BY <1>4, <2>1, <2>2
  <2>4. f[k] = DigitValue(s[k]) * PowerOf(b, Len(s) - k)
    BY <2>1 DEF Terms
  <2>5. rest[k - 1] = g[k .. Len(s)] /\ rest[k] = g[k + 1 .. Len(s)]
    BY <2>1
  <2> HIDE DEF rest, f
  <2> QED
    BY <2>3, <2>4, <2>5
<1> HIDE DEF rest
<1>9. \A k \in n + 1 .. Len(s) : IsDigit(s[k], b)
  OBVIOUS
<1> QED
  BY <1>6, <1>7, <1>8, <1>9 DEF RestOf, rest

\* A numeral, behind a prefix or not, and the sum it stands for.
Numeral(s, first, b) ==
  /\ s \in Seq(Byte) /\ b \in 2 .. 36 /\ first \in {1, 2}
  /\ IsNumeral(s, first, b)

StandsFor(s, first, b, g) ==
  LET S == Places(s, first)
  IN  /\ Summed(g, Terms(s, S, b), S)
      /\ g[S] \in Int
      /\ Meaning(s, first, b)
           = Wrap(IF IsMinusAt(s, first) THEN 0 - g[S] ELSE g[S])

LEMMA NumeralSum ==
  ASSUME NEW s, NEW first, NEW b, Numeral(s, first, b)
  PROVE  \E g : StandsFor(s, first, b, g)
<1> DEFINE S == Places(s, first)
           f == Terms(s, S, b)
<1>1. s \in Seq(Byte) /\ b \in 2 .. 36
  BY DEF Numeral
<1>2. /\ S \in SUBSET (1 .. Len(s)) /\ IsFiniteSet(S)
      /\ \A k \in S : IsDigit(s[k], b)
  <2> DEFINE low == IF IsMinusAt(s, first) THEN first + 1 ELSE first
  <2>1. low \in Int /\ 1 <= low /\ S = low .. Len(s) /\ Len(s) \in Int
    BY DEF Numeral, Places
  <2>2. \A k \in S : IsDigit(s[k], b)
    BY DEF Numeral, IsNumeral
  <2> HIDE DEF low, S
  <2> QED
    BY <2>1, <2>2, FS_Interval
<1>3. f \in [S -> Int]
  <2> HIDE DEF S
  <2> QED
    BY <1>1, <1>2, TermsTyped
<1>4. \A k \in S : f[k] = DigitValue(s[k]) * PowerOf(b, Len(s) - k)
  BY DEF Terms
<1> HIDE DEF f
<1>5. PICK g : /\ Summed(g, f, S)
               /\ Meaning(s, first, b) =
                    Wrap(IF IsMinusAt(s, first) THEN 0 - g[S] ELSE g[S])
  BY <1>2, <1>4, MeaningSum
<1>6. g[S] \in Int
  <2> HIDE DEF S
  <2> QED
    BY <1>2, <1>3, <1>5, SumSplits
<1> QED
  BY <1>5, <1>6 DEF f, StandsFor

Found(s, n, first, b, negative) ==
  \E x \in Int :
    /\ Digits(s, n, 0, b, negative) = Wrap(x)
    /\ Meaning(s, first, b) = Wrap(IF IsMinusAt(s, first) THEN 0 - x ELSE x)

\* Behind a sign, or behind a prefix, the loop starts with nothing read.
LEMMA FromNothing ==
  ASSUME NEW s, NEW first, NEW b, Numeral(s, first, b),
         NEW n \in {1, 2}, NEW negative \in BOOLEAN,
         Places(s, first) = n + 1 .. Len(s)
  PROVE  Found(s, n, first, b, negative)
<1>1. s \in Seq(Byte) /\ b \in 2 .. 36
  BY DEF Numeral
<1>2. PICK g : StandsFor(s, first, b, g)
  BY NumeralSum
<1> DEFINE S == n + 1 .. Len(s)
           rest == [k \in n .. Len(s) |-> g[k + 1 .. Len(s)]]
           p == PowerOf(b, Len(s) - n)
<1>3. /\ n \in Nat /\ n >= 1 /\ n <= Len(s) /\ n + 1 \in Nat /\ n + 1 >= 1
      /\ 0 \in Word /\ \A k \in S : IsDigit(s[k], b)
  <2>1. S # {} /\ \A k \in S : IsDigit(s[k], b)
    BY DEF Numeral, IsNumeral
  <2> QED
    BY <1>1, <2>1, WordInt
<1>4. /\ Summed(g, Terms(s, S, b), S) /\ g[S] \in Int
      /\ Meaning(s, first, b)
           = Wrap(IF IsMinusAt(s, first) THEN 0 - g[S] ELSE g[S])
  BY <1>2 DEF StandsFor
<1>5. RestOf(rest, s, n, b)
  <2> DEFINE low == n + 1
  <2>1. low \in Nat /\ low >= 1 /\ low <= n + 1 /\ n \in Nat /\ n <= Len(s)
    BY <1>3
  <2>2. /\ Summed(g, Terms(s, low .. Len(s), b), low .. Len(s))
        /\ \A k \in low .. Len(s) : IsDigit(s[k], b)
    BY <1>3, <1>4
  <2> HIDE DEF low
  <2> QED
    BY <1>1, <2>1, <2>2, RestSummed
<1>6. rest[n] = g[S]
  BY <1>3
<1>7. Worth(0, p, rest[n]) = g[S]
  <2>1. p \in Int
    <3>1. Len(s) - n \in Nat /\ b \in Int
      BY <1>1, <1>3
    <3> QED
      BY <3>1, PowerSteps
  <2> HIDE DEF p, rest, S
  <2> QED
    BY <1>4, <1>6, <2>1 DEF Worth
<1> HIDE DEF rest, S
<1>8. Digits(s, n, 0, b, negative) = Wrap(g[S])
  <2>1. Begins(rest, s, n, 0, b, negative)
    BY <1>1, <1>3, <1>5 DEF Begins
  <2> QED
    BY <1>7, <2>1, DigitsMean
<1> QED
  BY <1>4, <1>8 DEF Found

\* Without either it starts with the first digit.
LEMMA FromDigit ==
  ASSUME NEW s, NEW b, Numeral(s, 1, b), ~IsMinusAt(s, 1)
  PROVE  /\ ToDigit(s[1], b) \in Int /\ ToDigit(s[1], b) >= 0
         /\ s[1] # Quote /\ s[1] \notin Prefix
         /\ Digits(s, 1, ToDigit(s[1], b), b, FALSE) = Meaning(s, 1, b)
<1>1. s \in Seq(Byte) /\ b \in 2 .. 36
  BY DEF Numeral
<1>2. PICK g : StandsFor(s, 1, b, g)
  BY NumeralSum
<1> DEFINE S == 1 .. Len(s)
           f == Terms(s, S, b)
           d == DigitValue(s[1])
           p == PowerOf(b, Len(s) - 1)
           rest == [k \in 1 .. Len(s) |-> g[k + 1 .. Len(s)]]
<1>3. Places(s, 1) = S
  BY DEF Places
<1>4. 1 <= Len(s) /\ \A k \in S : IsDigit(s[k], b)
  <2>1. S # {} /\ \A k \in S : IsDigit(s[k], b)
    BY <1>3 DEF Numeral, IsNumeral
  <2> QED
    BY <1>1, <2>1
<1>5. Summed(g, f, S) /\ g[S] \in Int /\ Meaning(s, 1, b) = Wrap(g[S])
  BY <1>2, <1>3 DEF StandsFor
<1>6. s[1] \in Byte /\ IsDigit(s[1], b)
  BY <1>1, <1>4
<1>7. /\ d \in 0 .. 35 /\ ToDigit(s[1], b) = d
      /\ s[1] # Quote /\ s[1] \notin Prefix
  BY <1>1, <1>6, DigitRead
<1> HIDE DEF d
<1>8. d \in Int /\ d >= 0 /\ d \in Word
  BY <1>7, WordInt
<1>9. RestOf(rest, s, 1, b)
  <2> DEFINE low == 1
             n == 1
  <2>1. low \in Nat /\ low >= 1 /\ low <= n + 1 /\ n \in Nat /\ n <= Len(s)
    BY <1>1, <1>4
  <2>2. /\ Summed(g, Terms(s, low .. Len(s), b), low .. Len(s))
        /\ \A k \in low .. Len(s) : IsDigit(s[k], b)
    BY <1>4, <1>5
  <2> HIDE DEF low, n
  <2>3. RestOf([k \in n .. Len(s) |-> g[k + 1 .. Len(s)]], s, n, b)
    BY <1>1, <2>1, <2>2, RestSummed
  <2> QED
    BY <2>3 DEF n
<1>10. Worth(d, p, rest[1]) = g[S]
  <2>1. 1 \in S /\ rest[1] = g[S \ {1}]
    <3>1. 1 \in S /\ S \ {1} = 1 + 1 .. Len(s)
      BY <1>1, <1>4
    <3> QED
      BY <3>1
  <2>2. S \in SUBSET S /\ S \in SUBSET (1 .. Len(s)) /\ IsFiniteSet(S)
    <3>1. 1 \in Int /\ Len(s) \in Int
      BY <1>1
    <3> QED
      BY <3>1, FS_Interval
  <2>3. f[1] = d * p
    BY <2>1 DEF Terms, d
  <2>4. f \in [S -> Int]
    <3>1. \A k \in S : IsDigit(s[k], b)
      BY <1>4
    <3>2. S \in SUBSET (1 .. Len(s))
      BY <2>2
    <3> HIDE DEF S
    <3> QED
      BY <1>1, <3>1, <3>2, TermsTyped
  <2> HIDE DEF f, S, rest, p
  <2>5. g[S] = f[1] + g[S \ {1}]
    <3>1. \A T \in SUBSET S :
            g[T] \in Int /\ \A x \in T : g[T] = f[x] + g[T \ {x}]
      <4>1. Summed(g, f, S) /\ IsFiniteSet(S)
        BY <1>5, <2>2
      <4> QED
        BY <2>4, <4>1, SumSplits
    <3>2. S \in SUBSET S /\ 1 \in S
      BY <2>1
    <3> QED
      BY <3>1, <3>2
  <2> QED
    BY <2>1, <2>3, <2>5 DEF Worth
<1> HIDE DEF rest, S
<1>11. Digits(s, 1, d, b, FALSE) = Wrap(g[S])
  <2>1. Begins(rest, s, 1, d, b, FALSE)
    <3>1. 1 \in Nat /\ 1 >= 1 /\ 1 <= Len(s) /\ d \in Word
      BY <1>4, <1>8
    <3>2. FALSE \in BOOLEAN
      OBVIOUS
    <3> QED
      BY <1>1, <1>9, <3>1, <3>2, Zenon DEF Begins
  <2>2. Digits(s, 1, d, b, FALSE) = Wrap(Worth(d, p, rest[1]))
    BY <2>1, DigitsMean
  <2> QED
    BY <1>10, <2>2
<1> QED
  BY <1>5, <1>7, <1>8, <1>11

\* The sign is put where it belongs.
LEMMA SignKept ==
  ASSUME NEW x \in Int
  PROVE  Signed(Wrap(x), TRUE) = Wrap(0 - x) /\ Signed(Wrap(x), FALSE) = Wrap(x)
<1>1. Wrap(x) \in Word /\ Wrap(0 - Wrap(x)) = Wrap(0 - x)
  BY WrapWord, WrapMinus
<1>2. Wrap(x) # Wrong
  BY <1>1, WordInt DEF Wrong
<1> QED
  BY <1>1, <1>2 DEF Signed

\* What is typed without a prefix, read in a base that has its digits.
LEMMA UnprefixedMeans ==
  ASSUME NEW s, NEW b, Numeral(s, 1, b)
  PROVE  /\ Unprefixed(s, b) = Meaning(s, 1, b)
         /\ s[1] # Quote /\ s[1] \notin Prefix
<1>1. s \in Seq(Byte) /\ Places(s, 1) # {}
  BY DEF Numeral, IsNumeral
<1>2. CASE IsMinusAt(s, 1)
  <2>1. s[1] = Minus /\ Places(s, 1) = 1 + 1 .. Len(s)
    BY <1>2 DEF IsMinusAt, Places
  <2>2. PICK x \in Int : /\ Digits(s, 1, 0, b, TRUE) = Wrap(x)
                         /\ Meaning(s, 1, b) = Wrap(0 - x)
    <3> DEFINE n == 1
               negative == TRUE
    <3>1. n \in {1, 2} /\ negative \in BOOLEAN /\ Places(s, 1) = n + 1 .. Len(s)
      BY <2>1
    <3>2. Numeral(s, 1, b)
      OBVIOUS
    <3> HIDE DEF n, negative
    <3>3. Found(s, n, 1, b, negative)
      BY <3>1, <3>2, FromNothing
    <3> QED
      BY <1>2, <3>3 DEF Found, n, negative
  <2>3. Unprefixed(s, b) = Signed(Wrap(x), TRUE)
    BY <2>1, <2>2 DEF Unprefixed
  <2>4. Minus # Quote /\ Minus \notin Prefix
    BY DEF Minus, Quote, Prefix, Percent, Hash, Dollar
  <2> QED
    BY <2>1, <2>2, <2>3, <2>4, SignKept
<1>3. CASE ~IsMinusAt(s, 1)
  <2>1. s[1] # Minus
    <3>1. 1 <= Len(s)
      BY <1>1, <1>3 DEF Places
    <3> QED
      BY <1>3, <3>1 DEF IsMinusAt
  <2>2. /\ ToDigit(s[1], b) \in Int /\ ToDigit(s[1], b) >= 0
        /\ s[1] # Quote /\ s[1] \notin Prefix
        /\ Digits(s, 1, ToDigit(s[1], b), b, FALSE) = Meaning(s, 1, b)
    BY <1>3, FromDigit
  <2>3. ~(ToDigit(s[1], b) < 0)
    BY <2>2
  <2> QED
    BY <2>1, <2>2, <2>3 DEF Unprefixed
<1> QED
  BY <1>2, <1>3

\* What the assembler finds behind a prefix.
LEMMA PrefixedMeans ==
  ASSUME NEW s, Numeral(s, 2, BaseOf(s[1])), s[1] \in Prefix
  PROVE  ReadNumber(s) = Meaning(s, 2, BaseOf(s[1]))
<1> DEFINE b == BaseOf(s[1])
<1>1. s \in Seq(Byte) /\ Places(s, 2) # {} /\ s[1] # Quote
  BY DEF Numeral, IsNumeral, Quote, Prefix, Percent, Hash, Dollar
<1> HIDE DEF b
<1>2. CASE IsMinusAt(s, 2)
  <2>1. s[2] = Minus /\ Places(s, 2) = 2 + 1 .. Len(s)
    BY <1>2 DEF IsMinusAt, Places
  <2>2. Len(s) > 2
    BY <1>1, <2>1
  <2>3. PICK x \in Int : /\ Digits(s, 2, 0, b, TRUE) = Wrap(x)
                         /\ Meaning(s, 2, b) = Wrap(0 - x)
    <3> DEFINE n == 2
               negative == TRUE
    <3>1. n \in {1, 2} /\ negative \in BOOLEAN /\ Places(s, 2) = n + 1 .. Len(s)
      BY <2>1
    <3>2. Numeral(s, 2, b)
      BY DEF b
    <3> HIDE DEF n, negative
    <3>3. Found(s, n, 2, b, negative)
      BY <3>1, <3>2, FromNothing
    <3> QED
      BY <1>2, <3>3 DEF Found, n, negative
  <2>4. ReadNumber(s) = Signed(Digits(s, 2, 0, b, TRUE), TRUE)
    <3>1. (Len(s) > 1 /\ s[2] = Minus) = TRUE
      BY <1>1, <2>1, <2>2
    <3>2. Len(s) # 1 /\ Len(s) # 2
      <4> DEFINE l == Len(s)
      <4>1. l \in Int /\ l > 2
        BY <1>1, <2>2
      <4> HIDE DEF l
      <4>2. l # 1 /\ l # 2
        BY <4>1
      <4> QED
        BY <4>2 DEF l
    <3> QED
      BY <1>1, <3>1, <3>2 DEF ReadNumber, b
  <2> QED
    BY <2>3, <2>4, SignKept DEF b
<1>3. CASE ~IsMinusAt(s, 2)
  <2>1. Places(s, 2) = 1 + 1 .. Len(s) /\ Len(s) > 1 /\ s[2] # Minus
    <3>1. Places(s, 2) = 2 .. Len(s)
      BY <1>3 DEF Places
    <3>2. Len(s) > 1
      BY <1>1, <3>1
    <3> QED
      BY <1>1, <1>3, <3>1, <3>2 DEF IsMinusAt
  <2>2. PICK x \in Int : /\ Digits(s, 1, 0, b, FALSE) = Wrap(x)
                         /\ Meaning(s, 2, b) = Wrap(x)
    <3> DEFINE n == 1
               negative == FALSE
    <3>1. n \in {1, 2} /\ negative \in BOOLEAN /\ Places(s, 2) = n + 1 .. Len(s)
      BY <2>1
    <3>2. Numeral(s, 2, b)
      BY DEF b
    <3> HIDE DEF n, negative
    <3>3. Found(s, n, 2, b, negative)
      BY <3>1, <3>2, FromNothing
    <3> QED
      BY <1>3, <3>3 DEF Found, n, negative
  <2>3. ReadNumber(s) = Signed(Digits(s, 1, 0, b, FALSE), FALSE)
    <3>1. (Len(s) > 1 /\ s[2] = Minus) = FALSE /\ Len(s) # 1
      BY <1>1, <2>1
    <3> QED
      BY <1>1, <3>1 DEF ReadNumber, b
  <2> QED
    BY <2>2, <2>3, SignKept DEF b
<1> QED
  BY <1>2, <1>3

-----------------------------------------------------------------------------
(* The theorems.                                                           *)

\* <BASEnum>: (NUMBER) gives every numeral in the base of BASE its meaning,
\* a leading minus sign included, and so does the assembler in base 10.
THEOREM BaseNumeralsAlwaysRead == Spec => []BaseNumeralsRead
<1>1. TypeOK => BaseNumeralsRead
  <2> SUFFICES ASSUME TypeOK PROVE BaseNumeralsRead
    OBVIOUS
  <2>1. text \in Seq(Byte) /\ base \in 2 .. 36 /\ 10 \in 2 .. 36 /\ 1 \in {1, 2}
    BY BytesTyped, BasesAssumption DEF TypeOK
  <2>2. ASSUME IsNumeral(text, 1, base)
        PROVE  PNumber(text, base) = Meaning(text, 1, base)
    <3>1. Numeral(text, 1, base)
      BY <2>1, <2>2 DEF Numeral
    <3> QED
      BY <3>1, UnprefixedMeans DEF PNumber
  <2>3. ASSUME IsNumeral(text, 1, 10)
        PROVE  ReadNumber(text) = Meaning(text, 1, 10)
    <3>1. Numeral(text, 1, 10)
      BY <2>1, <2>3 DEF Numeral
    <3> QED
      BY <3>1, UnprefixedMeans DEF ReadNumber
  <2> QED
    BY <2>2, <2>3 DEF BaseNumeralsRead
<1> QED
  BY <1>1, TypeCorrect, PTL

\* <decnum>, <hexnum> and <binnum>: the assembler reads every one of them, of
\* any length and with its sign, in the base its prefix asks for.
THEOREM AssemblerAlwaysReadsPrefixed == Spec => []AssemblerReadsPrefixed
<1>1. TypeOK => AssemblerReadsPrefixed
  <2> SUFFICES ASSUME TypeOK, IsPrefixed(text)
               PROVE  ReadNumber(text) = Meaning(text, 2, BaseOf(text[1]))
    BY DEF AssemblerReadsPrefixed
  <2>1. text[1] \in Prefix /\ IsNumeral(text, 2, BaseOf(text[1]))
    BY DEF IsPrefixed
  <2>2. BaseOf(text[1]) \in 2 .. 36
    BY <2>1 DEF BaseOf, Prefix, Percent, Hash, Dollar
  <2>3. Numeral(text, 2, BaseOf(text[1]))
    BY <2>1, <2>2, BytesTyped DEF Numeral
  <2> QED
    BY <2>1, <2>3, PrefixedMeans
<1> QED
  BY <1>1, TypeCorrect, PTL
=============================================================================
