------------------------------ MODULE Numbers -------------------------------
(***************************************************************************)
(* How the text of a number becomes a cell: instr_pnumber of the Forth     *)
(* system (CF_Forth_V2/src/ff.c) and read_number of the assembler          *)
(* (FAsm/src/fa.c), which share their loop over the digits.  A string is a *)
(* sequence of character codes.  Everything is kept modulo 2^16: a carry   *)
(* out of a cell never comes back, so this is also what the assembler's    *)
(* 64-bit result is modulo 2^16.                                           *)
(***************************************************************************)
EXTENDS Words

Minus   == 45
Quote   == 39
Percent == 37
Hash    == 35
Dollar  == 36

\* The base a prefix asks for.
Prefix == {Percent, Hash, Dollar}
BaseOf(prefix) == CASE prefix = Percent -> 2
                    [] prefix = Hash    -> 10
                    [] prefix = Dollar  -> 16

\* A string that is not a number.
Wrong == -1

\* to_digit: a letter of either case, or the distance from '0' of any other
\* character; -1 unless it is below the base.
ToDigit(c, base) ==
  LET d == CASE c \in 97 .. 122 -> c - 87
             [] c \in 65 .. 90  -> c - 55
             [] OTHER           -> c - 48
  IN  IF d >= base \/ d < 0 THEN -1 ELSE d

\* The loop of both functions, with start as the value of the first n
\* characters.  A minus sign multiplies like a digit, unless the number is
\* negative already.
Digits(s, n, start, base, negative) ==
  LET f[k \in n .. Len(s)] ==
        IF k = n THEN start
        ELSE IF f[k - 1] = Wrong THEN Wrong
        ELSE IF s[k] = Minus
               THEN IF negative THEN Wrong ELSE Mul(f[k - 1], base)
        ELSE IF ToDigit(s[k], base) < 0 THEN Wrong
        ELSE Wrap(Mul(f[k - 1], base) + ToDigit(s[k], base))
  IN  f[Len(s)]

Signed(value, negative) ==
  IF value # Wrong /\ negative THEN Wrap(0 - value) ELSE value

\* A character between quotes.  char is signed here.
Character(s) ==
  IF Len(s) = 3 /\ s[3] = Quote
    THEN IF s[2] < 128 THEN s[2] ELSE s[2] + 65280
    ELSE Wrong

\* Mutant of Unprefixed: a leading minus sign is read and forgotten.
UnprefixedPositive(s, base) ==
  IF s[1] = Minus THEN Digits(s, 1, 0, base, TRUE)
  ELSE IF ToDigit(s[1], base) < 0 THEN Wrong
  ELSE Digits(s, 1, ToDigit(s[1], base), base, FALSE)

\* The cases of both functions for a string that has no prefix.
Unprefixed(s, base) ==
  IF s[1] = Minus THEN Signed(Digits(s, 1, 0, base, TRUE), TRUE)
  ELSE IF ToDigit(s[1], base) < 0 THEN Wrong
  ELSE Digits(s, 1, ToDigit(s[1], base), base, FALSE)

\* Mutant of PNumber: the prefix does not set the base.
PNumberKeepsBase(s, base) ==
  IF s[1] = Quote THEN Character(s)
  ELSE IF s[1] \in Prefix
    THEN IF Len(s) <= 2 THEN Wrong
         ELSE Signed(Digits(s, 1, 0, base, s[2] = Minus), s[2] = Minus)
  ELSE Unprefixed(s, base)

\* instr_pnumber: a single digit behind a prefix is refused, and the minus
\* sign behind a prefix is met again by the loop, which refuses it.
PNumber(s, base) ==
  IF s[1] = Quote THEN Character(s)
  ELSE IF s[1] \in Prefix
    THEN IF Len(s) <= 2 THEN Wrong
         ELSE Signed(Digits(s, 1, 0, BaseOf(s[1]), s[2] = Minus), s[2] = Minus)
  ELSE Unprefixed(s, base)

\* Mutant of ReadNumber: the minus sign is not skipped.
ReadNumberUnskipped(s) ==
  IF s[1] = Quote THEN Character(s)
  ELSE IF s[1] \in Prefix
    THEN IF Len(s) = 1 THEN Wrong
         ELSE Signed(Digits(s, 1, 0, BaseOf(s[1]), s[2] = Minus), s[2] = Minus)
  ELSE Unprefixed(s, 10)

\* read_number, for a word that is not a symbol: the minus sign is skipped.
\* The test for a lone $- is written with the wrong variable: it is a zero.
ReadNumber(s) ==
  IF s[1] = Quote THEN Character(s)
  ELSE IF s[1] \in Prefix
    THEN LET negative == Len(s) > 1 /\ s[2] = Minus
             skipped  == IF negative THEN 2 ELSE 1
         IN  IF Len(s) = 1 \/ (negative /\ Len(s) = 2 /\ s[1] # Dollar) THEN Wrong
             ELSE Signed(Digits(s, skipped, 0, BaseOf(s[1]), negative), negative)
  ELSE Unprefixed(s, 10)
=============================================================================
