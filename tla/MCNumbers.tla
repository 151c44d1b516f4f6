----------------------------- MODULE MCNumbers ------------------------------
(***************************************************************************)
(* Every short string over an alphabet with digits and letters on both     *)
(* sides of the bases, the prefixes, the minus sign, the quote and a       *)
(* character that is no digit, in several values of BASE.  The grammar of  *)
(* CF_Forth/docs/numbers.md (lines 4-25) gives the reference meaning: a    *)
(* sum over positions instead of a loop.                                   *)
(***************************************************************************)
EXTENDS Numbers, FiniteSetsExt

CONSTANTS Alphabet, Bases, MaxLength

ASSUME AlphabetAssumption == Alphabet \subseteq Byte
ASSUME BasesAssumption == Bases \subseteq 2 .. 36

VARIABLES
  text,   \* the string that was typed so far
  base    \* the value of BASE

vars == <<text, base>>

TypeOK == text \in Seq(Alphabet) /\ base \in Bases

Init == text = <<>> /\ base \in Bases

Type ==
  /\ Len(text) < MaxLength
  /\ \E c \in Alphabet : text' = Append(text, c)
  /\ UNCHANGED base

Spec == Init /\ [][Type]_vars

-----------------------------------------------------------------------------
(* The document's grammar.                                                 *)

\* <bdigit>: 0 .. 9, then the letters.
IsDigit(c, b) ==
  \/ c \in 48 .. 57  /\ c - 48 < b
  \/ c \in 65 .. 90  /\ c - 55 < b
  \/ c \in 97 .. 122 /\ c - 87 < b
DigitValue(c) ==
  CASE c \in 48 .. 57 -> c - 48 [] c \in 65 .. 90 -> c - 55 [] OTHER -> c - 87

\* The places of the digits of s: behind the prefix and the minus sign.
IsMinusAt(s, k) == k <= Len(s) /\ s[k] = Minus
Places(s, first) == (IF IsMinusAt(s, first) THEN first + 1 ELSE first) .. Len(s)

IsNumeral(s, first, b) ==
  Places(s, first) # {} /\ \A k \in Places(s, first) : IsDigit(s[k], b)

PowerOf(b, k) ==
  LET p[j \in 0 .. k] == IF j = 0 THEN 1 ELSE b * p[j - 1] IN p[k]

Meaning(s, first, b) ==
  LET sum == MapThenSumSet(LAMBDA k : DigitValue(s[k]) * PowerOf(b, Len(s) - k),
                           Places(s, first))
  IN  Wrap(IF IsMinusAt(s, first) THEN 0 - sum ELSE sum)

IsPrefixed(s) == s # <<>> /\ s[1] \in Prefix /\ IsNumeral(s, 2, BaseOf(s[1]))

\* <BASEnum>: (NUMBER) gives every numeral in the base of BASE its meaning, a
\* leading minus sign included, and so does the assembler in base 10.
BaseNumeralsRead ==
  /\ IsNumeral(text, 1, base) => PNumber(text, base) = Meaning(text, 1, base)
  /\ IsNumeral(text, 1, 10) => ReadNumber(text) = Meaning(text, 1, 10)

\* <decnum>, <hexnum> and <binnum>: the assembler reads every one of them, in
\* the base the prefix asks for and with its sign.
AssemblerReadsPrefixed ==
  IsPrefixed(text) => ReadNumber(text) = Meaning(text, 2, BaseOf(text[1]))

\* What the Forth system takes for a number the assembler does too, and it is
\* the same number, as long as BASE is 10.
ReadersAgree ==
  text # <<>> /\ base = 10 /\ PNumber(text, base) # Wrong =>
    ReadNumber(text) = PNumber(text, base)
=============================================================================
