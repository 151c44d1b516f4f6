------------------------------- MODULE Words --------------------------------
(***************************************************************************)
(* The 16-bit arithmetic of the Stackmaster-16 as FPEmu/src/fpemu.c        *)
(* computes it with uint16_t and int16_t operands.  A cell is the number   *)
(* 0 .. 65535 its bits spell; the signed reading of a cell is ToSigned.    *)
(***************************************************************************)
EXTENDS Integers, Sequences

Byte == 0 .. 255
Word == {n \in Nat : n <= 65535}

\* Truth values as the comparison instructions push them.
True  == 65535
False == 0

\* The value pop returns when there is nothing to pop.
DEAD == 57005

\* A store into a uint16_t keeps the low 16 bits.
Wrap(n) == n % 65536

\* Reading a uint16_t as an int16_t.
ToSigned(w) == IF w < 32768 THEN w ELSE w - 65536

\* Bits lo .. lo + width - 1 of w, given 2^lo and 2^width.
Field(w, low, size) == (w \div low) % size

Truth(b) == IF b THEN True ELSE False

-----------------------------------------------------------------------------
(* Products and shifts.                                                    *)

\* Powers of two, Power[k + 1] = 2^k, for the shifts that stay in a cell.
Power == <<1, 2, 4, 8, 16, 32, 64, 128, 256, 512, 1024, 2048, 4096, 8192,
           16384, 32768>>

\* The low 16 bits of a product.  They are the same for the signed and the
\* unsigned reading; splitting one factor keeps every intermediate result
\* within 32 bits, as the machine's int does.
Mul(a, b) == Wrap(Wrap((a \div 256) * b) * 256 + (a % 256) * b)

\* The count a C shift of a promoted int really uses.  From 32 on (a negative
\* int16_t included) the shift is undefined: x86 masks the count, a compiler
\* that evaluates the shift itself moves every bit out.
ShiftCounts(u) == IF u < 32 THEN {u} ELSE {u % 32, 31}

ShiftLeft(n, k)  == IF k < 16 THEN Wrap(n * Power[k + 1]) ELSE 0
ShiftRight(n, k) == IF k < 16 THEN Wrap(n \div Power[k + 1]) ELSE 0

\* The shift of an int16_t copies the sign: it divides rounding down.
ShiftArithmetic(n, k) ==
  IF k < 16 THEN Wrap(ToSigned(n) \div Power[k + 1])
            ELSE Truth(n >= 32768)

-----------------------------------------------------------------------------
(* Bitwise operators, without recursion so that they can be reasoned about.*)

Bit(w, i) == (w \div Power[i + 1]) % 2 = 1

\* The cell whose i-th bit says whether P holds of i.
Digit(P, i) == IF P[i] THEN 1 ELSE 0

LowByte(P) ==
    Digit(P, 0) + 2*Digit(P, 1) + 4*Digit(P, 2) + 8*Digit(P, 3)
  + 16*Digit(P, 4) + 32*Digit(P, 5) + 64*Digit(P, 6) + 128*Digit(P, 7)

HighByte(P) ==
    Digit(P, 8) + 2*Digit(P, 9) + 4*Digit(P, 10) + 8*Digit(P, 11)
  + 16*Digit(P, 12) + 32*Digit(P, 13) + 64*Digit(P, 14) + 128*Digit(P, 15)

FromBits(P) == LowByte(P) + 256 * HighByte(P)

BitAnd(a, b) == FromBits([i \in 0 .. 15 |-> Bit(a, i) /\ Bit(b, i)])
BitOr(a, b)  == FromBits([i \in 0 .. 15 |-> Bit(a, i) \/ Bit(b, i)])
BitXor(a, b) == FromBits([i \in 0 .. 15 |-> Bit(a, i) # Bit(b, i)])
BitNot(a)    == 65535 - a
=============================================================================
