----------------------------- MODULE MCPrograms -----------------------------
(***************************************************************************)
(* Finite instances of Programs: every program of a few words over a small *)
(* alphabet, and every code of the assembler (and every other function of  *)
(* the groups it belongs to) on operands at the boundaries of the signed   *)
(* and the unsigned range, on stacks of three and four cells.              *)
(***************************************************************************)
EXTENDS Programs, TLC

\* A program as load_hex leaves it in memory.
ImageAt(start, program) ==
  [a \in start .. start + 2 * Len(program) - 1 |->
     LET w == program[(a - start) \div 2 + 1]
     IN  IF (a - start) % 2 = 0 THEN w % 256 ELSE w \div 256]
ImageOf(program) == ImageAt(StartPC, program)

MCStackSize == [s \in StackID |-> IF s = R THEN 4 ELSE 3]

\* ldl d 0, ldl d 5, ldh d 63, dup d, swap d, mov d t, mov t d, drop d,
\* bif -2, bif +4, halt
DataAlphabet == {\hC000, \hC005, \hD03F, \hB100, \hB200, \hB330, \hB3C0, \hB000,
                 \h1FFE, \h1004, \h8200}
DataPrograms == [1 .. 4 -> DataAlphabet]

\* Two cells, then a code.
Cells == {0, 1, 15, 32767, 32768, 65535}
Loads == {<<\hC000 + (n % 1024), \hD000 + (n \div 1024)>> : n \in Cells}
Functions == {\hE000 + 128 * f + 16 * p : f \in 0 .. 31, p \in 0 .. 1}
               \cup {\hF000 + 256 * f : f \in 0 .. 3}
               \cup {Assembled(l) : l \in SizedSources}
FunctionPrograms ==
  [1 .. 2 -> {\hC000, \hC008} \cup Functions]
    \cup {l \o m \o <<f, \h8200>> : l \in Loads, m \in Loads, f \in Functions}

\* Two cells on the data stack, one moved from there, then a stack operation.
StackPrograms ==
  {<<w, w>> : w \in {256 * g : g \in 0 .. 255}}
    \cup {<<\hC001, \hC002, m, Assembled(l), \h8200>> :
            m \in {\hB300 + 16 * t : t \in 0 .. 3}, l \in StackSources}

\* A branch from both ends of memory, forwards and backwards.
BranchImages ==
  {LET far == 4 * (t \div 4)
       at  == ImageAt(far, <<\hC000 + tf, \h1000 + offset>>)
       go  == ImageOf(<<\h4000 + (t \div 4)>>)
   IN  [a \in DOMAIN at \cup DOMAIN go |->
          IF a \in DOMAIN at THEN at[a] ELSE go[a]] :
     t \in {0, 1024, 65532}, tf \in {0, 1},
     offset \in {0, 2, 4, 2046, 2047, 2048, 2050, 4094, 4095}}

\* enter 0xF000, enter 0xF004, enter 0xF008, nop, leave, halt, drop r, dup r,
\* swap r, ldl d 0, bif -2, an unused opcode
CallAlphabet == {\h7C00, \h7C01, \h7C02, \h8000, \h8100, \h8200, \hB040, \hB140,
                 \hB240, \hC000, \h1FFE, \h9000}
CallPrograms == [1 .. 4 -> CallAlphabet]
CallImages   == {ImageOf(p) : p \in CallPrograms}

MCImages ==
  BranchImages \cup
    {ImageOf(p) : p \in CallPrograms \cup (DataPrograms \cup
                          (StackPrograms \cup FunctionPrograms))}
=============================================================================
