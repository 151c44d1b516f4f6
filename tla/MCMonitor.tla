------------------------------ MODULE MCMonitor -----------------------------
(***************************************************************************)
(* Finite instances of Monitor: four programs, on stacks of three cells in *)
(* arrays of five, under every sequence of command lines.                  *)
(***************************************************************************)
EXTENDS Monitor, TLC

ImageOf(program) ==
  [a \in StartPC .. StartPC + 2 * Len(program) - 1 |->
     LET w == program[(a - StartPC) \div 2 + 1]
     IN  IF a % 2 = 0 THEN w % 256 ELSE w \div 256]

MCStackSize == [s \in StackID |-> 3]

\* recursion without end; a loop that pushes; a loop that does not end and
\* needs no stack; and pops, a push and a halt
MCImages == {ImageOf(<<31744>>),
             ImageOf(<<49153, 49152, 8190>>),
             ImageOf(<<49152, 8190>>),
             ImageOf(<<45056, 49153, 33280>>)}

MCAddresses == {StartPC, StartPC + 2, 65535}

MCWindow == {StartPC, StartPC + 2, StartPC + 4, 65535}
=============================================================================
