------------------------------ MODULE MCLines -------------------------------
(***************************************************************************)
(* Source files for the instances of FAsm and Toolchain: every sequence of *)
(* a few lines over alphabets of lines, chosen so that labels move, names  *)
(* clash, the symbol table fills up and records end within, at and behind  *)
(* a line.                                                                 *)
(***************************************************************************)
EXTENDS Integers, Sequences

CONSTANTS foo, bar

Num(n) == [tag |-> "number", value |-> n]
Sym(n) == [tag |-> "symbol", name |-> n]
Bad    == [tag |-> "malformed"]

Label(n)   == [kind |-> "label", name |-> n]
DefLine(n, o) == [kind |-> ".def", name |-> n, operand |-> o]
OrgLine(o) == [kind |-> ".org", operand |-> o]
BLine(s)   == [kind |-> ".b", operands |-> s]
AlignLine(n) == [kind |-> ".align", to |-> n]
NopLine    == [kind |-> "plain", code |-> 32768]
EnterLine(o) == [kind |-> "enter", operand |-> o]
BifLine(o) == [kind |-> "bif", operand |-> o]
LdLine(o)  == [kind |-> "ld", stack |-> 0, operand |-> o]
LdhLine(o) == [kind |-> "ldx", code |-> 53248, limit |-> 63, operand |-> o]
DupLine(s) == [kind |-> "stackop", code |-> 45312, source |-> s, target |-> 0]
Only(k)    == [kind |-> k]

\* Lines that move the address, with labels and symbols that depend on it.
MovingLines ==
  {Label(foo), Label(bar), DefLine(foo, Num(6)), DefLine(bar, Sym(foo)),
   OrgLine(Sym(foo)), OrgLine(Num(65534)), BLine(<<Num(1)>>),
   BLine(<<Num(1), Num(256)>>), AlignLine(4),
   LdLine(Sym(bar)), EnterLine(Sym(foo)), BifLine(Sym(bar)),
   [kind |-> ".str", bytes |-> <<65, 66, 67, 68, 69>>]}
MovingSources == [1 .. 4 -> MovingLines]

\* Every kind of line, with its errors.
AllLines ==
  {Only("empty"), Only("overlong"), Only("unterminated"), Only("malformed"),
   Only("operands"), Only(".w"), Only(".l"), NopLine, DupLine(2), DupLine(15), Label(foo),
   AlignLine(2), OrgLine(Num(-1)), OrgLine(Num(65536)), OrgLine(Bad),
   OrgLine(Num(9)), DefLine(bar, Num(65536)), DefLine(bar, Num(-32769)),
   DefLine(bar, Num(-1)), DefLine(foo, Num(0)), LdhLine(Num(63)),
   LdhLine(Num(64)), LdhLine(Sym(bar)), LdLine(Num(-1)),
   EnterLine(Num(8)), EnterLine(Sym(foo)), BifLine(Sym(foo)),
   BLine(<<Num(1), Sym(bar), Num(2), Num(256), Num(3)>>),
   BLine(<<Num(255), Num(-128), Num(0)>>), [kind |-> ".str", bytes |-> <<>>]}
AllSources == [1 .. 3 -> AllLines]
=============================================================================
