---------------------------- MODULE Instructions ----------------------------
(***************************************************************************)
(* The two tables of instruction codes: the one FAsm/src/fa.c assembles    *)
(* with, and the one FDisassem/src/fdisa.c lists with (the d command of the*)
(* monitor and the program fdisassem).  The third, what the emulator       *)
(* executes, is module FPEmu.                                              *)
(*                                                                         *)
(* An instruction is written as a record of its mnemonic, the letters that  *)
(* follow it (stacks or a size) and its number, zero if it has none; letter *)
(* case and the layout of numbers are left out.                            *)
(***************************************************************************)
EXTENDS Words

Text(name, letters, value) ==
  [name |-> name, letters |-> letters, value |-> value]

\* Instructions without a number.
Instr(name, letters) == Text(name, letters, 0)

-----------------------------------------------------------------------------
(* The assembler.                                                          *)

\* Mutant of FixedCode: the codes of and and or are swapped.
FixedCodeSwapped ==
  [nop  |-> \h8000, leave |-> \h8100, halt |-> \h8200, reset |-> \h8300,
   add  |-> \hE010, mul   |-> \hE080, mulu |-> \hE090,
   eq   |-> \hE180, asr   |-> \hE210,
   lt   |-> \hE290, ltu   |-> \hE280, gt   |-> \hE310, gtu   |-> \hE300,
   lte  |-> \hE390, lteu  |-> \hE380, gte  |-> \hE410, gteu  |-> \hE400,
   lsl  |-> \hE480, lsr   |-> \hE500,
   and  |-> \hE700, or    |-> \hE680, xor  |-> \hE780,
   not  |-> \hF000, neg   |-> \hF100]

\* The instructions without operands.
FixedCode ==
  [nop  |-> \h8000, leave |-> \h8100, halt |-> \h8200, reset |-> \h8300,
   add  |-> \hE010, mul   |-> \hE080, mulu |-> \hE090,
   eq   |-> \hE180, asr   |-> \hE210,
   lt   |-> \hE290, ltu   |-> \hE280, gt   |-> \hE310, gtu   |-> \hE300,
   lte  |-> \hE390, lteu  |-> \hE380, gte  |-> \hE410, gteu  |-> \hE400,
   lsl  |-> \hE480, lsr   |-> \hE500,
   and  |-> \hE680, or    |-> \hE700, xor  |-> \hE780,
   not  |-> \hF000, neg   |-> \hF100]

\* rd, sto, ird and isto, with a size.
SizedCode == [rd |-> \hF200, sto |-> \hE580, ird |-> \hF280, isto |-> \hE5C0]
SizeID    == [b |-> 1, w |-> 2, l |-> 4]

\* Operations on one stack or on two.
StackCode == [drop |-> \hB000, dup |-> \hB100, swap |-> \hB200, mov |-> \hB300]
AsmStack  == [d |-> 0, c |-> 1, r |-> 2, t |-> 3]

LoadCode  == [ldl |-> \hC000, ldh |-> \hD000]
LoadLimit == [ldl |-> 1023, ldh |-> 63]

\* The sources the generators accept that emit a single code and need neither
\* the address nor the symbol table.  fa.c also accepts a second operand for
\* drop, dup and swap, and a single one for mov.
FixedSources == {Instr(n, <<>>) : n \in DOMAIN FixedCode}
SizedSources == {Instr(n, <<s>>) : n \in DOMAIN SizedCode, s \in DOMAIN SizeID}
StackSources ==
  {Instr(n, <<s>>) : n \in {"drop", "dup", "swap"}, s \in DOMAIN AsmStack}
    \cup {Instr("mov", <<s, t>>) : s, t \in DOMAIN AsmStack}
LoadSources ==
  UNION {{Text(n, <<s>>, v) : s \in DOMAIN AsmStack, v \in 0 .. LoadLimit[n]} :
           n \in DOMAIN LoadCode}

\* The code of one of them.
Assembled(l) ==
  CASE l.name \in DOMAIN FixedCode -> FixedCode[l.name]
    [] l.name \in DOMAIN SizedCode ->
         SizedCode[l.name] + SizeID[l.letters[1]]
    [] l.name \in DOMAIN StackCode ->
         StackCode[l.name] + 64 * AsmStack[l.letters[1]]
           + (IF Len(l.letters) = 2 THEN 16 * AsmStack[l.letters[2]] ELSE 0)
    [] l.name \in DOMAIN LoadCode ->
         LoadCode[l.name] + 1024 * AsmStack[l.letters[1]] + l.value

-----------------------------------------------------------------------------
(* The disassembler.                                                       *)

\* Nothing is printed for a code without a case; "?" is printed for some.
Blank    == Instr("", <<>>)
Question == Instr("?", <<>>)

stack_letters == <<"d", "r", "c", "t">>
size_letters  == <<"?", "b", "w", "?">>


\* Mutant of ListedStack: the source stack is always printed.
ListedStackSource(w, low) == stack_letters[Field(w, 64, 4) + 1]

ListedStack(w, low) == stack_letters[Field(w, low, 4) + 1]
ListedSize(w)       == size_letters[(w % 4) + 1]
IsIO(w)             == Field(w, 64, 2) = 1

\* The names of the functions of group 0xE000; a set p bit adds a u.
Listed2(func, p) ==
  CASE func = 0  -> IF p THEN "addu" ELSE "add"
    [] func = 3  -> "eq"
    [] func = 4  -> "asr"
    [] func = 5  -> IF p THEN "ltu" ELSE "lt"
    [] func = 6  -> IF p THEN "gtu" ELSE "gt"
    [] func = 8  -> IF p THEN "gteu" ELSE "gte"
    [] func = 9  -> "lsr"
    [] func = 10 -> "lsl"
    [] func = 13 -> "and"
    [] func = 14 -> "or"
    [] func = 15 -> "xor"
    [] OTHER     -> ""

\* disassemble: the offset of a BIF is sign-extended and added to the address.
Disassemble(w, address) ==
  LET group == w \div 4096
      func  == Field(w, 256, 16)
      offset == IF w % 4096 >= 2048 THEN (w % 4096) - 4096 ELSE w % 4096
  IN  CASE group \in 4 .. 7 -> Text("enter", <<>>, 4 * (w % 16384))
        [] group = 1        -> Text("bif", <<>>, Wrap(address + offset))
        [] group = 8 /\ func <= 2 ->
             Instr(<<"nop", "leave", "halt">>[func + 1], <<>>)
        [] group = 11 /\ func <= 2 ->
             Instr(<<"drop", "dup", "swap">>[func + 1], <<ListedStack(w, 64)>>)
        [] group = 11 /\ func = 3 ->
             Instr("mov", <<ListedStack(w, 64), ListedStack(w, 16)>>)
        [] group = 12 -> Text("ldl", <<ListedStack(w, 1024)>>, w % 1024)
        [] group = 13 -> Text("ldh", <<ListedStack(w, 1024)>>, w % 64)
        [] group = 14 /\ Field(w, 128, 32) = 11 ->
             Instr(IF IsIO(w) THEN "isto" ELSE "sto", <<ListedSize(w)>>)
        [] group = 14 /\ Field(w, 128, 32) # 11 ->
             Instr(Listed2(Field(w, 128, 32), Field(w, 16, 2) = 1), <<>>)
        [] group = 15 /\ func <= 1 -> Instr(<<"neg", "not">>[func + 1], <<>>)
        [] group = 15 /\ func = 2 ->
             Instr(IF IsIO(w) THEN "ird" ELSE "rd", <<ListedSize(w)>>)
        [] \/ group \in {8, 15} /\ func > 2
           \/ group = 11 /\ func > 3 -> Question
        [] OTHER -> Blank
=============================================================================
