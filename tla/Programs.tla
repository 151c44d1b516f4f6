------------------------------ MODULE Programs ------------------------------
(***************************************************************************)
(* Assembler, emulator and disassembler side by side: the emulator runs    *)
(* the codes that fa.c assembles, and each step is held against what the   *)
(* programmer's manual (Docs/stack-master-16-programmers-manual.md) says of*)
(* the mnemonic and against what fdisa.c lists for the word.  The three    *)
(* programs have their own tables of codes and nothing but the manual in   *)
(* common.                                                                 *)
(***************************************************************************)
EXTENDS FPEmu, Instructions, FiniteSetsExt

\* The sources with the code w, loads aside.
Sources == FixedSources \cup SizedSources \cup StackSources
SourcesOf ==
  [w \in {Assembled(l) : l \in Sources} |-> {l \in Sources : Assembled(l) = w}]
SourcesOfWord(w) == IF w \in DOMAIN SourcesOf THEN SourcesOf[w] ELSE {}

-----------------------------------------------------------------------------
(* The manual, lines 251-263 (stacks) and 287-546 (instructions).          *)

ManualStack == [d |-> D, r |-> R, c |-> C, t |-> T]

\* The bits of a cell, and the cell with given bits.
BitsOf(n) == {k \in 0 .. 15 : (n \div 2 ^ k) % 2 = 1}
CellOf(bits) == MapThenSumSet(LAMBDA k : 2 ^ k, bits)

ManualBinary ==
  {"add", "mul", "mulu", "eq", "asr", "lt", "ltu", "gt", "gtu", "lte", "lteu",
   "gte", "gteu", "lsl", "lsr", "and", "or", "xor"}

\* NAME (n1 n2 -- n3): the cells allowed for n3.  The manual says nothing of
\* shifts by the width of a cell or more.
ManualResult(name, n1, n2) ==
  LET s1 == ToSigned(n1)
      s2 == ToSigned(n2)
      shift(f(_)) == IF n2 < 16 THEN {f(2 ^ n2)} ELSE Word
  IN  CASE name = "add"  -> {Wrap(s1 + s2)}
        [] name \in {"mul", "mulu"} -> {Wrap(s1 * s2)}
        [] name = "eq"   -> {Truth(n1 = n2)}
        [] name = "lt"   -> {Truth(s1 < s2)}
        [] name = "ltu"  -> {Truth(n1 < n2)}
        [] name = "gt"   -> {Truth(s1 > s2)}
        [] name = "gtu"  -> {Truth(n1 > n2)}
        [] name = "lte"  -> {Truth(s1 <= s2)}
        [] name = "lteu" -> {Truth(n1 <= n2)}
        [] name = "gte"  -> {Truth(s1 >= s2)}
        [] name = "gteu" -> {Truth(n1 >= n2)}
        [] name = "lsl"  -> LET f(k) == Wrap((n1 % (65536 \div k)) * k) IN shift(f)
        [] name = "lsr"  -> LET f(k) == n1 \div k IN shift(f)
        [] name = "asr"  -> LET f(k) == Wrap(s1 \div k) IN shift(f)
        [] name = "and"  -> {CellOf(BitsOf(n1) \cap BitsOf(n2))}
        [] name = "or"   -> {CellOf(BitsOf(n1) \cup BitsOf(n2))}
        [] name = "xor"  -> {CellOf((BitsOf(n1) \cup BitsOf(n2))
                                      \ (BitsOf(n1) \cap BitsOf(n2)))}

ManualUnary(name, n1) ==
  CASE name = "neg" -> Wrap(0 - n1)
    [] name = "not" -> 65535 - n1
    [] name = "rd"  -> ByteAt(n1)

\* What becomes of the stacks.
ManualStacks(l) ==
  LET s    == ManualStack[l.letters[1]]
      t    == ManualStack[l.letters[2]]
      top  == Head(stacks[s])
      rest == Tail(stacks[s])
      Data(cells) == [stacks EXCEPT ![D] = cells]
      n1   == stacks[D][2]
      n2   == stacks[D][1]
  IN  CASE l.name \in ManualBinary ->
             {Data(<<n>> \o SubSeq(stacks[D], 3, Len(stacks[D]))) :
                n \in ManualResult(l.name, n1, n2) \cap {Head(stacks'[D])}}
        [] l.name \in {"neg", "not", "rd"} ->
             {Data(<<ManualUnary(l.name, Head(stacks[D]))>> \o Tail(stacks[D]))}
        [] l.name = "isto" -> {Data(Tail(Tail(stacks[D])))}
        [] l.name = "drop" -> {[stacks EXCEPT ![s] = rest]}
        [] l.name = "dup"  -> {[stacks EXCEPT ![s] = <<top>> \o @]}
        [] l.name = "swap" ->
             {[stacks EXCEPT ![s] = <<Head(rest), top>> \o Tail(rest)]}
        [] l.name = "mov" /\ s = t -> {stacks}
        [] l.name = "mov" /\ s # t ->
             {[stacks EXCEPT ![s] = rest, ![t] = <<top>> \o @]}
        [] l.name = "halt" -> {stacks}
        [] OTHER -> {}

-----------------------------------------------------------------------------
(* Properties.                                                             *)

\* The mnemonics for which all three agree.
Agreed(l) ==
  /\ l.name \in (ManualBinary \cup {"rd", "isto", "drop", "dup", "swap", "mov"})
  /\ \A k \in DOMAIN l.letters : l.letters[k] \notin {"r", "c"}

MeaningOf(Which(_)) ==
  exception' = "AllIsOK" =>
    \A l \in SourcesOfWord(instruction') :
      Which(l) => stacks' \in ManualStacks(l) /\ pc' = Wrap(pc + 2)

\* A mnemonic the assembler accepts has the effect the manual gives it, on
\* every stack and on pc, whenever the emulator executes its code without an
\* exception.  It is stated for the mnemonics of Agreed.
AssembledMeaning == [][MeaningOf(Agreed)]_vars

\* The enter and bif targets that the disassembler lists are where the
\* emulator goes, whatever the sign of the offset and the end of memory.
ListedTargets ==
  [][\A l \in {Disassemble(instruction', pc)} :
       /\ l.name = "enter" => pc' = l.value
       /\ l.name = "bif" /\ stacks[D] # <<>> =>
            pc' = IF Head(stacks[D]) = 0 THEN l.value ELSE Wrap(pc + 2)]_vars
=============================================================================
