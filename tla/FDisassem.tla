----------------------------- MODULE FDisassem ------------------------------
(***************************************************************************)
(* The program fdisassem (FDisassem/src/main.c): it lists the instructions *)
(* one after another, each as if it stood at address 0x8000, in a text     *)
(* buffer that is used again for every one of them.                        *)
(***************************************************************************)
EXTENDS Instructions

VARIABLES
  i,      \* the instruction to list next
  code    \* the text of the one listed last

vars == <<i, code>>

TypeOK ==
  /\ i \in Word
  /\ code.name \in STRING
  /\ code.letters \in Seq(STRING)
  /\ code.value \in Word

Init == i = 0 /\ code = Blank

\* The loop ends before 0xFFFF.
List ==
  /\ i < 65535
  /\ code' = Disassemble(i, 32768)
  /\ i' = i + 1

Spec == Init /\ [][List]_vars
FairSpec == Spec /\ WF_vars(List)

-----------------------------------------------------------------------------
(* Properties.                                                             *)

\* The bits of an instruction that the encoding table of the manual (lines
\* 188-249) gives a meaning: two words that agree in them are the same
\* instruction.
Significant(w) ==
  LET group == w \div 4096
      func  == Field(w, 256, 16)
      func2 == Field(w, 128, 32)
  IN  CASE group \in {1, 12} \cup 4 .. 7 -> <<w>>
        [] group = 8  -> <<group, func>>
        [] group = 11 /\ func = 3 -> <<group, func, Field(w, 16, 16)>>
        [] group = 11 /\ func # 3 -> <<group, func, Field(w, 64, 4)>>
        [] group = 13 -> <<group, Field(w, 1024, 4), w % 64>>
        [] group = 14 /\ func2 = 11 -> <<group, Field(w, 64, 64), w % 8>>
        [] group = 14 /\ func2 \in {3, 9, 10, 13, 14, 15} -> <<group, func2>>
        [] group = 15 /\ func = 2 -> <<group, func2, w % 8>>
        [] group = 15 /\ func # 2 -> <<group, func>>
        [] OTHER -> <<group, func2, Field(w, 16, 2)>>

\* The manual knows the sizes 1, 2 and 4 only.
HasSize(w) ==
  \/ w \div 4096 = 14 /\ Field(w, 128, 32) = 11
  \/ w \div 4096 = 15 /\ Field(w, 256, 16) = 2
SizeIsLegal(w) == HasSize(w) => w % 8 \in {1, 2, 4}

\* The mnemonics that mean the same to the assembler and the disassembler, with
\* the stacks they name alike.  The others are listed in the README.
SharedSources ==
  {l \in FixedSources : l.name \in {"nop", "leave", "halt", "eq", "and", "or", "xor"}}
    \cup {l \in SizedSources : l.name \in {"sto", "isto"}}
    \cup {l \in StackSources \cup LoadSources :
            \A k \in DOMAIN l.letters : l.letters[k] \notin {"r", "c"}}

\* What is listed can be assembled again: for every word but the last, a
\* listing both programs agree on assembles to that instruction.
ListingReassembles ==
  i > 0 /\ code \in SharedSources /\ SizeIsLegal(i - 1)
    => Significant(Assembled(code)) = Significant(i - 1)

\* And what was assembled is listed as what it was: no code of the shared
\* sources is listed as another instruction, or as none.  Loads are left to the
\* property above; size l is one the disassembler does not know.
SourcesOf ==
  LET S == {l \in SharedSources \ LoadSources : l.letters # <<"l">>}
  IN  [w \in {Assembled(l) : l \in S} |-> {l \in S : Assembled(l) = w}]

SourcesAreListed ==
  i > 0 /\ i - 1 \in DOMAIN SourcesOf => SourcesOf[i - 1] = {code}
=============================================================================
