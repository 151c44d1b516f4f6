-------------------------- MODULE FDisassemProofs ---------------------------
(***************************************************************************)
(* Proofs about the disassembler: what it lists can be assembled again, and*)
(* what was assembled is listed as what it was.                            *)
(*                                                                         *)
(* The text in the buffer is that of the instruction in front of i, so both*)
(* are statements about one word and its text.  For the first, the fields  *)
(* of a word are related to the letters of its text and these to the fields*)
(* of the code assembled from it, group by group.  For the second, the     *)
(* code of each shared source is taken apart.                              *)
(***************************************************************************)
EXTENDS FDisassem, WordsTheorems

\* The buffer holds the text of the instruction listed last.
IInv == i \in Word /\ (i > 0 => code = Disassemble(i - 1, 32768))

\* The listing is in step with the loop.
LEMMA ListedInv == Spec => []IInv
<1>1. Init => IInv
  BY WordInt DEF Init, IInv
<1>2. IInv /\ [List]_vars => IInv'
  <2> SUFFICES ASSUME IInv, [List]_vars PROVE IInv'
    OBVIOUS
  <2>1. CASE List
    <3>1. i \in Int /\ i < 65535 /\ i >= 0 /\ i' = i + 1 /\ code' = Disassemble(i, 32768)
      BY <2>1, WordInt DEF List, IInv
    <3>2. i' \in Word /\ i' - 1 = i
      BY <3>1, WordInt
    <3> QED
      BY <3>1, <3>2 DEF IInv
  <2>2. CASE UNCHANGED vars
    BY <2>2 DEF IInv, vars
  <2> QED
    BY <2>1, <2>2
<1> QED
  BY <1>1, <1>2, PTL DEF Spec

-----------------------------------------------------------------------------
(* Sources and their codes.                                                *)

\* The sources that both programs share.
LEMMA SharedShape ==
  ASSUME NEW l \in SharedSources
  PROVE  \/ \E n \in {"nop", "leave", "halt", "eq", "and", "or", "xor"} :
              l = Instr(n, <<>>)
         \/ \E n \in {"sto", "isto"}, z \in {"b", "w", "l"} : l = Instr(n, <<z>>)
         \/ \E n \in {"drop", "dup", "swap"}, z \in {"d", "t"} : l = Instr(n, <<z>>)
         \/ \E y, z \in {"d", "t"} : l = Instr("mov", <<y, z>>)
         \/ /\ l \in LoadSources
            /\ \E n \in {"ldl", "ldh"}, z \in {"d", "t"} :
                 \E v \in 0 .. LoadLimit[n] : l = Text(n, <<z>>, v)
<1>1. \A n, q : Instr(n, q).name = n /\ Instr(n, q).letters = q
  BY DEF Instr, Text
<1>2. \A n, q, v : Text(n, q, v).letters = q
  BY DEF Text
<1>3. DOMAIN AsmStack = {"d", "c", "r", "t"} /\ DOMAIN SizeID = {"b", "w", "l"}
  BY DEF AsmStack, SizeID
<1>4. CASE l \in {k \in FixedSources :
                    k.name \in {"nop", "leave", "halt", "eq", "and", "or", "xor"}}
  <2>1. PICK n \in DOMAIN FixedCode : l = Instr(n, <<>>)
    BY <1>4 DEF FixedSources
  <2>2. n \in {"nop", "leave", "halt", "eq", "and", "or", "xor"}
    BY <1>1, <1>4, <2>1
  <2> QED
    BY <2>1, <2>2
<1>5. CASE l \in {k \in SizedSources : k.name \in {"sto", "isto"}}
  <2>1. PICK n \in DOMAIN SizedCode, z \in DOMAIN SizeID : l = Instr(n, <<z>>)
    BY <1>5 DEF SizedSources, Instr, Text
  <2>2. n \in {"sto", "isto"}
    BY <1>1, <1>5, <2>1
  <2> QED
    BY <1>3, <2>1, <2>2
<1>6. CASE /\ l \in StackSources
           /\ \A k \in DOMAIN l.letters : l.letters[k] \notin {"r", "c"}
  <2>1. \/ \E n \in {"drop", "dup", "swap"}, z \in DOMAIN AsmStack : l = Instr(n, <<z>>)
        \/ \E y, z \in DOMAIN AsmStack : l = Instr("mov", <<y, z>>)
    BY <1>6 DEF StackSources
  <2>2. ASSUME NEW n \in {"drop", "dup", "swap"}, NEW z \in DOMAIN AsmStack,
               l = Instr(n, <<z>>)
        PROVE  z \in {"d", "t"}
    <3>1. \A k \in DOMAIN <<z>> : <<z>>[k] \notin {"r", "c"}
      BY <1>1, <1>6, <2>2
    <3>2. z \notin {"r", "c"}
      BY <3>1
    <3> QED
      BY <1>3, <3>2
  <2>3. ASSUME NEW y \in DOMAIN AsmStack, NEW z \in DOMAIN AsmStack,
               l = Instr("mov", <<y, z>>)
        PROVE  y \in {"d", "t"} /\ z \in {"d", "t"}
    <3>1. \A k \in DOMAIN <<y, z>> : <<y, z>>[k] \notin {"r", "c"}
      BY <1>1, <1>6, <2>3
    <3>2. y \notin {"r", "c"} /\ z \notin {"r", "c"}
      BY <3>1
    <3> QED
      BY <1>3, <3>2
  <2> QED
    BY <2>1, <2>2, <2>3
<1>7. CASE l \in LoadSources /\ \A k \in DOMAIN l.letters : l.letters[k] \notin {"r", "c"}
  <2>1. DOMAIN LoadCode = {"ldl", "ldh"}
    BY DEF LoadCode
  <2>2. PICK n \in DOMAIN LoadCode :
          l \in {Text(n, <<z>>, v) : z \in DOMAIN AsmStack, v \in 0 .. LoadLimit[n]}
    BY <1>7 DEF LoadSources
  <2>3. PICK z \in DOMAIN AsmStack, v \in 0 .. LoadLimit[n] : l = Text(n, <<z>>, v)
    BY <2>2 DEF Text
  <2>4. \A k \in DOMAIN <<z>> : <<z>>[k] \notin {"r", "c"}
    BY <1>2, <1>7, <2>3
  <2>5. z \notin {"r", "c"}
    BY <2>4
  <2> QED
    BY <1>3, <1>7, <2>1, <2>3, <2>5
<1> QED
  BY <1>4, <1>5, <1>6, <1>7 DEF SharedSources

\* Their codes.
LEMMA SharedCodes ==
  /\ Assembled(Instr("nop", <<>>)) = 32768 /\ Assembled(Instr("leave", <<>>)) = 33024
  /\ Assembled(Instr("halt", <<>>)) = 33280
  /\ Assembled(Instr("eq", <<>>)) = 57728 /\ Assembled(Instr("and", <<>>)) = 59008
  /\ Assembled(Instr("or", <<>>)) = 59136 /\ Assembled(Instr("xor", <<>>)) = 59264
  /\ \A z : /\ Assembled(Instr("sto", <<z>>)) = 58752 + SizeID[z]
            /\ Assembled(Instr("isto", <<z>>)) = 58816 + SizeID[z]
  /\ \A z \in {"d", "t"} :
       /\ Assembled(Instr("drop", <<z>>)) = 45056 + 64 * AsmStack[z]
       /\ Assembled(Instr("dup", <<z>>)) = 45312 + 64 * AsmStack[z]
       /\ Assembled(Instr("swap", <<z>>)) = 45568 + 64 * AsmStack[z]
  /\ \A y, z \in {"d", "t"} :
       Assembled(Instr("mov", <<y, z>>)) = 45824 + 64 * AsmStack[y] + 16 * AsmStack[z]
  /\ \A z, v : /\ Assembled(Text("ldl", <<z>>, v)) = 49152 + 1024 * AsmStack[z] + v
               /\ Assembled(Text("ldh", <<z>>, v)) = 53248 + 1024 * AsmStack[z] + v
<1>1. ASSUME NEW n \in {"nop", "leave", "halt", "eq", "and", "or", "xor"}
      PROVE  Assembled(Instr(n, <<>>)) = FixedCode[n]
  <2> DEFINE l == Instr(n, <<>>)
  <2>1. l.name = n
    BY DEF Instr, Text
  <2> HIDE DEF l
  <2>2. n \in DOMAIN FixedCode /\ n \notin DOMAIN SizedCode /\ n \notin DOMAIN StackCode
        /\ n \notin DOMAIN LoadCode
    BY DEF FixedCode, SizedCode, StackCode, LoadCode
  <2>3. Assembled(l) = FixedCode[n]
    BY <2>1, <2>2 DEF Assembled
  <2> QED
    BY <2>3 DEF l
<1>2. ASSUME NEW n \in {"sto", "isto"}, NEW z
      PROVE  Assembled(Instr(n, <<z>>)) = SizedCode[n] + SizeID[z]
  <2> DEFINE l == Instr(n, <<z>>)
  <2>1. l.name = n /\ l.letters[1] = z
    BY DEF Instr, Text
  <2> HIDE DEF l
  <2>2. n \notin DOMAIN FixedCode /\ n \in DOMAIN SizedCode /\ n \notin DOMAIN StackCode
        /\ n \notin DOMAIN LoadCode
    BY DEF FixedCode, SizedCode, StackCode, LoadCode
  <2>3. Assembled(l) = SizedCode[n] + SizeID[z]
    BY <2>1, <2>2 DEF Assembled
  <2> QED
    BY <2>3 DEF l
<1>3. AsmStack["d"] = 0 /\ AsmStack["t"] = 3
  BY DEF AsmStack
<1>4. /\ StackCode["drop"] = 45056 /\ StackCode["dup"] = 45312
      /\ StackCode["swap"] = 45568 /\ StackCode["mov"] = 45824
  BY DEF StackCode
<1>5. \A n \in {"drop", "dup", "swap", "mov"} :
        n \notin DOMAIN FixedCode /\ n \notin DOMAIN SizedCode /\ n \in DOMAIN StackCode
          /\ n \notin DOMAIN LoadCode
  BY DEF FixedCode, SizedCode, StackCode, LoadCode
<1>6. ASSUME NEW n \in {"drop", "dup", "swap"}, NEW z \in {"d", "t"}
      PROVE  Assembled(Instr(n, <<z>>)) = StackCode[n] + 64 * AsmStack[z]
  <2> DEFINE l == Instr(n, <<z>>)
             a == StackCode[n] + 64 * AsmStack[z]
  <2>1. l.name = n /\ l.letters[1] = z /\ Len(l.letters) = 1
    BY DEF Instr, Text
  <2> HIDE DEF l
  <2>2. Assembled(l) = a + (IF Len(l.letters) = 2 THEN 16 * AsmStack[l.letters[2]] ELSE 0)
    BY <1>5, <2>1 DEF Assembled
  <2>3. a \in Int
    BY <1>3, <1>4
  <2> HIDE DEF a
  <2>4. Assembled(l) = a
    BY <2>1, <2>2, <2>3
  <2> QED
    BY <2>4 DEF l, a
<1>7. ASSUME NEW y \in {"d", "t"}, NEW z \in {"d", "t"}
      PROVE  Assembled(Instr("mov", <<y, z>>))
               = StackCode["mov"] + 64 * AsmStack[y] + 16 * AsmStack[z]
  <2> DEFINE l == Instr("mov", <<y, z>>)
  <2>1. l.name = "mov" /\ l.letters[1] = y /\ l.letters[2] = z /\ Len(l.letters) = 2
    BY DEF Instr, Text
  <2> HIDE DEF l
  <2>2. Assembled(l) = StackCode["mov"] + 64 * AsmStack[y] + 16 * AsmStack[z]
    BY <1>5, <2>1 DEF Assembled
  <2> QED
    BY <2>2 DEF l
<1>8. ASSUME NEW n \in {"ldl", "ldh"}, NEW z, NEW v
      PROVE  Assembled(Text(n, <<z>>, v)) = LoadCode[n] + 1024 * AsmStack[z] + v
  <2> DEFINE l == Text(n, <<z>>, v)
  <2>1. l.name = n /\ l.letters[1] = z /\ l.value = v
    BY DEF Text
  <2> HIDE DEF l
  <2>2. n \notin DOMAIN FixedCode /\ n \notin DOMAIN SizedCode /\ n \notin DOMAIN StackCode
        /\ n \in DOMAIN LoadCode
    BY DEF FixedCode, SizedCode, StackCode, LoadCode
  <2>3. Assembled(l) = LoadCode[n] + 1024 * AsmStack[z] + v
    BY <2>1, <2>2 DEF Assembled
  <2> QED
    BY <2>3 DEF l
<1>9. /\ FixedCode["nop"] = 32768 /\ FixedCode["leave"] = 33024 /\ FixedCode["halt"] = 33280
      /\ FixedCode["eq"] = 57728 /\ FixedCode["and"] = 59008
      /\ FixedCode["or"] = 59136 /\ FixedCode["xor"] = 59264
  BY DEF FixedCode
<1>10. /\ SizedCode["sto"] = 58752 /\ SizedCode["isto"] = 58816
       /\ LoadCode["ldl"] = 49152 /\ LoadCode["ldh"] = 53248
  BY DEF SizedCode, LoadCode
<1> HIDE DEF StackCode, FixedCode, SizedCode, LoadCode
<1>11. /\ \A z : /\ Assembled(Instr("sto", <<z>>)) = 58752 + SizeID[z]
                 /\ Assembled(Instr("isto", <<z>>)) = 58816 + SizeID[z]
       /\ \A z, v : /\ Assembled(Text("ldl", <<z>>, v)) = 49152 + 1024 * AsmStack[z] + v
                    /\ Assembled(Text("ldh", <<z>>, v)) = 53248 + 1024 * AsmStack[z] + v
  BY <1>2, <1>8, <1>10
<1>12. /\ \A z \in {"d", "t"} :
            /\ Assembled(Instr("drop", <<z>>)) = 45056 + 64 * AsmStack[z]
            /\ Assembled(Instr("dup", <<z>>)) = 45312 + 64 * AsmStack[z]
            /\ Assembled(Instr("swap", <<z>>)) = 45568 + 64 * AsmStack[z]
       /\ \A y, z \in {"d", "t"} :
            Assembled(Instr("mov", <<y, z>>)) = 45824 + 64 * AsmStack[y] + 16 * AsmStack[z]
  BY <1>4, <1>6, <1>7
<1> QED
  BY <1>1, <1>9, <1>11, <1>12
-----------------------------------------------------------------------------
(* From the listing to the code.                                           *)

\* The letter that is listed for a stack stands for the same stack to the
\* assembler, but for r and c.
LEMMA StackLetters ==
  ASSUME NEW s \in 0 .. 3
  PROVE  /\ stack_letters[s + 1] \in {"d", "t"} => AsmStack[stack_letters[s + 1]] = s
         /\ stack_letters[s + 1] \in {"d", "r", "c", "t"}
<1>1. /\ stack_letters[1] = "d" /\ stack_letters[2] = "r"
      /\ stack_letters[3] = "c" /\ stack_letters[4] = "t"
  BY DEF stack_letters
<1>2. AsmStack["d"] = 0 /\ AsmStack["t"] = 3
  BY DEF AsmStack
<1>3. s = 0 \/ s = 1 \/ s = 2 \/ s = 3
  OBVIOUS
<1> QED
  BY <1>1, <1>2, <1>3

\* What is listed for the words of the groups that hold shared sources: the
\* controls, the operations on stacks, the loads, sto and isto, and the
\* functions of two values.
LEMMA ListedControl ==
  ASSUME NEW w \in Word, NEW a, w \div 4096 = 8, Field(w, 256, 16) <= 2
  PROVE  Disassemble(w, a)
           = Instr(<<"nop", "leave", "halt">>[Field(w, 256, 16) + 1], <<>>)
<1>1. Field(w, 256, 16) \in 0 .. 15
  BY WordInt DEF Field
<1> QED
  BY <1>1 DEF Disassemble

LEMMA ListedOperation ==
  ASSUME NEW w \in Word, NEW a, w \div 4096 = 11, Field(w, 256, 16) <= 2
  PROVE  Disassemble(w, a)
           = Instr(<<"drop", "dup", "swap">>[Field(w, 256, 16) + 1], <<ListedStack(w, 64)>>)
<1>1. Field(w, 256, 16) \in 0 .. 15
  BY WordInt DEF Field
<1> QED
  BY <1>1 DEF Disassemble

LEMMA ListedMove ==
  ASSUME NEW w \in Word, NEW a, w \div 4096 = 11, Field(w, 256, 16) = 3
  PROVE  Disassemble(w, a) = Instr("mov", <<ListedStack(w, 64), ListedStack(w, 16)>>)
BY DEF Disassemble

LEMMA ListedLoad ==
  ASSUME NEW w \in Word, NEW a
  PROVE  /\ w \div 4096 = 12 =>
              Disassemble(w, a) = Text("ldl", <<ListedStack(w, 1024)>>, w % 1024)
         /\ w \div 4096 = 13 =>
              Disassemble(w, a) = Text("ldh", <<ListedStack(w, 1024)>>, w % 64)
BY DEF Disassemble

LEMMA ListedStore ==
  ASSUME NEW w \in Word, NEW a, w \div 4096 = 14, Field(w, 128, 32) = 11
  PROVE  Disassemble(w, a) = Instr(IF IsIO(w) THEN "isto" ELSE "sto", <<ListedSize(w)>>)
BY DEF Disassemble

LEMMA ListedFunction ==
  ASSUME NEW w \in Word, NEW a, w \div 4096 = 14, Field(w, 128, 32) # 11
  PROVE  \E p : Disassemble(w, a) = Instr(Listed2(Field(w, 128, 32), p), <<>>)
<1> DEFINE q == Field(w, 16, 2) = 1
           m == Field(w, 128, 32)
<1> HIDE DEF q
<1>1. Disassemble(w, a) = Instr(Listed2(m, q), <<>>)
  BY DEF Disassemble, q
<1> HIDE DEF m
<1>2. \E p : Disassemble(w, a) = Instr(Listed2(m, p), <<>>)
  BY <1>1
<1> QED
  BY <1>2 DEF m

\* A name that no shared source has.
Foreign(n) ==
  n \notin {"nop", "leave", "halt", "eq", "and", "or", "xor", "sto", "isto",
            "drop", "dup", "swap", "mov", "ldl", "ldh"}

\* Neither do the two texts that are listed for codes without a case.
LEMMA ForeignTexts == Foreign(Question.name) /\ Foreign(Blank.name)
<1>1. Question.name = "?"
  BY Zenon DEF Question, Instr, Text
<1>2. Blank.name = ""
  BY Zenon DEF Blank, Instr, Text
<1>3. Foreign("?")
  BY Zenon DEF Foreign
<1>4. Foreign("")
  BY Zenon DEF Foreign
<1> QED
  BY <1>1, <1>2, <1>3, <1>4, Zenon

\* All other words are listed with such a name.
LEMMA ListedOthers ==
  ASSUME NEW w \in Word, NEW a,
         \/ w \div 4096 \notin {8, 11, 12, 13, 14}
         \/ w \div 4096 = 8 /\ Field(w, 256, 16) > 2
         \/ w \div 4096 = 11 /\ Field(w, 256, 16) > 3
  PROVE  Foreign(Disassemble(w, a).name)
<1> DEFINE g == w \div 4096
           f == Field(w, 256, 16)
           l == Disassemble(w, a)
<1>1. g \in 0 .. 15 /\ f \in 0 .. 15
  BY WordInt DEF Field
<1>2. \A n, s, k : Instr(n, s).name = n /\ Text(n, s, k).name = n
  BY DEF Instr, Text
<1>3. ASSUME g \in 4 .. 7 PROVE Foreign(l.name)
  <2>1. l.name = "enter"
    BY <1>2, <1>3 DEF Disassemble
  <2> QED
    BY <2>1 DEF Foreign
<1>4. ASSUME g = 1 PROVE Foreign(l.name)
  <2>1. l.name = "bif"
    BY <1>2, <1>4 DEF Disassemble
  <2> QED
    BY <2>1 DEF Foreign
<1>5. ASSUME g = 15, f <= 1 PROVE Foreign(l.name)
  <2>1. l = Instr(<<"neg", "not">>[f + 1], <<>>)
    BY <1>1, <1>5 DEF Disassemble
  <2>2. f = 0 \/ f = 1
    BY <1>1, <1>5
  <2> HIDE DEF l
  <2>3. l.name \in {"neg", "not"}
    BY <1>2, <2>1, <2>2
  <2> QED
    BY <2>3 DEF Foreign
<1>6. ASSUME g = 15, f = 2 PROVE Foreign(l.name)
  <2>1. l.name \in {"rd", "ird"}
    BY <1>2, <1>6 DEF Disassemble
  <2> QED
    BY <2>1 DEF Foreign
<1>7. Foreign(Question.name) /\ Foreign(Blank.name)
  BY ForeignTexts
<1>8. ASSUME (g \in {8, 15} /\ f > 2) \/ (g = 11 /\ f > 3)
      PROVE  Foreign(l.name)
  <2>1. g \in {8, 15} /\ f > 2 => l = Question
    BY <1>1 DEF Disassemble
  <2>2. g = 11 /\ f > 3 => l = Question
    BY <1>1 DEF Disassemble
  <2> HIDE DEF l
  <2> QED
    BY <1>7, <1>8, <2>1, <2>2
<1>9. ASSUME g \in {0, 2, 3, 9, 10} PROVE Foreign(l.name)
  <2>1. /\ g \notin 4 .. 7 /\ g # 1 /\ g # 8 /\ g # 11 /\ g # 12 /\ g # 13
        /\ g # 14 /\ g # 15 /\ g \notin {8, 15}
    BY <1>9
  <2>2. l = Blank
    BY <2>1 DEF Disassemble
  <2> HIDE DEF l
  <2> QED
    BY <1>7, <2>2
<1>10. \/ g \notin {8, 11, 12, 13, 14}
       \/ g = 8 /\ f > 2
       \/ g = 11 /\ f > 3
  OBVIOUS
<1> SUFFICES Foreign(l.name)
  OBVIOUS
<1> HIDE DEF l, f, g
<1>11. CASE g = 8 \/ g = 11
  BY <1>8, <1>10, <1>11
<1>12. CASE g = 15
  BY <1>1, <1>5, <1>6, <1>8, <1>12
<1>13. CASE g \in {0, 2, 3, 9, 10} \/ g \in 4 .. 7 \/ g = 1
  BY <1>3, <1>4, <1>9, <1>13
<1>14. g \in {0, 2, 3, 9, 10} \/ g \in 4 .. 7 \/ g = 1 \/ g = 8 \/ g = 11 \/ g = 15
  BY <1>1, <1>10
<1> QED
  BY <1>11, <1>12, <1>13, <1>14

\* The significant bits of these groups.
LEMMA SignificantIs ==
  ASSUME NEW w \in Word
  PROVE  LET g == w \div 4096
             f == Field(w, 256, 16)
             m == Field(w, 128, 32)
         IN  /\ g = 12 => Significant(w) = <<w>>
             /\ g = 8 => Significant(w) = <<8, f>>
             /\ g = 11 /\ f = 3 => Significant(w) = <<11, 3, Field(w, 16, 16)>>
             /\ g = 11 /\ f # 3 => Significant(w) = <<11, f, Field(w, 64, 4)>>
             /\ g = 13 => Significant(w) = <<13, Field(w, 1024, 4), w % 64>>
             /\ g = 14 /\ m = 11 => Significant(w) = <<14, Field(w, 64, 64), w % 8>>
             /\ g = 14 /\ m \in {3, 13, 14, 15} => Significant(w) = <<14, m>>
<1> DEFINE g == w \div 4096
           f == Field(w, 256, 16)
           m == Field(w, 128, 32)
           s == Significant(w)
<1>1. g = 12 => s = <<w>>
  BY DEF Significant
<1>2. g = 8 => s = <<8, f>>
  BY DEF Significant
<1>3. g = 11 /\ f = 3 => s = <<11, 3, Field(w, 16, 16)>>
  BY DEF Significant
<1>4. g = 11 /\ f # 3 => s = <<11, f, Field(w, 64, 4)>>
  BY DEF Significant
<1>5. g = 13 => s = <<13, Field(w, 1024, 4), w % 64>>
  BY DEF Significant
<1>6. g = 14 /\ m = 11 => s = <<14, Field(w, 64, 64), w % 8>>
  BY DEF Significant
<1>7. g = 14 /\ m \in {3, 13, 14, 15} => s = <<14, m>>
  BY DEF Significant
<1> QED
  BY <1>1, <1>2, <1>3, <1>4, <1>5, <1>6, <1>7

\* What has the name of a shared source is none of the others.
LEMMA SharedNames == \A l \in SharedSources : ~Foreign(l.name)
<1> SUFFICES ASSUME NEW l \in SharedSources PROVE ~Foreign(l.name)
  OBVIOUS
<1>1. \A n, q, v : Instr(n, q).name = n /\ Text(n, q, v).name = n
  BY DEF Instr, Text
<1>2. l.name \in {"nop", "leave", "halt", "eq", "and", "or", "xor", "sto", "isto",
                  "drop", "dup", "swap", "mov", "ldl", "ldh"}
  BY <1>1, SharedShape
<1> QED
  BY <1>2 DEF Foreign

\* The letters of a listing with a stack, or with two.
LEMMA SharedLetters ==
  ASSUME NEW l \in SharedSources
  PROVE  /\ \A n, z, v : l = Text(n, <<z>>, v) /\ z \in {"d", "r", "c", "t"} =>
                           z \in {"d", "t"}
         /\ \A n, y, z, v : l = Text(n, <<y, z>>, v) => y \in {"d", "t"} /\ z \in {"d", "t"}
         /\ \A n, z, v : l = Text(n, <<z>>, v) /\ n \in {"sto", "isto"} =>
                           z \in {"b", "w", "l"}
<1>1. ASSUME NEW n, NEW z, NEW v, l = Text(n, <<z>>, v), z \in {"d", "r", "c", "t"}
      PROVE  z \in {"d", "t"}
  BY <1>1, SharedShape DEF Instr, Text
<1>2. ASSUME NEW n, NEW y, NEW z, NEW v, l = Text(n, <<y, z>>, v)
      PROVE  y \in {"d", "t"} /\ z \in {"d", "t"}
  BY <1>2, SharedShape DEF Instr, Text
<1>3. ASSUME NEW n, NEW z, NEW v, l = Text(n, <<z>>, v), n \in {"sto", "isto"}
      PROVE  z \in {"b", "w", "l"}
  BY <1>3, SharedShape DEF Instr, Text
<1> QED
  BY <1>1, <1>2, <1>3

\* The code of a listing on which the programs agree, and the word it was
\* listed for.
Same(x, w) == Significant(x) = Significant(w)

\* nop, leave and halt.
LEMMA ControlAgrees ==
  ASSUME NEW w \in Word, NEW a, w \div 4096 = 8, Disassemble(w, a) \in SharedSources
  PROVE  Same(Assembled(Disassemble(w, a)), w)
<1> DEFINE f == Field(w, 256, 16)
           l == Disassemble(w, a)
           x == Assembled(l)
<1>1. f \in 0 .. 15
  BY WordInt DEF Field
<1>2. f <= 2
  BY <1>1, ListedOthers, SharedNames
<1>3. l = Instr(<<"nop", "leave", "halt">>[f + 1], <<>>)
  BY <1>2, ListedControl
<1>4. x = 32768 + 256 * f
  <2> HIDE DEF f, l
  <2>1. f = 0 \/ f = 1 \/ f = 2
    BY <1>1, <1>2
  <2> QED
    BY <1>3, <2>1, SharedCodes
<1> HIDE DEF x, l
<1>5. x \in Word /\ x \div 4096 = 8 /\ Field(x, 256, 16) = f
  <2> HIDE DEF f
  <2> QED
    BY <1>1, <1>2, <1>4, WordInt DEF Field
<1>6. Significant(x) = <<8, f>> /\ Significant(w) = <<8, f>>
  BY <1>5, SignificantIs
<1> QED
  BY <1>6 DEF Same, x, l

\* Operations on the stacks d and t.
LEMMA StackAgrees ==
  ASSUME NEW w \in Word, NEW a, w \div 4096 = 11, Disassemble(w, a) \in SharedSources
  PROVE  Same(Assembled(Disassemble(w, a)), w)
<1> DEFINE f == Field(w, 256, 16)
           s == Field(w, 64, 4)
           t == Field(w, 16, 4)
           l == Disassemble(w, a)
           x == Assembled(l)
           y == ListedStack(w, 64)
           z == ListedStack(w, 16)
<1>1. f \in 0 .. 15 /\ s \in 0 .. 3 /\ t \in 0 .. 3 /\ Field(w, 16, 16) = 4 * s + t
  BY WordInt DEF Field
<1>2. f <= 3
  BY <1>1, ListedOthers, SharedNames
<1>3. /\ y \in {"d", "r", "c", "t"} /\ (y \in {"d", "t"} => AsmStack[y] = s)
      /\ z \in {"d", "r", "c", "t"} /\ (z \in {"d", "t"} => AsmStack[z] = t)
  BY <1>1, StackLetters DEF ListedStack
<1>4. CASE f = 3
  <2>1. l = Instr("mov", <<y, z>>)
    BY <1>4, ListedMove
  <2> HIDE DEF f, s, t, y, z
  <2>2. y \in {"d", "t"} /\ z \in {"d", "t"}
    BY <2>1, SharedLetters DEF Instr
  <2>3. x = 45824 + 64 * s + 16 * t
    BY <1>3, <2>1, <2>2, SharedCodes
  <2> HIDE DEF x, l
  <2>4. x \in Word /\ x \div 4096 = 11 /\ Field(x, 256, 16) = 3 /\ Field(x, 16, 16) = 4 * s + t
    BY <1>1, <2>3, WordInt DEF Field
  <2>5. Significant(x) = <<11, 3, 4 * s + t>>
    BY <2>4, SignificantIs
  <2>6. Significant(w) = <<11, 3, 4 * s + t>>
    BY <1>1, <1>4, SignificantIs DEF f
  <2> QED
    BY <2>5, <2>6 DEF Same, x, l
<1>5. CASE f <= 2
  <2>1. l = Instr(<<"drop", "dup", "swap">>[f + 1], <<y>>)
    BY <1>5, ListedOperation
  <2> HIDE DEF f, s, t, y, z
  <2>2. y \in {"d", "t"}
    BY <1>3, <2>1, SharedLetters DEF Instr
  <2>3. f = 0 \/ f = 1 \/ f = 2
    BY <1>1, <1>5
  <2>4. x = 45056 + 256 * f + 64 * s
    <3> HIDE DEF l
    <3>1. CASE f = 0
      <4>1. l = Instr("drop", <<y>>)
        BY <2>1, <3>1
      <4>2. Assembled(Instr("drop", <<y>>)) = 45056 + 64 * AsmStack[y]
        BY <2>2, SharedCodes
      <4> QED
        BY <1>1, <1>3, <2>2, <3>1, <4>1, <4>2
    <3>2. CASE f = 1
      <4>1. l = Instr("dup", <<y>>)
        BY <2>1, <3>2
      <4>2. Assembled(Instr("dup", <<y>>)) = 45312 + 64 * AsmStack[y]
        BY <2>2, SharedCodes
      <4> QED
        BY <1>1, <1>3, <2>2, <3>2, <4>1, <4>2
    <3>3. CASE f = 2
      <4>1. l = Instr("swap", <<y>>)
        BY <2>1, <3>3
      <4>2. Assembled(Instr("swap", <<y>>)) = 45568 + 64 * AsmStack[y]
        BY <2>2, SharedCodes
      <4> QED
        BY <1>1, <1>3, <2>2, <3>3, <4>1, <4>2
    <3> QED
      BY <2>3, <3>1, <3>2, <3>3
  <2> HIDE DEF x, l
  <2>5. x \in Word /\ x \div 4096 = 11 /\ Field(x, 256, 16) = f /\ Field(x, 64, 4) = s
    BY <1>1, <2>3, <2>4, WordInt DEF Field
  <2>6. Significant(x) = <<11, f, s>>
    BY <2>3, <2>5, SignificantIs
  <2>7. Significant(w) = <<11, f, s>>
    BY <2>3, SignificantIs DEF f, s
  <2> QED
    BY <2>6, <2>7 DEF Same, x, l
<1> QED
  BY <1>1, <1>2, <1>4, <1>5

\* ldl and ldh to the stacks d and t.
LEMMA LoadAgrees ==
  ASSUME NEW w \in Word, NEW a, w \div 4096 \in {12, 13}, Disassemble(w, a) \in SharedSources
  PROVE  Same(Assembled(Disassemble(w, a)), w)
<1> DEFINE g == w \div 4096
           s == Field(w, 1024, 4)
           l == Disassemble(w, a)
           x == Assembled(l)
           y == ListedStack(w, 1024)
           u == w % 1024
           v == w % 64
<1>1. /\ s \in 0 .. 3 /\ u \in 0 .. 1023 /\ v \in 0 .. 63
      /\ w = 4096 * g + 1024 * s + u
  <2>1. w \in Int /\ 0 <= w /\ w <= 65535
    BY WordInt
  <2>2. s = (w \div 1024) % 4
    BY DEF Field
  <2>3. s \in 0 .. 3 /\ u \in 0 .. 1023 /\ v \in 0 .. 63
    BY <2>1, <2>2
  <2>4. w = 1024 * (w \div 1024) + u
    BY <2>1
  <2>5. w \div 1024 = 4 * g + s
    BY <2>1, <2>2
  <2> QED
    BY <2>1, <2>3, <2>4, <2>5
<1>2. /\ y \in {"d", "r", "c", "t"} /\ (y \in {"d", "t"} => AsmStack[y] = s)
  BY <1>1, StackLetters DEF ListedStack
<1>3. CASE g = 12
  <2>1. l = Text("ldl", <<y>>, u)
    BY <1>3, ListedLoad
  <2> HIDE DEF s, y, u, v
  <2>2. y \in {"d", "t"}
    BY <1>2, <2>1, SharedLetters
  <2>3. x = 49152 + 1024 * s + u
    BY <1>2, <2>1, <2>2, SharedCodes
  <2>4. x = w
    BY <1>1, <1>3, <2>3
  <2> QED
    BY <2>4 DEF Same
<1>4. CASE g = 13
  <2>1. l = Text("ldh", <<y>>, v)
    BY <1>4, ListedLoad
  <2> HIDE DEF s, y, u, v
  <2>2. y \in {"d", "t"}
    BY <1>2, <2>1, SharedLetters
  <2>3. x = 53248 + 1024 * s + v
    BY <1>2, <2>1, <2>2, SharedCodes
  <2> HIDE DEF x, l
  <2>4. x \in Word /\ x \div 4096 = 13 /\ Field(x, 1024, 4) = s /\ x % 64 = v
    BY <1>1, <2>3, WordInt DEF Field
  <2>5. Significant(x) = <<13, s, v>>
    BY <2>4, SignificantIs
  <2>6. Significant(w) = <<13, s, v>>
    BY <1>4, SignificantIs DEF s, v
  <2> QED
    BY <2>5, <2>6 DEF Same, x, l
<1> QED
  BY <1>3, <1>4

\* sto and isto of a byte or a word.
LEMMA StoreAgrees ==
  ASSUME NEW w \in Word, NEW a, w \div 4096 = 14, Field(w, 128, 32) = 11,
         SizeIsLegal(w), Disassemble(w, a) \in SharedSources
  PROVE  Same(Assembled(Disassemble(w, a)), w)
<1> DEFINE l == Disassemble(w, a)
           x == Assembled(l)
           z == ListedSize(w)
           k == w % 4
           o == Field(w, 64, 2)
           e == w % 8
           n == IF IsIO(w) THEN "isto" ELSE "sto"
<1>1. /\ k \in 0 .. 3 /\ o \in 0 .. 1 /\ e \in {1, 2, 4} /\ (e = k \/ e = k + 4)
      /\ Field(w, 64, 64) = 22 + o
  BY WordInt DEF SizeIsLegal, HasSize, Field
<1>2. n = IF o = 1 THEN "isto" ELSE "sto"
  BY DEF IsIO
<1>3. l = Instr(n, <<z>>)
  BY ListedStore
<1>4. /\ size_letters[2] = "b" /\ size_letters[3] = "w"
      /\ size_letters[1] \notin {"b", "w", "l"} /\ size_letters[4] \notin {"b", "w", "l"}
  BY DEF size_letters
<1>5. z = size_letters[k + 1]
  BY DEF ListedSize
<1> HIDE DEF z, k, o, e, n
<1>6. z \in {"b", "w", "l"}
  BY <1>2, <1>3, SharedLetters DEF Instr
<1>7. SizeID["b"] = 1 /\ SizeID["w"] = 2
  BY DEF SizeID
<1>8. k \in {1, 2} /\ SizeID[z] = k
  <2>1. k = 0 \/ k = 1 \/ k = 2 \/ k = 3
    BY <1>1
  <2> QED
    BY <1>4, <1>5, <1>6, <1>7, <2>1
<1>9. e = k
  BY <1>1, <1>8
<1>10. x = 58752 + 64 * o + k
  <2>1. CASE o = 0
    BY <1>2, <1>3, <1>8, <2>1, SharedCodes
  <2>2. CASE o = 1
    BY <1>2, <1>3, <1>8, <2>2, SharedCodes
  <2> QED
    BY <1>1, <2>1, <2>2
<1> HIDE DEF x, l
<1>11. /\ x \in Word /\ x \div 4096 = 14 /\ Field(x, 128, 32) = 11
       /\ Field(x, 64, 64) = 22 + o /\ x % 8 = k
  BY <1>1, <1>8, <1>10, WordInt DEF Field
<1>12. Significant(x) = <<14, 22 + o, k>>
  BY <1>11, SignificantIs
<1>13. Significant(w) = <<14, 22 + o, k>>
  BY <1>1, <1>9, SignificantIs DEF e
<1> QED
  BY <1>12, <1>13 DEF Same, x, l

\* The functions of two values that are named alike.
LEMMA FunctionNames ==
  \A p : /\ Listed2(3, p) = "eq" /\ Listed2(13, p) = "and"
         /\ Listed2(14, p) = "or" /\ Listed2(15, p) = "xor"
BY DEF Listed2

\* eq, and, or and xor.
LEMMA FunctionAgrees ==
  ASSUME NEW w \in Word, NEW a, w \div 4096 = 14, Field(w, 128, 32) # 11,
         Disassemble(w, a) \in SharedSources
  PROVE  Same(Assembled(Disassemble(w, a)), w)
<1> DEFINE l == Disassemble(w, a)
           x == Assembled(l)
           m == Field(w, 128, 32)
<1>1. m \in 0 .. 31 /\ m # 11
  BY WordInt DEF Field
<1>2. \E p : l = Instr(Listed2(m, p), <<>>)
  BY ListedFunction
<1> HIDE DEF m, l
<1>3. PICK p : l = Instr(Listed2(m, p), <<>>)
  BY <1>2
<1>4. ~Foreign(Listed2(m, p))
  <2>1. l.name = Listed2(m, p)
    BY <1>3 DEF Instr, Text
  <2>2. ~Foreign(l.name)
    BY SharedNames DEF l
  <2> QED
    BY <2>1, <2>2
<1>5. m \in {3, 13, 14, 15}
  BY <1>1, <1>4 DEF Listed2, Foreign
<1>6. /\ m = 3  => l = Instr("eq", <<>>)
      /\ m = 13 => l = Instr("and", <<>>)
      /\ m = 14 => l = Instr("or", <<>>)
      /\ m = 15 => l = Instr("xor", <<>>)
  BY <1>3, FunctionNames
<1>7. x = 57344 + 128 * m
  BY <1>5, <1>6, SharedCodes
<1> HIDE DEF x
<1>8. x \in Word /\ x \div 4096 = 14 /\ Field(x, 128, 32) = m
  BY <1>5, <1>7, WordInt DEF Field
<1>9. Significant(x) = <<14, m>>
  BY <1>5, <1>8, SignificantIs
<1>10. Significant(w) = <<14, m>>
  BY <1>5, SignificantIs DEF m
<1> QED
  BY <1>9, <1>10 DEF Same, x, l

\* Every listing on which the programs agree.
LEMMA ListedAgrees ==
  ASSUME NEW w \in Word, NEW a, SizeIsLegal(w), Disassemble(w, a) \in SharedSources
  PROVE  Significant(Assembled(Disassemble(w, a))) = Significant(w)
<1>1. w \div 4096 \in {8, 11, 12, 13, 14}
  <2> SUFFICES ASSUME w \div 4096 \notin {8, 11, 12, 13, 14} PROVE FALSE
    OBVIOUS
  <2>1. Foreign(Disassemble(w, a).name)
    BY ListedOthers
  <2> QED
    BY <2>1, SharedNames
<1>2. Same(Assembled(Disassemble(w, a)), w)
  BY <1>1, ControlAgrees, StackAgrees, LoadAgrees, StoreAgrees, FunctionAgrees
<1> QED
  BY <1>2 DEF Same

\* What is listed can be assembled again: for every word fdisassem lists, a text
\* on which both programs agree assembles to that instruction.
THEOREM ListingsReassemble == Spec => []ListingReassembles
<1>1. IInv => ListingReassembles
  <2> SUFFICES ASSUME IInv, i > 0, code \in SharedSources, SizeIsLegal(i - 1)
               PROVE  Significant(Assembled(code)) = Significant(i - 1)
    BY DEF ListingReassembles
  <2> DEFINE w == i - 1
  <2>1. w \in Word /\ code = Disassemble(w, 32768)
    BY WordInt DEF IInv
  <2> HIDE DEF w
  <2> QED
    BY <2>1, ListedAgrees DEF w
<1> QED
  BY <1>1, ListedInv, PTL

-----------------------------------------------------------------------------
(* From the code to the listing.                                           *)

\* A source listed for its own code.
Listed(l) == \A a : Disassemble(Assembled(l), a) = l

\* The shared sources but loads, and sto and isto of the size l.
LEMMA SourcesListed ==
  ASSUME NEW l \in SharedSources \ LoadSources, l.letters # <<"l">>
  PROVE  Listed(l)
<1>1. CASE \E n \in {"nop", "leave", "halt"} : l = Instr(n, <<>>)
  <2>1. PICK k \in 0 .. 2 : l = Instr(<<"nop", "leave", "halt">>[k + 1], <<>>)
    <3>1. /\ <<"nop", "leave", "halt">>[0 + 1] = "nop"
          /\ <<"nop", "leave", "halt">>[1 + 1] = "leave"
          /\ <<"nop", "leave", "halt">>[2 + 1] = "halt"
      OBVIOUS
    <3> QED
      BY <1>1, <3>1
  <2>2. Assembled(l) = 32768 + 256 * k
    <3>1. k = 0 \/ k = 1 \/ k = 2
      OBVIOUS
    <3> QED
      BY <2>1, <3>1, SharedCodes
  <2> DEFINE x == Assembled(l)
  <2> HIDE DEF x
  <2>3. x = 32768 + 256 * k
    BY <2>2 DEF x
  <2>4. x \in Word /\ x \div 4096 = 8 /\ Field(x, 256, 16) = k /\ Field(x, 256, 16) <= 2
    BY <2>3, WordInt DEF Field
  <2>5. \A a : Disassemble(x, a)
                 = Instr(<<"nop", "leave", "halt">>[Field(x, 256, 16) + 1], <<>>)
    BY <2>4, ListedControl
  <2> QED
    BY <2>1, <2>4, <2>5 DEF Listed, x
<1>2. CASE \E n \in {"eq", "and", "or", "xor"} : l = Instr(n, <<>>)
  <2> DEFINE x == Assembled(l)
  <2>1. PICK m \in {3, 13, 14, 15} : \A p : l = Instr(Listed2(m, p), <<>>)
    BY <1>2, FunctionNames
  <2>2. x = 57344 + 128 * m
    <3> HIDE DEF x
    <3>1. /\ m = 3  => l = Instr("eq", <<>>)
          /\ m = 13 => l = Instr("and", <<>>)
          /\ m = 14 => l = Instr("or", <<>>)
          /\ m = 15 => l = Instr("xor", <<>>)
      BY <2>1, FunctionNames
    <3>2. x = Assembled(l)
      BY DEF x
    <3> QED
      BY <3>1, <3>2, SharedCodes
  <2> HIDE DEF x
  <2>3. x \in Word /\ x \div 4096 = 14 /\ Field(x, 128, 32) = m /\ Field(x, 128, 32) # 11
    BY <2>2, WordInt DEF Field
  <2>4. ASSUME NEW a PROVE Disassemble(x, a) = l
    <3>1. PICK p : Disassemble(x, a) = Instr(Listed2(Field(x, 128, 32), p), <<>>)
      BY <2>3, ListedFunction
    <3> QED
      BY <2>1, <2>3, <3>1
  <2> QED
    BY <2>4 DEF Listed, x
<1>3. CASE \E n \in {"sto", "isto"}, z \in {"b", "w", "l"} : l = Instr(n, <<z>>)
  <2> DEFINE x == Assembled(l)
  <2>1. PICK n \in {"sto", "isto"}, z \in {"b", "w", "l"} : l = Instr(n, <<z>>)
    BY <1>3
  <2>2. z # "l"
    BY <2>1 DEF Instr, Text
  <2>3. /\ size_letters[2] = "b" /\ size_letters[3] = "w"
        /\ SizeID["b"] = 1 /\ SizeID["w"] = 2
    BY DEF size_letters, SizeID
  <2>4. SizeID[z] \in {1, 2} /\ size_letters[SizeID[z] + 1] = z
    BY <2>2, <2>3
  <2> DEFINE k == SizeID[z]
             o == IF n = "isto" THEN 1 ELSE 0
  <2>5. x = 58752 + 64 * o + k
    <3> HIDE DEF x
    <3>1. x = Assembled(Instr(n, <<z>>))
      BY <2>1 DEF x
    <3>2. /\ Assembled(Instr("sto", <<z>>)) = 58752 + k
          /\ Assembled(Instr("isto", <<z>>)) = 58816 + k
      BY SharedCodes
    <3> QED
      BY <2>4, <3>1, <3>2
  <2> HIDE DEF x, k
  <2>6. k \in {1, 2} /\ size_letters[k + 1] = z
    BY <2>4 DEF k
  <2>7. /\ x \in Word /\ x \div 4096 = 14 /\ Field(x, 128, 32) = 11
        /\ Field(x, 64, 2) = o /\ x % 4 = k
    <3>1. o \in {0, 1}
      OBVIOUS
    <3> HIDE DEF o
    <3> QED
      BY <2>5, <2>6, <3>1, WordInt DEF Field
  <2>8. (IF IsIO(x) THEN "isto" ELSE "sto") = n /\ ListedSize(x) = z
    BY <2>6, <2>7 DEF IsIO, ListedSize
  <2>9. \A a : Disassemble(x, a) = Instr(IF IsIO(x) THEN "isto" ELSE "sto", <<ListedSize(x)>>)
    BY <2>7, ListedStore
  <2> QED
    BY <2>1, <2>8, <2>9 DEF Listed, x
<1>4. CASE \E n \in {"drop", "dup", "swap"}, z \in {"d", "t"} : l = Instr(n, <<z>>)
  <2> DEFINE x == Assembled(l)
  <2>1. PICK n \in {"drop", "dup", "swap"}, z \in {"d", "t"} : l = Instr(n, <<z>>)
    BY <1>4
  <2>2. PICK f \in 0 .. 2 : n = <<"drop", "dup", "swap">>[f + 1]
    <3>1. /\ <<"drop", "dup", "swap">>[0 + 1] = "drop"
          /\ <<"drop", "dup", "swap">>[1 + 1] = "dup"
          /\ <<"drop", "dup", "swap">>[2 + 1] = "swap"
      OBVIOUS
    <3> QED
      BY <3>1
  <2> DEFINE s == AsmStack[z]
  <2>3. s \in {0, 3} /\ stack_letters[s + 1] = z
    BY DEF AsmStack, stack_letters
  <2>4. x = 45056 + 256 * f + 64 * s
    <3> HIDE DEF x
    <3>1. x = Assembled(Instr(n, <<z>>))
      BY <2>1 DEF x
    <3>2. /\ Assembled(Instr("drop", <<z>>)) = 45056 + 64 * s
          /\ Assembled(Instr("dup", <<z>>)) = 45312 + 64 * s
          /\ Assembled(Instr("swap", <<z>>)) = 45568 + 64 * s
      BY SharedCodes
    <3> HIDE DEF s
    <3>3. f = 0 \/ f = 1 \/ f = 2
      OBVIOUS
    <3> QED
      BY <2>2, <2>3, <3>1, <3>2, <3>3
  <2> HIDE DEF x, s
  <2>5. /\ x \in Word /\ x \div 4096 = 11 /\ Field(x, 256, 16) = f /\ Field(x, 256, 16) <= 2
        /\ Field(x, 64, 4) = s
    BY <2>3, <2>4, WordInt DEF Field
  <2>6. ListedStack(x, 64) = z
    BY <2>3, <2>5 DEF ListedStack
  <2>7. \A a : Disassemble(x, a)
                 = Instr(<<"drop", "dup", "swap">>[Field(x, 256, 16) + 1], <<ListedStack(x, 64)>>)
    BY <2>5, ListedOperation
  <2> QED
    BY <2>1, <2>2, <2>5, <2>6, <2>7 DEF Listed, x
<1>5. CASE \E y, z \in {"d", "t"} : l = Instr("mov", <<y, z>>)
  <2> DEFINE x == Assembled(l)
  <2>1. PICK y \in {"d", "t"}, z \in {"d", "t"} : l = Instr("mov", <<y, z>>)
    BY <1>5
  <2> DEFINE s == AsmStack[y]
             t == AsmStack[z]
  <2>2. /\ s \in {0, 3} /\ stack_letters[s + 1] = y
        /\ t \in {0, 3} /\ stack_letters[t + 1] = z
    BY DEF AsmStack, stack_letters
  <2>3. x = 45824 + 64 * s + 16 * t
    <3> HIDE DEF x
    <3>1. x = Assembled(Instr("mov", <<y, z>>))
      BY <2>1 DEF x
    <3>2. Assembled(Instr("mov", <<y, z>>)) = 45824 + 64 * s + 16 * t
      BY SharedCodes
    <3> QED
      BY <3>1, <3>2
  <2> HIDE DEF x, s, t
  <2>4. /\ x \in Word /\ x \div 4096 = 11 /\ Field(x, 256, 16) = 3
        /\ Field(x, 64, 4) = s /\ Field(x, 16, 4) = t
    BY <2>2, <2>3, WordInt DEF Field
  <2>5. ListedStack(x, 64) = y /\ ListedStack(x, 16) = z
    BY <2>2, <2>4 DEF ListedStack
  <2>6. \A a : Disassemble(x, a) = Instr("mov", <<ListedStack(x, 64), ListedStack(x, 16)>>)
    BY <2>4, ListedMove
  <2> QED
    BY <2>1, <2>5, <2>6 DEF Listed, x
<1>6. \/ \E n \in {"nop", "leave", "halt"} : l = Instr(n, <<>>)
      \/ \E n \in {"eq", "and", "or", "xor"} : l = Instr(n, <<>>)
      \/ \E n \in {"sto", "isto"}, z \in {"b", "w", "l"} : l = Instr(n, <<z>>)
      \/ \E n \in {"drop", "dup", "swap"}, z \in {"d", "t"} : l = Instr(n, <<z>>)
      \/ \E y, z \in {"d", "t"} : l = Instr("mov", <<y, z>>)
  <2>1. l \in SharedSources /\ l \notin LoadSources
    OBVIOUS
  <2> QED
    BY <2>1, SharedShape
<1> QED
  BY <1>1, <1>2, <1>3, <1>4, <1>5, <1>6

\* What was assembled is listed as what it was: the code of a shared source is
\* listed as that source, and no two of them have the same code.
THEOREM SourcesAreAlwaysListed == Spec => []SourcesAreListed
<1>1. IInv => SourcesAreListed
  <2> SUFFICES ASSUME IInv, i > 0, i - 1 \in DOMAIN SourcesOf
               PROVE  SourcesOf[i - 1] = {code}
    BY DEF SourcesAreListed
  <2> DEFINE w == i - 1
             S == {l \in SharedSources \ LoadSources : l.letters # <<"l">>}
             K == {Assembled(l) : l \in S}
  <2>1. code = Disassemble(w, 32768)
    BY DEF IInv
  <2> HIDE DEF w
  <2>2. SourcesOf = [k \in K |-> {l \in S : Assembled(l) = k}]
    BY DEF SourcesOf
  <2>3. \A l \in S : Listed(l)
    BY SourcesListed
  <2> HIDE DEF S
  <2>4. w \in K
    BY <2>2 DEF w
  <2>5. SourcesOf[w] = {l \in S : Assembled(l) = w}
    BY <2>2, <2>4
  <2>6. PICK l \in S : Assembled(l) = w
    BY <2>4
  <2>7. ASSUME NEW k \in S, Assembled(k) = w PROVE k = code
    BY <2>1, <2>3, <2>7 DEF Listed
  <2>8. SourcesOf[w] = {code}
    BY <2>5, <2>6, <2>7
  <2> QED
    BY <2>8 DEF w
<1> QED
  BY <1>1, ListedInv, PTL
=============================================================================
