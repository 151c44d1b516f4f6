----------------------------- MODULE FAsmProofs -----------------------------
(***************************************************************************)
(* Theorems about the assembler, for every set of sources, every size of   *)
(* the symbol table and of the record buffer: symbols keep their meaning,  *)
(* both phases give every line the same address, after success every label *)
(* has the address of its line, the file tells success from failure, the   *)
(* state keeps its type, and the hex writer stays in step with the address.*)
(***************************************************************************)
EXTENDS FAsm, WordsTheorems, FiniteSetTheorems, SequenceTheorems

-----------------------------------------------------------------------------
(* Symbols.                                                                *)

\* No symbol gets another value, or is lost.
Grows ==
  \A n \in DOMAIN symbols : n \in DOMAIN symbols' /\ symbols'[n] = symbols[n]

LEMMA DefineGrows ==
  ASSUME NEW n, NEW value, Define(n, value)
  PROVE  Grows
BY DEF Define, Grows

\* Every step keeps the symbols, and only the Scan phase adds to them.
LEMMA NextGrows ==
  ASSUME Next
  PROVE  Grows /\ (phase # "Scan" => symbols' = symbols)
<1> USE DEF parser, writer, NoEmit, Emit, At
<1>1. CASE PushByte \/ Flush \/ Rewind \/ Finish \/ GiveUp
  BY <1>1 DEF PushByte, Flush, Rewind, Finish, GiveUp, Grows
<1>2. CASE Skip \/ Unterminated \/ Malformed
  BY <1>2 DEF Skip, Unterminated, Malformed, vars, Grows
<1>3. CASE AddLabel
  <2>1. phase = "Scan"
    BY <1>3 DEF AddLabel
  <2>2. CASE Define(ThisLine.name, address)
    BY <2>1, <2>2, DefineGrows
  <2>3. CASE symbols' = symbols
    BY <2>1, <2>3 DEF Grows
  <2> QED BY <1>3, <2>2, <2>3 DEF AddLabel
<1>4. CASE ScanDef
  <2>1. phase = "Scan"
    BY <1>4 DEF ScanDef, Define
  <2>2. \/ \E v : Define(ThisLine.name, Wrap(v))
        \/ symbols' = symbols
    BY <1>4 DEF ScanDef, Define
  <2>3. CASE \E v : Define(ThisLine.name, Wrap(v))
    BY <2>1, <2>3, DefineGrows
  <2>4. CASE symbols' = symbols
    BY <2>1, <2>4 DEF Grows
  <2> QED BY <2>2, <2>3, <2>4
<1>5. CASE CountInstruction \/ ScanDirective
  BY <1>5 DEF CountInstruction, ScanDirective, Grows
<1>6. CASE AssembleStep
  BY <1>6 DEF AssembleStep, CheckLabel, Generate, GenerateFails, SkipDef,
              EmitString, EmitBytes, EmitNothing, Align, Org, Grows
<1> QED BY <1>1, <1>2, <1>3, <1>4, <1>5, <1>6 DEF Next, ScanStep

\* What a symbol means never changes (find_symbol, add_symbol): neither a
\* second definition nor the Assemble phase touches it.
THEOREM SymbolsKeepMeaning == Spec => SymbolsStable
<1>1. Next => /\ \A n \in DOMAIN symbols :
                   n \in DOMAIN symbols' /\ symbols'[n] = symbols[n]
              /\ phase # "Scan" => symbols' = symbols
  BY NextGrows DEF Grows
<1> QED BY <1>1, PTL DEF Spec, SymbolsStable

-----------------------------------------------------------------------------
(* Addresses.  Both phases move the address by the same function of the    *)
(* line, the address and the symbol table.                                 *)

DirectiveKinds == {".str", ".b", ".w", ".l", ".align", ".org"}

Succ(l, a, table) ==
  CASE l.kind \in InstructionKinds -> {Wrap(a + ByteCount(l))}
    [] l.kind \in DirectiveKinds   -> Behind(l, a, table)
    [] OTHER                       -> {a}

\* A line moves an address to one place at most,
LEMMA SuccUnique ==
  ASSUME NEW l, NEW a, NEW table,
         NEW x \in Succ(l, a, table), NEW y \in Succ(l, a, table)
  PROVE  x = y
<1>1. CASE l.kind \in InstructionKinds
  BY <1>1 DEF Succ, InstructionKinds, DirectiveKinds
<1>2. CASE l.kind \notin InstructionKinds \cup DirectiveKinds
  BY <1>2 DEF Succ
<1>3. CASE l.kind \in DirectiveKinds
  <2>1. x \in Behind(l, a, table) /\ y \in Behind(l, a, table)
    BY <1>3 DEF Succ, DirectiveKinds, InstructionKinds
  <2>2. ASSUME NEW u \in Values(l.operand, table),
               NEW v \in Values(l.operand, table)
        PROVE  u = v
    BY DEF Values
  <2> QED BY <1>3, <2>1, <2>2 DEF Behind, DirectiveKinds
<1> QED BY <1>1, <1>2, <1>3

\* and to the same one with a symbol table that has grown.
LEMMA SuccGrows ==
  ASSUME Grows, NEW l, NEW a, NEW x \in Succ(l, a, symbols)
  PROVE  x \in Succ(l, a, symbols')
<1>1. CASE l.kind \in InstructionKinds
  BY <1>1 DEF Succ, InstructionKinds, DirectiveKinds
<1>2. CASE l.kind \notin InstructionKinds \cup DirectiveKinds
  BY <1>2 DEF Succ
<1>3. CASE l.kind \in DirectiveKinds
  <2>1. x \in Behind(l, a, symbols)
    BY <1>3 DEF Succ, DirectiveKinds, InstructionKinds
  <2>2. ASSUME NEW v \in Values(l.operand, symbols)
        PROVE  v \in Values(l.operand, symbols')
    BY DEF Values, Grows
  <2>3. x \in Behind(l, a, symbols')
    BY <1>3, <2>1, <2>2 DEF Behind, DirectiveKinds
  <2> QED BY <1>3, <2>3 DEF Succ, DirectiveKinds, InstructionKinds
<1> QED BY <1>1, <1>2, <1>3

LEMMA LineFields ==
  ASSUME NEW l \in Line
  PROVE  /\ l.kind = ".str" => Len(l.bytes) \in Nat
         /\ l.kind = ".b" => Len(l.operands) \in Nat
         /\ l.kind = ".align" => l.to \in {2, 4}
BY DEF Line

\* An address never leaves 0 .. 65535.
LEMMA SuccWord ==
  ASSUME NEW l \in Line, NEW a \in Word, NEW table,
         NEW x \in Succ(l, a, table)
  PROVE  x \in Word
<1>1. a \in Nat
  BY WordInt
<1>2. CASE l.kind \in InstructionKinds
  <2>1. a + ByteCount(l) \in Int
    BY <1>1 DEF ByteCount
  <2> QED BY <1>2, <2>1, WrapWord DEF Succ, InstructionKinds, DirectiveKinds
<1>3. CASE l.kind \notin InstructionKinds \cup DirectiveKinds
  BY <1>3 DEF Succ
<1>4. CASE l.kind \in DirectiveKinds
  <2>1. x \in Behind(l, a, table)
    BY <1>4 DEF Succ, DirectiveKinds, InstructionKinds
  <2>2. CASE l.kind = ".str"
    BY <1>1, <2>1, <2>2, LineFields, WrapWord DEF Behind
  <2>3. CASE l.kind = ".b"
    BY <1>1, <2>1, <2>3, LineFields, WrapWord DEF Behind
  <2>4. CASE l.kind \in {".w", ".l"}
    BY <2>1, <2>4 DEF Behind, Word
  <2>5. CASE l.kind = ".align"
    <3>1. Delta(a, l.to) \in Int
      BY <1>1, <2>5, LineFields DEF Delta
    <3> QED BY <1>1, <2>1, <2>5, <3>1, WrapWord DEF Behind
  <2>6. CASE l.kind = ".org"
    BY <2>1, <2>6 DEF Behind
  <2> QED BY <1>4, <2>2, <2>3, <2>4, <2>5, <2>6 DEF DirectiveKinds
<1> QED BY <1>2, <1>3, <1>4

-----------------------------------------------------------------------------
(* The invariant.  What Scan has recorded is a chain of Succ under the      *)
(* symbol table as it is now, though each step was taken with an earlier    *)
(* one; Assemble retraces that chain, and checks the labels on its way.     *)

Typed ==
  /\ source \in Seq(Line)
  /\ phase \in {"Scan", "Assemble", "Done"}
  /\ line_no \in 1 .. Len(source) + 1
  /\ address \in Word
  /\ scanned \in Seq(Word)

Scanning ==
  phase = "Scan" => Len(scanned) = line_no /\ address = scanned[line_no]

Chain ==
  /\ scanned # <<>> /\ scanned[1] = 0
  /\ Len(scanned) <= Len(source) + 1
  /\ \A i \in 1 .. Len(scanned) - 1 :
       scanned[i + 1] \in Succ(source[i], scanned[i], symbols)

Retracing ==
  phase = "Assemble" =>
    /\ Len(scanned) = Len(source) + 1
    /\ all_ok => address = scanned[line_no]

Checked ==
  phase # "Scan" /\ all_ok =>
    \A i \in 1 .. line_no - 1 :
      source[i].kind = "label" =>
        /\ source[i].name \in DOMAIN symbols
        /\ symbols[source[i].name] = scanned[i]

Through == phase = "Done" /\ all_ok => line_no = Len(source) + 1

IInv == Typed /\ Scanning /\ Chain /\ Retracing /\ Checked /\ Through

\* The turns of the loop that go on with the next line move the address by
\* Succ; what comes of a label in the Assemble phase has been checked.
Turn ==
  /\ phase \in {"Scan", "Assemble"} /\ line_no <= Len(source) /\ all_ok
  /\ \E a \in Succ(ThisLine, address, symbols) : Advance(a)
  /\ Grows
  /\ phase = "Assemble" /\ ThisLine.kind = "label" => LabelAgrees(ThisLine)

\* The others leave the address and the lines alone, and end a phase.
Stay ==
  /\ UNCHANGED <<source, line_no, address, scanned>> /\ Grows
  /\ \/ phase' = phase /\ (all_ok' => all_ok)
     \/ /\ phase' = "Done" /\ all_ok' = all_ok
        /\ all_ok => line_no > Len(source) /\ phase = "Assemble"

Restart ==
  /\ phase = "Scan" /\ line_no > Len(source)
  /\ phase' = "Assemble" /\ line_no' = 1 /\ address' = 0
  /\ UNCHANGED <<source, symbols, all_ok, scanned>>

LEMMA NextShape ==
  ASSUME Next
  PROVE  Turn \/ Stay \/ Restart
<1> USE NextGrows DEF At
<1>1. CASE PushByte \/ Flush \/ Finish \/ GiveUp
  BY <1>1 DEF PushByte, Flush, Finish, GiveUp, Stay, parser
<1>2. CASE Rewind
  BY <1>2 DEF Rewind, Restart
<1>3. CASE Skip
  BY <1>3 DEF Skip, Turn, Succ, InstructionKinds, DirectiveKinds
<1>4. CASE Unterminated \/ Malformed \/ GenerateFails
  BY <1>4 DEF Unterminated, Malformed, GenerateFails, Stay, Fail, vars, parser
<1>5. CASE AddLabel
  BY <1>5 DEF AddLabel, Turn, Stay, Fail, Succ, InstructionKinds, DirectiveKinds
<1>6. CASE CountInstruction
  BY <1>6 DEF CountInstruction, Turn, Succ, InstructionKinds, DirectiveKinds
<1>7. CASE ScanDirective
  BY <1>7 DEF ScanDirective, Turn, Stay, Fail, Succ, InstructionKinds,
              DirectiveKinds
<1>8. CASE ScanDef
  BY <1>8 DEF ScanDef, Turn, Stay, Fail, Succ, InstructionKinds, DirectiveKinds
<1>9. CASE CheckLabel
  BY <1>9 DEF CheckLabel, Turn, Stay, Fail, Succ, InstructionKinds,
              DirectiveKinds
<1>10. CASE Generate
  BY <1>10 DEF Generate, Emit, Turn, Succ, InstructionKinds, DirectiveKinds
<1>11. CASE SkipDef
  BY <1>11 DEF SkipDef, Turn, Succ, InstructionKinds, DirectiveKinds
<1>12. CASE EmitString
  BY <1>12 DEF EmitString, Emit, Turn, Succ, InstructionKinds, DirectiveKinds
<1>13. CASE EmitBytes
  BY <1>13 DEF EmitBytes, Emit, Turn, Stay, Fail, Succ, InstructionKinds,
               DirectiveKinds
<1>14. CASE EmitNothing
  BY <1>14 DEF EmitNothing, Turn, Succ, InstructionKinds, DirectiveKinds
<1>15. CASE Align
  BY <1>15 DEF Align, Emit, Turn, Succ, InstructionKinds, DirectiveKinds
<1>16. CASE Org
  BY <1>16 DEF Org, Turn, Stay, Fail, Succ, InstructionKinds, DirectiveKinds
<1> QED
  BY <1>1, <1>2, <1>3, <1>4, <1>5, <1>6, <1>7, <1>8, <1>9, <1>10, <1>11,
     <1>12, <1>13, <1>14, <1>15, <1>16 DEF Next, ScanStep, AssembleStep

LEMMA InitIInv == Init => IInv
BY SourcesAssumption DEF Init, IInv, Typed, Scanning, Chain, Retracing,
   Checked, Through, Word

\* A chain survives the growth of the symbol table.
LEMMA ChainGrows ==
  ASSUME Typed, Chain, Grows, UNCHANGED <<source, scanned>>
  PROVE  Chain'
<1>1. ASSUME NEW i \in 1 .. Len(scanned) - 1
      PROVE  scanned[i + 1] \in Succ(source[i], scanned[i], symbols')
  BY <1>1, SuccGrows DEF Chain
<1> QED BY <1>1 DEF Chain

LEMMA StayIInv == IInv /\ Stay => IInv'
<1> SUFFICES ASSUME IInv, Stay PROVE IInv'
  OBVIOUS
<1> USE DEF IInv, Stay
<1>1. Typed' /\ Scanning' /\ Retracing' /\ Through'
  BY DEF Typed, Scanning, Retracing, Through
<1>2. Chain'
  BY ChainGrows
<1>3. Checked'
  BY DEF Checked, Grows, Typed
<1> QED BY <1>1, <1>2, <1>3

LEMMA RestartIInv == IInv /\ Restart => IInv'
<1> SUFFICES ASSUME IInv, Restart PROVE IInv'
  OBVIOUS
<1>1. Len(scanned) = Len(source) + 1
  BY DEF IInv, Restart, Typed, Scanning
<1>2. Typed' /\ Scanning' /\ Retracing' /\ Through'
  BY <1>1 DEF IInv, Restart, Typed, Scanning, Retracing, Through, Chain, Word
<1>3. Chain'
  BY DEF IInv, Restart, Chain
<1>4. Checked'
  BY DEF IInv, Restart, Checked
<1> QED BY <1>2, <1>3, <1>4 DEF IInv

\* The turn that takes address to a.
LEMMA TurnIInv == IInv /\ Turn => IInv'
<1> SUFFICES ASSUME IInv, Turn PROVE IInv'
  OBVIOUS
<1>1. PICK a \in Succ(ThisLine, address, symbols) : Advance(a)
  BY DEF Turn
<1> USE <1>1 DEF Advance
<1>2. line_no \in 1 .. Len(source) /\ ThisLine \in Line
  BY DEF IInv, Typed, Turn, ThisLine
<1>3. a \in Word /\ address \in Word
  BY <1>2, SuccWord DEF IInv, Typed
<1>4. /\ Grows
      /\ Succ(ThisLine, address, symbols)
           = Succ(source[line_no], address, symbols)
  BY DEF Turn, ThisLine
<1>5. CASE phase = "Scan"
  <2>1. /\ scanned' = Append(scanned, a)
        /\ Len(scanned) = line_no /\ address = scanned[line_no]
    BY <1>5 DEF IInv, Scanning
  <2>2. /\ scanned' \in Seq(Word) /\ Len(scanned') = line_no + 1
        /\ scanned'[line_no + 1] = a
        /\ \A i \in 1 .. line_no : scanned'[i] = scanned[i]
    BY <1>2, <1>3, <2>1 DEF IInv, Typed
  <2>3. Typed' /\ Scanning' /\ Retracing' /\ Checked' /\ Through'
    BY <1>2, <1>3, <1>5, <2>2 DEF IInv, Typed, Scanning, Retracing, Checked,
       Through
  <2>4. Chain'
    <3>1. ASSUME NEW i \in 1 .. line_no
          PROVE  scanned'[i + 1] \in Succ(source[i], scanned'[i], symbols')
      <4>1. CASE i = line_no
        <5>1. a \in Succ(source[line_no], scanned[line_no], symbols)
          BY <1>4, <2>1
        <5> QED BY <1>4, <2>2, <4>1, <5>1, SuccGrows
      <4>2. CASE i # line_no
        <5>1. i \in 1 .. Len(scanned) - 1 /\ i + 1 \in 1 .. line_no
          BY <1>2, <2>1, <4>2
        <5>2. scanned[i + 1] \in Succ(source[i], scanned[i], symbols)
          BY <5>1 DEF IInv, Chain
        <5>3. scanned'[i + 1] = scanned[i + 1] /\ scanned'[i] = scanned[i]
          BY <2>2, <5>1
        <5> QED BY <1>4, <5>2, <5>3, SuccGrows
      <4> QED BY <4>1, <4>2
    <3>2. /\ scanned' # <<>> /\ scanned'[1] = 0
          /\ Len(scanned') <= Len(source') + 1
      BY <1>2, <2>2 DEF IInv, Typed, Chain
    <3> QED BY <1>2, <2>2, <3>1, <3>2 DEF Chain
  <2> QED BY <2>3, <2>4 DEF IInv
<1>6. CASE phase = "Assemble"
  <2>1. scanned' = scanned /\ source' = source
    BY <1>6
  <2>2. Len(scanned) = Len(source) + 1 /\ address = scanned[line_no]
    BY <1>6 DEF IInv, Retracing, Turn
  <2>3. scanned[line_no + 1] \in Succ(source[line_no], address, symbols)
    BY <1>2, <2>2 DEF IInv, Chain, Typed
  <2>4. a = scanned[line_no + 1]
    BY <1>4, <2>3, SuccUnique
  <2>5. Typed' /\ Scanning' /\ Retracing' /\ Through'
    BY <1>2, <1>3, <1>6, <2>1, <2>2, <2>4 DEF IInv, Typed, Scanning,
       Retracing, Through
  <2>6. Chain'
    BY <1>4, <2>1, ChainGrows DEF IInv
  <2>7. Checked'
    <3>1. ASSUME NEW i \in 1 .. line_no, source[i].kind = "label"
          PROVE  /\ source[i].name \in DOMAIN symbols
                 /\ symbols[source[i].name] = scanned[i]
      <4>1. CASE i = line_no
        BY <1>6, <2>2, <3>1, <4>1 DEF Turn, ThisLine, LabelAgrees
      <4>2. CASE i # line_no
        <5>1. i \in 1 .. line_no - 1
          BY <1>2, <4>2
        <5> QED BY <1>6, <3>1, <5>1 DEF IInv, Checked, Turn
      <4> QED BY <4>1, <4>2
    <3> QED BY <1>2, <1>4, <2>1, <3>1 DEF Checked, Grows
  <2> QED BY <2>5, <2>6, <2>7 DEF IInv
<1> QED BY <1>5, <1>6 DEF Turn

LEMMA StepIInv == IInv /\ [Next]_vars => IInv'
<1>1. ASSUME IInv, Next PROVE IInv'
  BY <1>1, NextShape, TurnIInv, StayIInv, RestartIInv
<1>2. ASSUME IInv, UNCHANGED vars PROVE IInv'
  BY <1>2 DEF vars, parser, IInv, Typed, Scanning, Chain, Retracing, Checked,
     Through
<1> QED BY <1>1, <1>2

LEMMA AlwaysIInv == Spec => []IInv
BY InitIInv, StepIInv, PTL DEF Spec

\* Both phases give every line the same address (assemble), whatever symbols
\* .org reads and whenever they were defined.
THEOREM AddressesAgree == Spec => []PhasesAgree
<1>1. IInv => PhasesAgree
  BY DEF IInv, Retracing, PhasesAgree
<1> QED BY <1>1, AlwaysIInv, PTL

\* After success every label has the address of its line (check_label).
THEOREM LabelsAreResolved == Spec => []LabelsResolve
<1>1. IInv => LabelsResolve
  BY DEF IInv, Typed, Checked, Through, LabelsResolve
<1> QED BY <1>1, AlwaysIInv, PTL

-----------------------------------------------------------------------------
(* The file.  Records are appended one by one, an end-of-file record only   *)
(* by the step that ends a successful assembly.                             *)

IsOutput == \E S : output \in Seq(S)

DataOnly(records) == \A i \in 1 .. Len(records) : records[i].type # "eof"

Quiet == phase = "Done" => Idle

Incomplete == ~(phase = "Done" /\ all_ok) => DataOnly(output)

FInv == IsOutput /\ Quiet /\ Incomplete /\ FileComplete

LEMMA AppendData ==
  ASSUME NEW S, NEW s \in Seq(S), DataOnly(s), NEW r, r.type = "data"
  PROVE  \E U : Append(s, r) \in Seq(U) /\ DataOnly(Append(s, r))
<1>1. s \in Seq(S \cup {r}) /\ r \in S \cup {r}
  OBVIOUS
<1>2. Append(s, r) \in Seq(S \cup {r})
  BY <1>1
<1>3. DataOnly(Append(s, r))
  BY <1>1 DEF DataOnly
<1> QED BY <1>2, <1>3

LEMMA FlushedData ==
  ASSUME IsOutput, DataOnly(output)
  PROVE  \E U : Flushed \in Seq(U) /\ DataOnly(Flushed)
<1>1. PICK S : output \in Seq(S)
  BY DEF IsOutput
<1>2. Data.type = "data"
  BY DEF Data
<1>3. CASE hex_buffer = <<>>
  BY <1>1, <1>3 DEF Flushed
<1>4. CASE hex_buffer # <<>>
  BY <1>1, <1>2, <1>4, AppendData DEF Flushed
<1> QED BY <1>3, <1>4

\* Records of data, written while the assembly is under way.
Write ==
  /\ phase # "Done" /\ phase' = phase
  /\ \E U : output' \in Seq(U) /\ DataOnly(output')

\* The other steps but Finish leave the file alone.
Silent ==
  /\ phase # "Done" /\ UNCHANGED output
  /\ phase' = "Done" => ~all_ok' /\ Idle'

LEMMA NextOutput ==
  ASSUME FInv, Next
  PROVE  Write \/ Silent \/ Finish
<1> USE DEF At, NoEmit, Advance, Fail, Emit, writer, parser, FInv
<1>1. CASE PushByte
  <2>1. phase # "Done" /\ phase' = phase
    BY <1>1 DEF PushByte, Quiet, Idle
  <2>2. PICK S : output \in Seq(S)
    BY DEF IsOutput
  <2>3. [Data EXCEPT !.bytes = Append(@, Head(pending))].type = "data"
    BY DEF Data
  <2>4. DataOnly(output)
    BY <2>1 DEF Incomplete
  <2>5. \/ output' = output
        \/ output' = Append(output,
                            [Data EXCEPT !.bytes = Append(@, Head(pending))])
    BY <1>1 DEF PushByte
  <2> QED BY <2>1, <2>2, <2>3, <2>4, <2>5, AppendData DEF Write
<1>2. CASE Flush
  BY <1>2, FlushedData DEF Flush, Write, Quiet, Idle, Incomplete
<1>3. CASE Org
  <2>1. output' = Flushed \/ output' = output
    BY <1>3 DEF Org
  <2>2. phase # "Done" /\ phase' = phase
    BY <1>3 DEF Org
  <2> QED BY <2>1, <2>2, FlushedData DEF Write, Incomplete, IsOutput
<1>4. CASE Skip \/ Unterminated \/ Malformed
  BY <1>4 DEF Skip, Unterminated, Malformed, vars, Silent
<1>5. CASE ScanStep
  BY <1>5 DEF ScanStep, AddLabel, CountInstruction, ScanDirective, ScanDef,
              Silent
<1>6. CASE CheckLabel \/ GenerateFails \/ SkipDef \/ EmitNothing
  BY <1>6 DEF CheckLabel, GenerateFails, SkipDef, EmitNothing, Silent
<1>7. CASE Generate \/ EmitString \/ EmitBytes \/ Align
  BY <1>7 DEF Generate, EmitString, EmitBytes, Align, Silent
<1>8. CASE Rewind \/ GiveUp
  BY <1>8 DEF Rewind, GiveUp, Silent, Idle
<1> QED BY <1>1, <1>2, <1>3, <1>4, <1>5, <1>6, <1>7, <1>8
        DEF Next, AssembleStep

LEMMA FinishCompletes ==
  ASSUME FInv, Finish
  PROVE  FInv'
<1>1. DataOnly(output)
  BY DEF FInv, Incomplete, Finish
<1>2. PICK U : Flushed \in Seq(U) /\ DataOnly(Flushed)
  BY <1>1, FlushedData DEF FInv
<1> DEFINE end == [type |-> "eof"]
           V   == U \cup {end}
<1>3. /\ output' = Append(Flushed, end) /\ phase' = "Done" /\ all_ok'
      /\ Idle'
  BY DEF Finish, Idle
<1>4. Flushed \in Seq(V) /\ end \in V /\ end.type = "eof"
  BY <1>2
<1> HIDE DEF end, V
<1>5. /\ output' \in Seq(V) /\ Len(output') = Len(Flushed) + 1
      /\ Len(Flushed) \in Nat
      /\ output'[Len(output')] = end
      /\ \A i \in 1 .. Len(Flushed) : output'[i] = Flushed[i]
  BY <1>3, <1>4
<1>6. EofMeansSuccess'
  <2>1. ASSUME NEW i \in 1 .. Len(output'), output'[i].type = "eof"
        PROVE  i = Len(output')
    BY <1>2, <1>5, <2>1 DEF DataOnly
  <2> QED BY <1>3, <2>1 DEF EofMeansSuccess
<1>7. SuccessMeansEof'
  BY <1>4, <1>5 DEF SuccessMeansEof
<1> QED BY <1>3, <1>5, <1>6, <1>7 DEF FInv, IsOutput, Quiet, Incomplete,
           FileComplete

LEMMA StepFInv == FInv /\ [Next]_vars => FInv'
<1>1. ASSUME FInv, UNCHANGED vars PROVE FInv'
  BY <1>1 DEF vars, parser, writer, FInv, IsOutput, Quiet, Idle, Incomplete,
     FileComplete, EofMeansSuccess, SuccessMeansEof
<1>2. ASSUME FInv, Write PROVE FInv'
  <2>1. phase' # "Done" /\ IsOutput' /\ DataOnly(output')
    BY <1>2 DEF Write, IsOutput
  <2> QED BY <2>1 DEF FInv, Quiet, Incomplete, FileComplete, EofMeansSuccess,
             SuccessMeansEof, DataOnly
<1>3. ASSUME FInv, Silent PROVE FInv'
  <2>1. IsOutput' /\ DataOnly(output')
    BY <1>3 DEF Silent, FInv, IsOutput, Incomplete
  <2> QED BY <1>3, <2>1 DEF Silent, FInv, Quiet, Incomplete, FileComplete,
             EofMeansSuccess, SuccessMeansEof, DataOnly
<1> QED BY <1>1, <1>2, <1>3, NextOutput, FinishCompletes

LEMMA AlwaysFInv == Spec => []FInv
<1>1. Init => FInv
  <2>1. Init => output \in Seq({})
    BY DEF Init
  <2> QED BY <2>1 DEF Init, FInv, IsOutput, Quiet, Incomplete, DataOnly,
             FileComplete, EofMeansSuccess, SuccessMeansEof
<1> QED BY <1>1, StepFInv, PTL DEF Spec

\* The file ends with an end-of-file record exactly when the assembly was
\* successful (assemble, hex_flush): what an error leaves behind can be told
\* from a program.
THEOREM FileIsComplete == Spec => []FileComplete
<1>1. FInv => FileComplete
  BY DEF FInv
<1> QED BY <1>1, AlwaysFInv, PTL

-----------------------------------------------------------------------------
(* Bytes and cells: what the lines hand to the hex writer.                 *)

IsTable(table) == \A n \in DOMAIN table : table[n] \in Word

LEMMA ValuesInt ==
  ASSUME NEW operand \in Operand, NEW table, IsTable(table)
  PROVE  /\ Values(operand, table) \subseteq Int
         /\ operand.tag = "symbol" => Values(operand, table) \subseteq Word
<1>1. \A n \in DOMAIN table : table[n] \in Word /\ table[n] \in Int
  BY WordInt DEF IsTable
<1>2. /\ operand.tag \in {"number", "symbol", "malformed"}
      /\ operand.tag = "number" => operand.value \in Int
  BY DEF Operand
<1>3. CASE operand.tag = "number"
  BY <1>2, <1>3 DEF Values
<1>4. CASE operand.tag = "symbol"
  BY <1>1, <1>4 DEF Values
<1>5. CASE operand.tag = "malformed"
  BY <1>5 DEF Values
<1> QED
  BY <1>2, <1>3, <1>4, <1>5

LEMMA Initial ==
  ASSUME NEW m \in Nat
  PROVE  IsFiniteSet(1 .. m) /\ Cardinality(1 .. m) = m
<1>1. 1 \in Int /\ m \in Int
  OBVIOUS
<1>2. /\ IsFiniteSet(1 .. m)
      /\ Cardinality(1 .. m) = IF 1 > m THEN 0 ELSE m - 1 + 1
  BY <1>1, FS_Interval
<1> QED
  BY <1>2

\* Numbers of a finite set have places in it.
LEMMA PlaceExists ==
  ASSUME NEW m \in Nat, NEW P, P \subseteq 1 .. m,
         NEW n \in 1 .. Cardinality(P)
  PROVE  Place(n, P) \in P
<1> DEFINE Below(i) == {j \in P : j <= i}
           Count(i) == Cardinality(Below(i))
           F == {k \in 0 .. m : Count(k) >= n}
<1>1. \A j \in P : j \in Int /\ 1 <= j /\ j <= m
  OBVIOUS
<1>2. IsFiniteSet(P)
  <2>1. IsFiniteSet(1 .. m) /\ P \in SUBSET (1 .. m)
    BY Initial
  <2> QED
    BY <2>1, FS_Subset
<1>3. ASSUME NEW i PROVE IsFiniteSet(Below(i)) /\ Count(i) \in Nat
  <2>1. Below(i) \in SUBSET P
    OBVIOUS
  <2>2. IsFiniteSet(Below(i))
    BY <1>2, <2>1, FS_Subset
  <2> QED
    BY <2>2, FS_CardinalityType
<1>4. n \in Int /\ n >= 1 /\ Cardinality(P) >= n
  BY <1>2, FS_CardinalityType
<1>5. m \in F
  <2>1. Below(m) = P
    BY <1>1
  <2> QED
    BY <1>4, <2>1
<1>6. PICK k \in F : \A i \in F : k <= i
  <2>1. F \subseteq Nat /\ F # {}
    BY <1>5
  <2> HIDE DEF F
  <2> QED
    BY <2>1, Least
<1>7. k \in 0 .. m /\ Count(k) >= n
  OBVIOUS
<1>8. k # 0
  <2>1. Below(0) = {}
    <3>1. \A j \in P : ~(j <= 0)
      BY <1>1
    <3> QED
      BY <3>1
  <2>2. Count(0) = 0
    BY <2>1, FS_EmptySet
  <2> QED
    BY <1>4, <1>7, <2>2
<1> DEFINE b == k - 1
<1>9. b \in 0 .. m /\ b \in Int /\ b < k /\ k = b + 1
  BY <1>7, <1>8
<1> HIDE DEF b
<1>10. b \notin F
  <2> HIDE DEF F
  <2>1. b \in F => k <= b
    BY <1>6
  <2>2. k \in Int
    BY <1>7
  <2> QED
    BY <1>9, <2>1, <2>2
<1>11. ~(Count(b) >= n)
  BY <1>9, <1>10
<1> HIDE DEF F
<1>12. k \in P
  <2> SUFFICES ASSUME k \notin P PROVE FALSE
    OBVIOUS
  <2>1. ASSUME NEW j \in P, j <= k PROVE j <= b
    BY <1>1, <1>9, <2>1
  <2>2. ASSUME NEW j \in P, j <= b PROVE j <= k
    BY <1>1, <1>9, <2>2
  <2>3. Below(k) = Below(b)
    BY <2>1, <2>2
  <2> QED
    BY <1>7, <1>11, <2>3
<1>13. Count(k) = Count(b) + 1
  <2>1. k \notin Below(b)
    BY <1>9
  <2>2. ASSUME NEW j \in P PROVE j <= k <=> j <= b \/ j = k
    BY <1>1, <1>9
  <2>3. Below(k) = Below(b) \cup {k}
    BY <1>12, <2>2
  <2>4. IsFiniteSet(Below(b))
    BY <1>3
  <2> HIDE DEF Below
  <2> QED
    BY <2>1, <2>3, <2>4, FS_AddElement
<1>14. Count(k) = n
  <2>1. Count(k) \in Nat /\ Count(b) \in Nat
    BY <1>3
  <2> HIDE DEF Count
  <2> QED
    BY <1>4, <1>7, <1>11, <1>13, <2>1
<1> QED
  BY <1>12, <1>14 DEF Place

\* What .b pushes: bytes, and one for each operand if all of them are bytes.
LEMMA PushedType ==
  ASSUME NEW s \in Seq(Operand), NEW table, IsTable(table)
  PROVE  /\ PushedBytes(s, table) \in Seq(Byte)
         /\ Len(PushedBytes(s, table)) <= Len(s)
         /\ (\A i \in DOMAIN s : IsByte(s[i], table)) =>
              Len(PushedBytes(s, table)) = Len(s)
<1> DEFINE P == Pushed(s, table)
           k == Cardinality(P)
           B(n) == (CHOOSE v \in Values(s[Place(n, P)], table) : TRUE) % 256
<1>1. /\ Len(s) \in Nat /\ DOMAIN s = 1 .. Len(s)
      /\ \A i \in 1 .. Len(s) : s[i] \in Operand
  BY ElementOfSeq
<1>2. P \subseteq 1 .. Len(s)
  <2>1. P \subseteq DOMAIN s
    BY DEF Pushed
  <2> HIDE DEF P
  <2> QED
    BY <1>1, <2>1
<1>3. k \in Nat /\ k <= Len(s)
  <2>1. IsFiniteSet(1 .. Len(s)) /\ Cardinality(1 .. Len(s)) = Len(s)
    BY <1>1, Initial
  <2> QED
    BY <1>2, <2>1, FS_Subset, FS_CardinalityType
<1>4. \A i \in P : Values(s[i], table) # {}
  BY DEF Pushed, IsByte
<1>5. PushedBytes(s, table) = [n \in 1 .. k |-> B(n)]
  BY DEF PushedBytes
<1> HIDE DEF P, k
<1>6. ASSUME NEW n \in 1 .. k PROVE B(n) \in Byte
  <2>1. Place(n, P) \in P
    <3>1. n \in 1 .. Cardinality(P)
      BY <1>6 DEF k
    <3> QED
      BY <1>1, <1>2, <3>1, PlaceExists
  <2>2. s[Place(n, P)] \in Operand
    BY <1>1, <1>2, <2>1
  <2>3. (CHOOSE v \in Values(s[Place(n, P)], table) : TRUE) \in Int
    BY <1>4, <2>1, <2>2, ValuesInt
  <2> QED
    BY <2>3, ByteInt
<1> HIDE DEF B
<1>7. /\ PushedBytes(s, table) \in Seq(Byte)
      /\ Len(PushedBytes(s, table)) = k
  BY <1>3, <1>5, <1>6
<1>8. ASSUME \A i \in DOMAIN s : IsByte(s[i], table) PROVE k = Len(s)
  <2>1. P = 1 .. Len(s)
    BY <1>1, <1>8 DEF P, Pushed, IsByte
  <2> QED
    BY <1>1, <2>1, Initial DEF k
<1> QED
  BY <1>3, <1>7, <1>8

\* emit_code takes cells apart.
LEMMA BytesOfType ==
  ASSUME NEW code \in Seq(Word)
  PROVE  BytesOf(code) \in Seq(Byte) /\ Len(BytesOf(code)) = 2 * Len(code)
<1> DEFINE k == 2 * Len(code)
           B(i) == LET w == code[(i + 1) \div 2]
                   IN  IF i % 2 = 1 THEN w % 256 ELSE w \div 256
<1>1. Len(code) \in Nat /\ k \in Nat
  OBVIOUS
<1>2. ASSUME NEW i \in 1 .. k PROVE B(i) \in Byte
  <2>1. (i + 1) \div 2 \in 1 .. Len(code)
    BY <1>1
  <2> DEFINE w == code[(i + 1) \div 2]
  <2>2. w \in Int /\ 0 <= w /\ w <= 65535
    BY <2>1, WordInt
  <2> HIDE DEF w
  <2>3. w % 256 \in Byte /\ w \div 256 \in Byte
    BY <2>2, ByteInt
  <2> QED
    BY <2>3 DEF w
<1>3. BytesOf(code) = [i \in 1 .. k |-> B(i)]
  BY DEF BytesOf
<1> HIDE DEF B, k
<1>4. BytesOf(code) \in Seq(Byte) /\ Len(BytesOf(code)) = k
  BY <1>1, <1>2, <1>3
<1> QED
  BY <1>4 DEF k

LEMMA BitOrWord == \A a, b : BitOr(a, b) \in Word
BY FromBitsWord DEF BitOr

\* The generators make cells, whatever the operands are.
LEMMA GeneratedType ==
  ASSUME NEW l \in Line, l.kind \in InstructionKinds, NEW at \in Word,
         NEW table, IsTable(table), NEW code \in Generated(l, at, table)
  PROVE  code \in Seq(Word)
<1>1. ASSUME NEW w \in Word PROVE <<w>> \in Seq(Word)
  BY <1>1
<1>2. CASE l.kind = "plain"
  <2>1. l.code \in Word
    BY <1>2 DEF Line
  <2>2. code = <<l.code>>
    BY <1>2 DEF Generated
  <2> QED
    BY <1>1, <2>1, <2>2
<1>3. CASE l.kind = "operands"
  BY <1>3 DEF Generated
<1>4. CASE l.kind = "stackop"
  <2> DEFINE w == BitOr(BitOr(l.code, 64 * l.source), 16 * l.target)
  <2>1. code = <<w>> /\ w \in Word
    BY <1>4, BitOrWord DEF Generated
  <2> HIDE DEF w
  <2> QED
    BY <1>1, <2>1
<1>5. CASE l.kind = "enter"
  <2>1. l.operand \in Operand
    BY <1>5 DEF Line
  <2>2. PICK a \in Target(l.operand, table) : code = <<16384 + (a \div 4)>>
    BY <1>5 DEF Generated
  <2>3. a \in Word
    BY <2>1, <2>2, ValuesInt DEF Target
  <2>4. a \in Int /\ 0 <= a /\ a <= 65535
    BY <2>3, WordInt
  <2>5. 16384 + (a \div 4) \in Word
    BY <2>4, WordInt
  <2> QED
    BY <1>1, <2>2, <2>5
<1>6. CASE l.kind = "bif"
  <2>1. l.operand \in Operand
    BY <1>6 DEF Line
  <2>2. PICK a \in Target(l.operand, table) :
          code = <<4096 + ((a - at) % 4096)>>
    BY <1>6 DEF Generated
  <2>3. a \in Word
    BY <2>1, <2>2, ValuesInt DEF Target
  <2>4. a - at \in Int
    BY <2>3, WordInt
  <2> DEFINE d == a - at
  <2> HIDE DEF d
  <2>5. 4096 + (d % 4096) \in Word
    BY <2>4, WordInt DEF d
  <2> QED
    BY <1>1, <2>2, <2>5 DEF d
<1>7. CASE l.kind = "ldx"
  <2>1. PICK v \in Values(l.operand, table) \cap 0 .. l.limit :
          code = <<l.code + v>>
    BY <1>7 DEF Generated
  <2>2. \/ l.limit = 1023 /\ l.code \in {49152 + 1024 * s : s \in 0 .. 3}
        \/ l.limit = 63 /\ l.code \in {53248 + 1024 * s : s \in 0 .. 3}
    BY <1>7 DEF Line
  <2>3. /\ l.code \in Int /\ 0 <= l.code /\ l.code <= 57000
        /\ v \in Int /\ 0 <= v /\ v <= 1023
    BY <2>1, <2>2
  <2>4. l.code + v \in Word
    BY <2>3, WordInt
  <2> QED
    BY <1>1, <2>1, <2>4
<1>8. CASE l.kind = "ld"
  <2>1. l.operand \in Operand /\ l.stack \in 0 .. 3
    BY <1>8 DEF Line
  <2>2. PICK v \in Values(l.operand, table) :
          code = <<49152 + 1024 * l.stack + (Wrap(v) % 1024),
                   53248 + 1024 * l.stack + (Wrap(v) \div 1024)>>
    BY <1>8 DEF Generated
  <2>3. Wrap(v) \in Word
    BY <2>1, ValuesInt, WrapWord
  <2> DEFINE n == Wrap(v)
             m == l.stack
  <2>4. n \in Int /\ 0 <= n /\ n <= 65535 /\ m \in Int /\ 0 <= m /\ m <= 3
    BY <2>1, <2>3, WordInt
  <2> HIDE DEF n, m
  <2>5. /\ 49152 + 1024 * m + (n % 1024) \in Word
        /\ 53248 + 1024 * m + (n \div 1024) \in Word
    BY <2>4, WordInt
  <2> QED
    BY <2>2, <2>5 DEF n, m
<1> QED
  BY <1>2, <1>3, <1>4, <1>5, <1>6, <1>7, <1>8 DEF InstructionKinds

-----------------------------------------------------------------------------
(* The hex writer.  Every line of the Assemble phase hands it the bytes of *)
(* its code, by which it moves the address.                                *)

LEMMA LineOperands ==
  ASSUME NEW l \in Line
  PROVE  /\ l.kind \in {"label", ".def"} => l.name \in Symbol
         /\ l.kind \in {".def", ".org"} => l.operand \in Operand
         /\ l.kind = ".str" => l.bytes \in Short(Byte)
         /\ l.kind = ".b" => l.operands \in Short(Operand)
         /\ l.kind = ".align" => l.to \in {2, 4}
BY DEF Line

\* The bytes that go with a line: all of them, none if it is a stub, or some
\* if there is an error.
Emitting ==
  /\ phase = "Assemble" /\ Idle /\ all_ok /\ line_no <= Len(source)
  /\ ThisLine.kind # ".org"
  /\ UNCHANGED <<source, phase, scanned, writer>>
  /\ pending' \in Seq(Byte) /\ flushing' \in BOOLEAN
  /\ \/ /\ all_ok' /\ line_no' = line_no + 1
        /\ ThisLine.kind \notin {".w", ".l"}
        /\ address' = Wrap(address + Len(pending'))
        /\ Len(pending') < FA_LINE_BUFFER_SIZE
     \/ all_ok' /\ ThisLine.kind \in {".w", ".l"} /\ pending' = <<>>
     \/ /\ all_ok' = FALSE /\ address' = address
        /\ Len(pending') <= IF ThisLine.kind = ".b" THEN Len(ThisLine.operands)
                                                    ELSE 0

LEMMA NothingEmitted ==
  ASSUME NEW a \in Word
  PROVE  /\ <<>> \in Seq(Byte) /\ Len(<<>>) = 0
         /\ Wrap(a + Len(<<>>)) = a
         /\ Len(<<>>) < FA_LINE_BUFFER_SIZE
BY WordInt DEF Wrap, FA_LINE_BUFFER_SIZE

LEMMA EmitShape ==
  ASSUME Typed, IsTable(symbols), AssembleStep, flushing \in BOOLEAN
  PROVE  Org \/ Emitting
<1> SUFFICES ASSUME ~Org PROVE Emitting
  OBVIOUS
<1>0. ThisLine.kind # ".org"
  BY DEF AssembleStep, CheckLabel, Generate, GenerateFails, SkipDef,
         EmitString, EmitBytes, EmitNothing, Align, InstructionKinds
<1>1. /\ ThisLine \in Line /\ address \in Word /\ address \in Int
      /\ phase = "Assemble" /\ Idle /\ all_ok /\ line_no <= Len(source)
      /\ pending = <<>> /\ flushing = FALSE
  <2>1. At("Assemble")
    BY DEF AssembleStep, CheckLabel, Generate, GenerateFails, SkipDef,
           EmitString, EmitBytes, EmitNothing, Align, Org
  <2> QED
    BY <2>1, WordInt DEF At, Idle, Typed, ThisLine
<1>2. ASSUME UNCHANGED <<pending, flushing, writer>>, Advance(address),
             ThisLine.kind \notin {".w", ".l"}
      PROVE  Emitting
  BY <1>0, <1>1, <1>2, NothingEmitted DEF Emitting, Advance
<1>3. ASSUME UNCHANGED <<pending, flushing, writer>>, Fail
      PROVE  Emitting
  <2>1. Len(pending') <= IF ThisLine.kind = ".b" THEN Len(ThisLine.operands)
                                                 ELSE 0
    <3>1. ThisLine.kind = ".b" => Len(ThisLine.operands) \in Nat
      BY <1>1, LineFields
    <3> QED
      BY <1>1, <1>3, <3>1, NothingEmitted
  <2>2. pending' \in Seq(Byte)
    BY <1>1, <1>3
  <2> QED
    BY <1>0, <1>1, <1>3, <2>1, <2>2 DEF Emitting, Fail
<1>4. ASSUME NEW s \in Seq(Byte), Len(s) < FA_LINE_BUFFER_SIZE,
             Emit(s, Wrap(address + Len(s))), UNCHANGED writer,
             flushing' \in BOOLEAN, ThisLine.kind \notin {".w", ".l"}
      PROVE  Emitting
  BY <1>0, <1>1, <1>4 DEF Emitting, Emit, Advance
<1>5. CASE CheckLabel
  BY <1>2, <1>3, <1>5 DEF CheckLabel, NoEmit
<1>6. CASE Generate
  <2>1. PICK code \in Generated(ThisLine, address, symbols) :
          /\ 2 * Len(code) = ByteCount(ThisLine)
          /\ Emit(BytesOf(code), Wrap(address + 2 * Len(code)))
    BY <1>6 DEF Generate
  <2>2. ThisLine.kind \in InstructionKinds /\ UNCHANGED <<flushing, writer>>
    BY <1>6 DEF Generate
  <2>3. code \in Seq(Word)
    BY <1>1, <2>2, GeneratedType
  <2>4. BytesOf(code) \in Seq(Byte) /\ Len(BytesOf(code)) = 2 * Len(code)
    BY <2>3, BytesOfType
  <2>5. Len(BytesOf(code)) < FA_LINE_BUFFER_SIZE
    BY <2>1, <2>4 DEF ByteCount, FA_LINE_BUFFER_SIZE
  <2> QED
    BY <1>1, <1>4, <2>1, <2>2, <2>4, <2>5 DEF InstructionKinds
<1>7. CASE GenerateFails
  BY <1>3, <1>7 DEF GenerateFails, NoEmit
<1>8. CASE SkipDef
  BY <1>2, <1>8 DEF SkipDef, NoEmit
<1>9. CASE EmitString
  <2>1. ThisLine.bytes \in Short(Byte) /\ ThisLine.kind = ".str"
    BY <1>1, <1>9, LineOperands DEF EmitString
  <2>2. /\ Emit(ThisLine.bytes, Wrap(address + Len(ThisLine.bytes)))
        /\ UNCHANGED <<flushing, writer>>
    BY <1>9, <2>1 DEF EmitString, Behind
  <2> QED
    BY <1>1, <1>4, <2>1, <2>2 DEF Short
<1>10. CASE EmitBytes
  <2> DEFINE s == ThisLine.operands
             b == PushedBytes(s, symbols)
  <2>1. s \in Short(Operand) /\ ThisLine.kind = ".b"
    BY <1>1, <1>10, LineOperands DEF EmitBytes
  <2>2. /\ b \in Seq(Byte)
        /\ Len(b) <= Len(s)
        /\ (\A i \in DOMAIN s : IsByte(s[i], symbols)) => Len(b) = Len(s)
    BY <2>1, PushedType DEF Short
  <2>3. \/ /\ \A i \in DOMAIN s : IsByte(s[i], symbols)
           /\ Emit(b, Wrap(address + Len(s)))
        \/ pending' = b /\ Fail
    BY <1>10, <2>1 DEF EmitBytes, Behind
  <2>4. UNCHANGED <<flushing, writer>>
    BY <1>10 DEF EmitBytes
  <2> HIDE DEF b
  <2>5. CASE pending' = b /\ Fail
    BY <1>0, <1>1, <2>1, <2>2, <2>4, <2>5 DEF Emitting, Fail
  <2>6. CASE /\ \A i \in DOMAIN s : IsByte(s[i], symbols)
             /\ Emit(b, Wrap(address + Len(s)))
    <3>1. Len(b) = Len(s) /\ Len(b) < FA_LINE_BUFFER_SIZE
      BY <2>1, <2>2, <2>6 DEF Short
    <3> QED
      BY <1>1, <1>4, <2>1, <2>2, <2>4, <2>6, <3>1
  <2> QED
    BY <2>3, <2>5, <2>6
<1>11. CASE EmitNothing
  BY <1>0, <1>1, <1>11 DEF EmitNothing, Behind, Emitting, NoEmit, Advance
<1>12. CASE Align
  <2> DEFINE d == Delta(address, ThisLine.to)
             b == [i \in 1 .. d |-> 170]
  <2>1. ThisLine.to \in {2, 4} /\ ThisLine.kind = ".align"
    BY <1>1, <1>12, LineOperands DEF Align
  <2>2. d \in 0 .. 3
    BY <1>1, <2>1 DEF Delta
  <2>3. /\ Emit(b, Wrap(address + d))
        /\ flushing' = TRUE /\ UNCHANGED writer
    BY <1>12, <2>1 DEF Align, Behind
  <2> HIDE DEF d
  <2>4. b \in Seq(Byte) /\ Len(b) = d
    BY <2>2, ByteInt
  <2>5. Len(b) < FA_LINE_BUFFER_SIZE
    BY <2>2, <2>4 DEF FA_LINE_BUFFER_SIZE
  <2> HIDE DEF b
  <2> QED
    BY <1>1, <1>4, <2>1, <2>3, <2>4, <2>5
<1> QED
  BY <1>5, <1>6, <1>7, <1>8, <1>9, <1>10, <1>11, <1>12 DEF AssembleStep

\* The other steps that leave the writer alone: lines of the Scan phase, lines
\* that are passed over, errors, and the end of a phase.
Still ==
  /\ UNCHANGED <<source, pending, flushing, writer>>
  /\ phase' = "Assemble" =>
       phase = "Assemble" /\ (all_ok' => all_ok /\ address' = address)
  /\ phase' = "Done" => ~all_ok'

LEMMA WriterShape ==
  ASSUME Typed, IsTable(symbols), Next, flushing \in BOOLEAN
  PROVE  PushByte \/ Flush \/ Org \/ Finish \/ Rewind \/ Emitting \/ Still
<1> USE DEF Still
<1>1. CASE Skip \/ Unterminated \/ Malformed
  BY <1>1 DEF Skip, Unterminated, Malformed, NoEmit, Advance, Fail, vars,
              parser, writer, At
<1>2. CASE ScanStep
  BY <1>2 DEF ScanStep, AddLabel, CountInstruction, ScanDirective, ScanDef,
              NoEmit, Advance, Fail, At
<1>3. CASE GiveUp
  BY <1>3 DEF GiveUp
<1>4. CASE AssembleStep
  BY <1>4, EmitShape
<1> QED
  BY <1>1, <1>2, <1>3, <1>4 DEF Next

TableTyped ==
  /\ source \in Sources
  /\ IsTable(symbols) /\ DOMAIN symbols \subseteq Symbol
  /\ number \in 0 .. FA_MAX_NUMBER_OF_SYMBOLS
  /\ all_ok \in BOOLEAN

WriterTyped ==
  /\ pending \in Seq(Byte)
  /\ flushing \in BOOLEAN
  /\ hex_address \in Word
  /\ hex_buffer \in Seq(Byte)
  /\ Len(hex_buffer) < HEX_MAX_BUFFER_SIZE
  /\ output \in Seq(Record)

LEMMA DefineTyped ==
  ASSUME TableTyped, NEW n \in Symbol, NEW value \in Word, Define(n, value)
  PROVE  /\ IsTable(symbols)' /\ DOMAIN symbols' \subseteq Symbol
         /\ number' \in 0 .. FA_MAX_NUMBER_OF_SYMBOLS
<1>1. number' \in 0 .. FA_MAX_NUMBER_OF_SYMBOLS
  BY LimitsAssumption DEF Define, TableTyped
<1>2. DOMAIN symbols' = DOMAIN symbols \cup {n}
  BY DEF Define
<1>3. ASSUME NEW m \in DOMAIN symbols' PROVE symbols'[m] \in Word
  BY <1>2, <1>3 DEF Define, TableTyped, IsTable
<1> QED
  BY <1>1, <1>2, <1>3 DEF TableTyped, IsTable

LEMMA TableStep == Typed /\ TableTyped /\ [Next]_vars => TableTyped'
<1> SUFFICES ASSUME Typed, TableTyped, [Next]_vars PROVE TableTyped'
  OBVIOUS
<1>1. source' = source /\ all_ok' \in BOOLEAN
  BY DEF Next, PushByte, Flush, Skip, Unterminated, Malformed, ScanStep,
         AddLabel, CountInstruction, ScanDirective, ScanDef, AssembleStep,
         CheckLabel, Generate, GenerateFails, SkipDef, EmitString, EmitBytes,
         EmitNothing, Align, Org, Rewind, Finish, GiveUp, Emit, Advance, Fail,
         parser, vars, TableTyped
<1>2. \/ UNCHANGED <<symbols, number>>
      \/ AddLabel /\ Define(ThisLine.name, address)
      \/ ScanDef /\ \E v \in Storable(ThisLine.operand, symbols) :
           Define(ThisLine.name, Wrap(v))
  BY DEF Next, PushByte, Flush, Skip, Unterminated, Malformed, ScanStep,
         AddLabel, CountInstruction, ScanDirective, ScanDef, AssembleStep,
         CheckLabel, Generate, GenerateFails, SkipDef, EmitString, EmitBytes,
         EmitNothing, Align, Org, Rewind, Finish, GiveUp, Emit,
         parser, vars
<1>3. At("Scan") => ThisLine \in Line
  BY DEF At, Typed, ThisLine
<1>4. CASE UNCHANGED <<symbols, number>>
  BY <1>1, <1>4 DEF TableTyped, IsTable
<1>5. CASE AddLabel /\ Define(ThisLine.name, address)
  <2>1. ThisLine.name \in Symbol
    BY <1>3, <1>5, LineOperands DEF AddLabel
  <2> QED
    BY <1>1, <1>5, <2>1, DefineTyped DEF Typed, TableTyped
<1>6. CASE ScanDef /\ \E v \in Storable(ThisLine.operand, symbols) :
             Define(ThisLine.name, Wrap(v))
  <2>1. PICK v \in Storable(ThisLine.operand, symbols) :
          Define(ThisLine.name, Wrap(v))
    BY <1>6
  <2>2. ThisLine.name \in Symbol /\ ThisLine.operand \in Operand
    BY <1>3, <1>6, LineOperands DEF ScanDef
  <2>3. Wrap(v) \in Word
    BY <2>1, <2>2, ValuesInt, WrapWord DEF Storable, TableTyped
  <2> QED
    BY <1>1, <2>1, <2>2, <2>3, DefineTyped DEF TableTyped
<1> QED
  BY <1>2, <1>4, <1>5, <1>6

LEMMA DataRecord ==
  ASSUME WriterTyped, NEW bytes \in Seq(Byte)
  PROVE  [Data EXCEPT !.bytes = bytes] \in Record /\ Data \in Record
BY DEF WriterTyped, Data, Record

LEMMA FlushedTyped == WriterTyped => Flushed \in Seq(Record)
<1> SUFFICES ASSUME WriterTyped PROVE Flushed \in Seq(Record)
  OBVIOUS
<1>1. Data \in Record
  <2>1. hex_buffer \in Seq(Byte)
    BY DEF WriterTyped
  <2> QED
    BY <2>1, DataRecord
<1> QED
  BY <1>1 DEF WriterTyped, Flushed

LEMMA WriterStep ==
  Typed /\ TableTyped /\ WriterTyped /\ [Next]_vars => WriterTyped'
<1> SUFFICES ASSUME Typed, TableTyped, WriterTyped, [Next]_vars
             PROVE  WriterTyped'
  OBVIOUS
<1>1. /\ hex_address \in Int /\ Len(hex_buffer) \in Nat
      /\ HEX_MAX_BUFFER_SIZE \in Int /\ 0 < HEX_MAX_BUFFER_SIZE
  BY LimitsAssumption, WordInt DEF WriterTyped
<1>2. <<>> \in Seq(Byte) /\ Len(<<>>) = 0
  OBVIOUS
<1>3. CASE PushByte
  <2>1. Head(pending) \in Byte /\ Tail(pending) \in Seq(Byte)
    BY <1>3 DEF PushByte, WriterTyped
  <2>2. /\ Append(hex_buffer, Head(pending)) \in Seq(Byte)
        /\ Len(Append(hex_buffer, Head(pending))) = Len(hex_buffer) + 1
    BY <2>1 DEF WriterTyped
  <2>3. pending' \in Seq(Byte) /\ flushing' \in BOOLEAN
    BY <1>3, <2>1 DEF PushByte, WriterTyped
  <2>4. CASE Len(hex_buffer) + 1 = HEX_MAX_BUFFER_SIZE
    <3> DEFINE r == [Data EXCEPT !.bytes = Append(@, Head(pending))]
    <3>1. r = [Data EXCEPT !.bytes = Append(hex_buffer, Head(pending))]
      BY DEF Data
    <3>2. r \in Record
      BY <2>2, <3>1, DataRecord
    <3>3. output' = Append(output, r)
      BY <1>3, <2>4 DEF PushByte
    <3> HIDE DEF r
    <3>4. output' \in Seq(Record)
      BY <3>2, <3>3 DEF WriterTyped
    <3>5. hex_address' \in Word
      BY <1>1, <1>3, <2>4, WrapWord DEF PushByte
    <3>6. hex_buffer' = <<>>
      BY <1>3, <2>4 DEF PushByte
    <3> QED
      BY <1>1, <1>2, <2>3, <3>4, <3>5, <3>6 DEF WriterTyped
  <2>5. CASE Len(hex_buffer) + 1 # HEX_MAX_BUFFER_SIZE
    <3>1. /\ hex_buffer' = Append(hex_buffer, Head(pending))
          /\ hex_address' = hex_address /\ output' = output
      BY <1>3, <2>5 DEF PushByte
    <3>2. Len(hex_buffer') < HEX_MAX_BUFFER_SIZE
      BY <1>1, <2>2, <2>5, <3>1 DEF WriterTyped
    <3> QED
      BY <2>2, <2>3, <3>1, <3>2 DEF WriterTyped
  <2> QED
    BY <2>4, <2>5
<1>4. CASE Flush
  <2>1. hex_address' \in Word
    BY <1>1, <1>4, WrapWord DEF Flush
  <2> QED
    BY <1>1, <1>2, <1>4, <2>1, FlushedTyped DEF Flush, WriterTyped
<1>5. CASE Org
  <2>1. UNCHANGED <<pending, flushing>>
    BY <1>5 DEF Org
  <2>2. CASE UNCHANGED writer
    BY <2>1, <2>2 DEF writer, WriterTyped
  <2>3. CASE \E a \in Behind(ThisLine, address, symbols) :
               output' = Flushed /\ hex_address' = a /\ hex_buffer' = <<>>
    <3>1. hex_address' \in Word
      BY <1>5, <2>3 DEF Org, Behind
    <3> QED
      BY <1>1, <1>2, <2>1, <2>3, <3>1, FlushedTyped DEF WriterTyped
  <2> QED
    BY <1>5, <2>2, <2>3 DEF Org
<1>6. CASE Finish
  <2>1. hex_address' \in Word
    BY <1>1, <1>6, WrapWord DEF Finish
  <2>2. [type |-> "eof"] \in Record
    BY DEF Record
  <2>3. output' \in Seq(Record)
    BY <1>6, <2>2, FlushedTyped DEF Finish
  <2> QED
    BY <1>1, <1>2, <1>6, <2>1, <2>3 DEF Finish, WriterTyped
<1>7. CASE Rewind
  <2>1. 0 \in Word
    BY WordInt
  <2> QED
    BY <1>1, <1>2, <1>7, <2>1 DEF Rewind, WriterTyped
<1>8. CASE Emitting
  BY <1>8 DEF Emitting, writer, WriterTyped
<1>9. CASE Still \/ UNCHANGED vars
  BY <1>9 DEF Still, vars, writer, WriterTyped
<1> QED
  BY <1>3, <1>4, <1>5, <1>6, <1>7, <1>8, <1>9, WriterShape
  DEF TableTyped, WriterTyped

LEMMA AlwaysTyped == Spec => [](Typed /\ TableTyped /\ WriterTyped)
<1>1. Init => TableTyped /\ WriterTyped
  <2> SUFFICES ASSUME Init PROVE TableTyped /\ WriterTyped
    OBVIOUS
  <2>1. 0 \in Word
    BY WordInt
  <2>2. TableTyped
    <3>1. DOMAIN symbols = {} /\ number = 0
      BY DEF Init
    <3>2. source \in Sources /\ all_ok \in BOOLEAN
      BY DEF Init
    <3>3. IsTable(symbols) /\ DOMAIN symbols \subseteq Symbol
      BY <3>1 DEF IsTable
    <3>4. number \in 0 .. FA_MAX_NUMBER_OF_SYMBOLS
      BY <3>1, LimitsAssumption
    <3> QED
      BY <3>2, <3>3, <3>4 DEF TableTyped
  <2>3. WriterTyped
    <3>1. /\ <<>> \in Seq(Byte) /\ <<>> \in Seq(Record) /\ Len(<<>>) = 0
          /\ 0 < HEX_MAX_BUFFER_SIZE
      BY LimitsAssumption
    <3> QED
      BY <2>1, <3>1 DEF Init, WriterTyped
  <2> QED
    BY <2>2, <2>3
<1>2. IInv => Typed
  BY DEF IInv
<1>3. Typed /\ TableTyped /\ WriterTyped /\ [Next]_vars
        => TableTyped' /\ WriterTyped'
  BY TableStep, WriterStep
<1> QED
  BY <1>1, <1>2, <1>3, AlwaysIInv, PTL DEF Spec

\* The assembler's state keeps its type: what .def stores is a cell although
\* it may be negative (fa.c:1743), .b pushes bytes, the code of an instruction
\* is a cell and the record buffer is never left full.
THEOREM TypeCorrect == Spec => []TypeOK
<1>1. Typed /\ TableTyped /\ WriterTyped => TypeOK
  BY DEF Typed, TableTyped, WriterTyped, TypeOK, IsTable
<1> QED
  BY <1>1, AlwaysTyped, PTL

-----------------------------------------------------------------------------
(* The writer and the address go side by side.                             *)

NoStubs == \A i \in 1 .. Len(source) : source[i].kind \notin {".w", ".l"}

LEMMA WrapAdds ==
  ASSUME NEW m \in Int, NEW n \in Int
  PROVE  Wrap(Wrap(m) + n) = Wrap(m + n)
<1>1. m = 65536 * (m \div 65536) + (m % 65536)
  OBVIOUS
<1> DEFINE q == m \div 65536
           r == m % 65536
<1>2. q \in Int /\ r \in Int /\ m = 65536 * q + r
  BY <1>1
<1> HIDE DEF q, r
<1>3. (65536 * q + r + n) % 65536 = (r + n) % 65536
  BY <1>2
<1> QED
  BY <1>2, <1>3 DEF Wrap, r

LEMMA InStepHolds ==
  ASSUME Typed, TableTyped, WriterTyped, WriterInStep, [Next]_vars
  PROVE  WriterInStep'
<1> DEFINE here == hex_address + Len(hex_buffer)
<1>1. /\ hex_address \in Int /\ Len(hex_buffer) \in Nat /\ here \in Int
      /\ Len(pending) \in Nat /\ HEX_MAX_BUFFER_SIZE \in Int
      /\ address \in Int /\ Len(<<>>) = 0
  BY LimitsAssumption, WordInt DEF Typed, WriterTyped
<1>2. source' = source
  BY DEF Next, PushByte, Flush, Skip, Unterminated, Malformed, ScanStep,
         AddLabel, CountInstruction, ScanDirective, ScanDef, AssembleStep,
         CheckLabel, Generate, GenerateFails, SkipDef, EmitString, EmitBytes,
         EmitNothing, Align, Org, Rewind, Finish, GiveUp, Emit, Advance, Fail,
         parser, vars
<1> SUFFICES ASSUME phase' = "Assemble", all_ok', NoStubs
             PROVE  Wrap(hex_address' + Len(hex_buffer') + Len(pending'))
                      = address'
  BY <1>2 DEF WriterInStep, NoStubs
<1>3. phase = "Assemble" /\ all_ok => Wrap(here + Len(pending)) = address
  BY DEF WriterInStep, NoStubs
<1>4. CASE PushByte
  <2>1. /\ phase = "Assemble" /\ all_ok /\ address' = address
        /\ pending # <<>> /\ pending' = Tail(pending)
    BY <1>4 DEF PushByte, parser
  <2>2. Len(pending') \in Int /\ Len(pending) = Len(pending') + 1
    BY <2>1 DEF WriterTyped
  <2> DEFINE p == Len(pending')
  <2>3. Wrap(here + (p + 1)) = address
    BY <1>3, <2>1, <2>2
  <2>4. p \in Int
    BY <2>2
  <2> HIDE DEF p
  <2>5. CASE Len(hex_buffer) + 1 = HEX_MAX_BUFFER_SIZE
    <3>1. /\ hex_address' = Wrap(hex_address + HEX_MAX_BUFFER_SIZE)
          /\ hex_buffer' = <<>>
      BY <1>4, <2>5 DEF PushByte
    <3>2. Wrap(hex_address') = hex_address'
      BY <1>1, <3>1, WrapWord, WordInt DEF Wrap
    <3>3. Wrap(Wrap(here + 1) + p) = Wrap(here + 1 + p)
      BY <1>1, <2>4, WrapAdds
    <3>4. hex_address' = Wrap(here + 1)
      BY <1>1, <2>5, <3>1
    <3>5. hex_address' \in Int
      BY <1>1, <3>4, WrapWord, WordInt
    <3>6. hex_address' + Len(hex_buffer') + p = hex_address' + p
      BY <1>1, <2>4, <3>1, <3>5
    <3>7. here + 1 + p = here + (p + 1)
      BY <1>1, <2>4
    <3> QED
      BY <2>1, <2>3, <3>3, <3>4, <3>6, <3>7 DEF p
  <2>6. CASE Len(hex_buffer) + 1 # HEX_MAX_BUFFER_SIZE
    <3>1. /\ hex_buffer' = Append(hex_buffer, Head(pending))
          /\ hex_address' = hex_address
      BY <1>4, <2>6 DEF PushByte
    <3>2. Len(hex_buffer') = Len(hex_buffer) + 1
      BY <3>1 DEF WriterTyped
    <3>3. hex_address' + Len(hex_buffer') + p = here + (p + 1)
      BY <1>1, <2>4, <3>1, <3>2
    <3> QED
      BY <2>1, <2>3, <3>3 DEF p
  <2> QED
    BY <2>5, <2>6
<1>5. CASE Flush
  <2>1. /\ phase = "Assemble" /\ all_ok /\ address' = address
        /\ pending = <<>> /\ pending' = <<>> /\ hex_buffer' = <<>>
        /\ hex_address' = Wrap(here)
    BY <1>5 DEF Flush, parser
  <2>2. Wrap(here + 0) = address /\ here + 0 = here
    BY <1>1, <1>3, <2>1
  <2>3. Wrap(Wrap(here) + 0) = Wrap(here + 0)
    BY <1>1, WrapAdds
  <2>4. hex_address' + Len(hex_buffer') + Len(pending') = Wrap(here) + 0
    BY <1>1, <2>1, WrapWord, WordInt
  <2> QED
    BY <2>1, <2>2, <2>3, <2>4
<1>6. CASE Org
  <2>1. PICK a \in Behind(ThisLine, address, symbols) :
          Advance(a) /\ hex_address' = a /\ hex_buffer' = <<>>
    BY <1>6 DEF Org, Fail
  <2>2. a \in Word /\ address' = a /\ pending' = <<>>
    BY <1>6, <2>1 DEF Org, Behind, At, Idle, Advance
  <2>3. a \in Int /\ Wrap(a) = a
    BY <2>2, WordInt DEF Wrap
  <2> QED
    BY <1>1, <2>1, <2>2, <2>3
<1>7. CASE Finish
  BY <1>7 DEF Finish
<1>8. CASE Rewind
  BY <1>1, <1>8 DEF Rewind, Idle, Wrap
<1>9. CASE Emitting
  <2>1. /\ phase = "Assemble" /\ all_ok /\ pending = <<>>
        /\ hex_address' = hex_address /\ hex_buffer' = hex_buffer
    BY <1>9 DEF Emitting, Idle, writer
  <2>2. ThisLine.kind \notin {".w", ".l"}
    BY <1>9 DEF Emitting, NoStubs, ThisLine, Typed
  <2>3. address' = Wrap(address + Len(pending')) /\ Len(pending') \in Nat
    BY <1>9, <2>2 DEF Emitting
  <2> DEFINE p == Len(pending')
  <2>4. p \in Int
    BY <2>3
  <2> HIDE DEF p
  <2>5. Wrap(here) = address
    BY <1>1, <1>3, <2>1
  <2>6. Wrap(Wrap(here) + p) = Wrap(here + p)
    BY <1>1, <2>4, WrapAdds
  <2> QED
    BY <2>1, <2>3, <2>5, <2>6 DEF p
<1>10. CASE Still
  BY <1>3, <1>10 DEF Still, writer
<1>11. CASE UNCHANGED vars
  BY <1>3, <1>11 DEF vars, parser, writer
<1> QED
  BY <1>4, <1>5, <1>6, <1>7, <1>8, <1>9, <1>10, <1>11, WriterShape
  DEF TableTyped, WriterTyped

\* The byte that is pushed next goes where a label in its place would point:
\* the hex writer (fa.c:345) keeps an address of its own, across full records,
\* .align and .org, and it never gets out of step with assemble's.
THEOREM WriterKeepsStep == Spec => []WriterInStep
<1>1. Init => WriterInStep
  BY DEF Init, WriterInStep
<1>2. Typed /\ TableTyped /\ WriterTyped /\ WriterInStep /\ [Next]_vars
        => WriterInStep'
  BY InStepHolds
<1> QED
  BY <1>1, <1>2, AlwaysTyped, PTL DEF Spec
=============================================================================
