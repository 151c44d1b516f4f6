-------------------------------- MODULE FAsm --------------------------------
(***************************************************************************)
(* The two-phase assembler FAsm/src/fa.c.  assemble() reads the source     *)
(* twice: the Scan phase adds up sizes and fills the symbol table, the     *)
(* Assemble phase generates code with it and writes records in hex format. *)
(* Nothing but the symbol table is handed from one phase to the next, so   *)
(* that the output is right only if both count addresses alike.            *)
(*                                                                         *)
(* A source line is a record of what the parsers make of it; how it is     *)
(* spelled, and the listing, are left out.  Bytes are pushed to the hex    *)
(* writer one at a time: a line that emits code leaves them in pending.    *)
(***************************************************************************)
EXTENDS Words, FiniteSets

CONSTANTS
  Symbol,                     \* names of labels and of .def symbols
  Sources,                    \* the source files to assemble
  FA_MAX_NUMBER_OF_SYMBOLS,   \* size of the symbol table
  HEX_MAX_BUFFER_SIZE         \* bytes in a full record

\* An operand read_number is given: a literal, a symbol or neither.
Operand == [tag : {"number"}, value : Int]
             \cup [tag : {"symbol"}, name : Symbol]
             \cup [tag : {"malformed"}]

\* get_stack_id: the ids of D, C, R and T, and the one of any other letter.
eSID_Unknown == 15
AsmStackID == 0 .. 3 \cup {eSID_Unknown}

\* A line comes in a buffer of this size, which bounds what it can emit.
FA_LINE_BUFFER_SIZE == 1024
Short(S) == {s \in Seq(S) : Len(s) < FA_LINE_BUFFER_SIZE}

Line ==
  \* an empty line or a remark; an instruction with a word too many or too
  \* long; a string or character constant that is not closed; an unknown
  \* instruction or directive, a directive without its argument or a label
  \* that is too long
       [kind : {"empty", "overlong", "unterminated", "malformed"}]
  \cup [kind : {"label"}, name : Symbol]
  \* an instruction of two bytes with its code, or with wrong operands
  \cup [kind : {"plain"}, code : Word]
  \cup [kind : {"operands"}]
  \* drop, dup, swap or mov, with one or two stack ids
  \cup [kind : {"stackop"}, code : Word, source : AsmStackID,
        target : AsmStackID]
  \cup [kind : {"enter", "bif"}, operand : Operand]
  \* ldl and ldh (with their limits), and the macro ld of four bytes
  \cup [kind : {"ldx"}, code : {49152 + 1024 * s : s \in 0 .. 3},
        limit : {1023}, operand : Operand]
  \cup [kind : {"ldx"}, code : {53248 + 1024 * s : s \in 0 .. 3},
        limit : {63}, operand : Operand]
  \cup [kind : {"ld"}, stack : 0 .. 3, operand : Operand]
  \cup [kind : {".str"}, bytes : Short(Byte)]
  \cup [kind : {".b"}, operands : Short(Operand)]
  \cup [kind : {".w", ".l"}]
  \cup [kind : {".align"}, to : {2, 4}]
  \cup [kind : {".org"}, operand : Operand]
  \cup [kind : {".def"}, name : Symbol, operand : Operand]

ASSUME SourcesAssumption == Sources \subseteq Seq(Line)

ASSUME LimitsAssumption ==
  /\ FA_MAX_NUMBER_OF_SYMBOLS \in Nat
  /\ HEX_MAX_BUFFER_SIZE \in 1 .. 255

VARIABLES
  source,       \* the source file
  phase,        \* "Scan", "Assemble" or "Done"
  line_no,      \* the line being read
  address,      \* the current assembly address
  symbols,      \* the symbol table as find_symbol sees it
  number,       \* the number of its entries, duplicates included
  all_ok,       \* has there been no error?
  pending,      \* bytes of the current line still to be pushed
  flushing,     \* is the writer to be flushed behind them?
  hex_address,  \* where the byte at the start of hex_buffer goes
  hex_buffer,   \* the bytes of the record being collected
  output,       \* the records written
  scanned       \* history: the address of each line in the Scan phase

parser == <<source, phase, line_no, address, symbols, number, all_ok, scanned>>
writer == <<hex_address, hex_buffer, output>>
vars   == <<parser, writer, pending, flushing>>

Record == [type : {"data"}, address : Word, bytes : Seq(Byte)]
            \cup [type : {"eof"}]

TypeOK ==
  /\ source \in Sources
  /\ phase \in {"Scan", "Assemble", "Done"}
  /\ line_no \in 1 .. Len(source) + 1
  /\ address \in Word
  /\ DOMAIN symbols \subseteq Symbol
  /\ \A n \in DOMAIN symbols : symbols[n] \in Word
  /\ number \in 0 .. FA_MAX_NUMBER_OF_SYMBOLS
  /\ all_ok \in BOOLEAN
  /\ pending \in Seq(Byte)
  /\ flushing \in BOOLEAN
  /\ hex_address \in Word
  /\ hex_buffer \in Seq(Byte)
  /\ Len(hex_buffer) < HEX_MAX_BUFFER_SIZE
  /\ output \in Seq(Record)
  /\ scanned \in Seq(Word)

-----------------------------------------------------------------------------
(* Reading operands.                                                       *)

\* Mutant of Define: the last definition of a name counts.
DefineLast(n, value) ==
  /\ number < FA_MAX_NUMBER_OF_SYMBOLS
  /\ number' = number + 1
  /\ symbols' = [m \in DOMAIN symbols \cup {n} |->
                   IF m = n THEN value ELSE symbols[m]]

\* find_symbol returns the first entry of a name: one that is added behind it
\* takes a place in the table and is never found.
Define(n, value) ==
  /\ number < FA_MAX_NUMBER_OF_SYMBOLS
  /\ number' = number + 1
  /\ symbols' = [m \in DOMAIN symbols \cup {n} |->
                   IF m \in DOMAIN symbols THEN symbols[m] ELSE value]

\* read_number: the value of an operand under a symbol table, or nothing.
Values(operand, table) ==
  CASE operand.tag = "number" -> {operand.value}
    [] operand.tag = "symbol" ->
         {table[n] : n \in {operand.name} \cap DOMAIN table}
    [] OTHER -> {}

-----------------------------------------------------------------------------
(* What a line does to the address.  Both phases go through the same       *)
(* function for directives; for instructions the Scan phase goes by the    *)
(* byte count of the table instruction_generators.                         *)

InstructionKinds ==
  {"plain", "operands", "stackop", "enter", "bif", "ldx", "ld"}

ByteCount(l) == IF l.kind = "ld" THEN 4 ELSE 2

Delta(a, to) == (to - (a % to)) % to

\* The address behind a directive at address a, unless it is in error.
Behind(l, a, table) ==
  CASE l.kind = ".str"        -> {Wrap(a + Len(l.bytes))}
    [] l.kind = ".b"          -> {Wrap(a + Len(l.operands))}
    [] l.kind \in {".w", ".l"} -> {0}
    [] l.kind = ".align"      -> {Wrap(a + Delta(a, l.to))}
    [] l.kind = ".org"        -> Values(l.operand, table) \cap Word
    [] l.kind = ".def"        -> {a}

-----------------------------------------------------------------------------
(* The generators: the code of an instruction, or nothing in case of an    *)
(* error.  A stack operation holds its ids against 7, which get_stack_id   *)
(* never returns: an unknown id is put over function and target.           *)

\* enter and bif look their operand up in the symbol table, whatever it is.
Target(operand, table) ==
  IF operand.tag = "symbol" THEN Values(operand, table) ELSE {}

Generated(l, at, table) ==
  CASE l.kind = "plain" -> {<<l.code>>}
    [] l.kind = "operands" -> {}
    [] l.kind = "stackop" ->
         {<<BitOr(BitOr(l.code, 64 * l.source), 16 * l.target)>>}
    [] l.kind = "enter" ->
         {<<16384 + (a \div 4)>> :
            a \in {b \in Target(l.operand, table) : b % 4 = 0}}
    [] l.kind = "bif" ->
         {<<4096 + ((a - at) % 4096)>> : a \in Target(l.operand, table)}
    [] l.kind = "ldx" ->
         {<<l.code + v>> : v \in Values(l.operand, table) \cap 0 .. l.limit}
    [] l.kind = "ld" ->
         {<<49152 + 1024 * l.stack + (Wrap(v) % 1024),
            53248 + 1024 * l.stack + (Wrap(v) \div 1024)>> :
            v \in Values(l.operand, table)}

\* emit_code: the low byte first.
BytesOf(code) ==
  [i \in 1 .. 2 * Len(code) |->
     LET w == code[(i + 1) \div 2]
     IN  IF i % 2 = 1 THEN w % 256 ELSE w \div 256]

\* .b: an operand too big for a byte ends the line; one that cannot be read
\* emits nothing, and the line goes on.
FitsByte(operand, table) == Values(operand, table) \subseteq -128 .. 255
IsByte(operand, table)   ==
  Values(operand, table) # {} /\ FitsByte(operand, table)

\* The operands that are pushed, by their places,
Pushed(operands, table) ==
  {i \in DOMAIN operands : /\ IsByte(operands[i], table)
                           /\ \A j \in 1 .. i : FitsByte(operands[j], table)}

\* and the n-th of them.
Place(n, places) ==
  CHOOSE i \in places : Cardinality({j \in places : j <= i}) = n

PushedBytes(operands, table) ==
  LET places == Pushed(operands, table)
  IN  [n \in 1 .. Cardinality(places) |->
         (CHOOSE v \in Values(operands[Place(n, places)], table) : TRUE) % 256]

-----------------------------------------------------------------------------
(* The hex writer.                                                         *)

Data == [type |-> "data", address |-> hex_address, bytes |-> hex_buffer]

\* hex_push_byte, for the next pending byte: a full buffer is written.
PushByte ==
  /\ pending # <<>>
  /\ pending' = Tail(pending)
  /\ IF Len(hex_buffer) + 1 = HEX_MAX_BUFFER_SIZE
       THEN /\ output' = Append(output,
                           [Data EXCEPT !.bytes = Append(@, Head(pending))])
            /\ hex_address' = Wrap(hex_address + HEX_MAX_BUFFER_SIZE)
            /\ hex_buffer' = <<>>
       ELSE /\ hex_buffer' = Append(hex_buffer, Head(pending))
            /\ UNCHANGED <<hex_address, output>>
  /\ UNCHANGED <<parser, flushing>>

\* The records once hex_flush is through.
Flushed == IF hex_buffer = <<>> THEN output ELSE Append(output, Data)

\* Mutant of Flush: the next record starts where the last one did.
FlushInPlace ==
  /\ pending = <<>>
  /\ flushing
  /\ output' = Flushed
  /\ hex_buffer' = <<>>
  /\ flushing' = FALSE
  /\ UNCHANGED <<parser, pending, hex_address>>

\* hex_flush behind .align.
Flush ==
  /\ pending = <<>>
  /\ flushing
  /\ output' = Flushed
  /\ hex_address' = Wrap(hex_address + Len(hex_buffer))
  /\ hex_buffer' = <<>>
  /\ flushing' = FALSE
  /\ UNCHANGED <<parser, pending>>

-----------------------------------------------------------------------------
(* One turn of the loop over the lines.                                    *)

Idle == pending = <<>> /\ ~flushing

\* A line is handled once the bytes of the line before have been pushed.
At(p) == Idle /\ all_ok /\ phase = p /\ line_no <= Len(source)
ThisLine == source[line_no]

\* Go on with the next line, at address a.
Advance(a) ==
  /\ line_no' = line_no + 1
  /\ address' = a
  /\ scanned' = IF phase = "Scan" THEN Append(scanned, a) ELSE scanned
  /\ UNCHANGED <<source, phase, all_ok>>

\* An error: the loop is left, and address is not used any more.
Fail ==
  /\ all_ok' = FALSE
  /\ UNCHANGED <<source, phase, line_no, address, scanned>>

\* Emit bytes, and the next line.
Emit(bytes, a) ==
  pending' = bytes /\ Advance(a) /\ UNCHANGED <<symbols, number>>
NoEmit == UNCHANGED <<pending, flushing, writer>>

\* Mutant of Skip: the next line is not fetched.
SkipStays ==
  /\ At("Scan") \/ At("Assemble")
  /\ ThisLine.kind \in {"empty", "overlong"}
  /\ UNCHANGED vars

\* Lines that are passed over.  An overlong instruction is among them: the
\* result of parse_line_into_words has an empty else branch.
Skip ==
  /\ At("Scan") \/ At("Assemble")
  /\ ThisLine.kind \in {"empty", "overlong"}
  /\ Advance(address)
  /\ NoEmit /\ UNCHANGED <<symbols, number>>

\* strip_line fails: the branch is empty, no line is fetched, and the loop
\* finds the same line again.
Unterminated ==
  /\ At("Scan") \/ At("Assemble")
  /\ ThisLine.kind = "unterminated"
  /\ UNCHANGED vars

Malformed ==
  /\ At("Scan") \/ At("Assemble")
  /\ ThisLine.kind = "malformed"
  /\ Fail /\ NoEmit /\ UNCHANGED <<symbols, number>>

\* add_label, and check_label in the second phase.
AddLabel ==
  /\ At("Scan")
  /\ ThisLine.kind = "label"
  /\ \/ Define(ThisLine.name, address) /\ Advance(address)
     \/ /\ number = FA_MAX_NUMBER_OF_SYMBOLS
        /\ Fail /\ UNCHANGED <<symbols, number>>
  /\ NoEmit

\* Mutant of LabelAgrees: the address is not compared.
LabelKnown(l) == l.name \in DOMAIN symbols

LabelAgrees(l) == l.name \in DOMAIN symbols /\ symbols[l.name] = address

CheckLabel ==
  /\ At("Assemble")
  /\ ThisLine.kind = "label"
  /\ IF LabelAgrees(ThisLine) THEN Advance(address) ELSE Fail
  /\ NoEmit /\ UNCHANGED <<symbols, number>>

\* parse_instruction: the byte count in the Scan phase.
CountInstruction ==
  /\ At("Scan")
  /\ ThisLine.kind \in InstructionKinds
  /\ Advance(Wrap(address + ByteCount(ThisLine)))
  /\ NoEmit /\ UNCHANGED <<symbols, number>>

\* parse_instruction: the generator in the Assemble phase, whose result has
\* to agree with the byte count (an "internal error" otherwise).
Generate ==
  /\ At("Assemble")
  /\ ThisLine.kind \in InstructionKinds
  /\ \E code \in Generated(ThisLine, address, symbols) :
       /\ 2 * Len(code) = ByteCount(ThisLine)
       /\ Emit(BytesOf(code), Wrap(address + 2 * Len(code)))
  /\ UNCHANGED <<flushing, writer>>

GenerateFails ==
  /\ At("Assemble")
  /\ ThisLine.kind \in InstructionKinds
  /\ ~\E code \in Generated(ThisLine, address, symbols) :
         2 * Len(code) = ByteCount(ThisLine)
  /\ Fail /\ NoEmit /\ UNCHANGED <<symbols, number>>

\* Directives in the Scan phase.
ScanDirective ==
  /\ At("Scan")
  /\ ThisLine.kind \in {".str", ".b", ".w", ".l", ".align", ".org"}
  /\ \/ \E a \in Behind(ThisLine, address, symbols) : Advance(a)
     \/ Behind(ThisLine, address, symbols) = {} /\ Fail
  /\ NoEmit /\ UNCHANGED <<symbols, number>>

\* .def takes what fits a signed or an unsigned cell.
Storable(operand, table) ==
  {v \in Values(operand, table) : -32768 <= v /\ v <= 65535}

\* Mutant of ScanDef: a negative value is not stored as a uint16_t.
ScanDefSigned ==
  /\ At("Scan")
  /\ ThisLine.kind = ".def"
  /\ \/ \E v \in Storable(ThisLine.operand, symbols) :
          Define(ThisLine.name, v) /\ Advance(address)
     \/ /\ \/ Storable(ThisLine.operand, symbols) = {}
           \/ number = FA_MAX_NUMBER_OF_SYMBOLS
        /\ Fail /\ UNCHANGED <<symbols, number>>
  /\ NoEmit

\* .def counts in the Scan phase only.
ScanDef ==
  /\ At("Scan")
  /\ ThisLine.kind = ".def"
  /\ \/ \E v \in Storable(ThisLine.operand, symbols) :
          Define(ThisLine.name, Wrap(v)) /\ Advance(address)
     \/ /\ \/ Storable(ThisLine.operand, symbols) = {}
           \/ number = FA_MAX_NUMBER_OF_SYMBOLS
        /\ Fail /\ UNCHANGED <<symbols, number>>
  /\ NoEmit

SkipDef ==
  /\ At("Assemble")
  /\ ThisLine.kind = ".def"
  /\ Advance(address)
  /\ NoEmit /\ UNCHANGED <<symbols, number>>

\* Directives in the Assemble phase.
EmitString ==
  /\ At("Assemble")
  /\ ThisLine.kind = ".str"
  /\ \E a \in Behind(ThisLine, address, symbols) : Emit(ThisLine.bytes, a)
  /\ UNCHANGED <<flushing, writer>>

EmitBytes ==
  /\ At("Assemble")
  /\ ThisLine.kind = ".b"
  /\ LET operands == ThisLine.operands
     IN  IF \A i \in DOMAIN operands : IsByte(operands[i], symbols)
           THEN \E a \in Behind(ThisLine, address, symbols) :
                  Emit(PushedBytes(operands, symbols), a)
           ELSE /\ pending' = PushedBytes(operands, symbols)
                /\ Fail /\ UNCHANGED <<symbols, number>>
  /\ UNCHANGED <<flushing, writer>>

\* .w and .l are stubs that return 0 and emit nothing.
EmitNothing ==
  /\ At("Assemble")
  /\ ThisLine.kind \in {".w", ".l"}
  /\ \E a \in Behind(ThisLine, address, symbols) : Advance(a)
  /\ NoEmit /\ UNCHANGED <<symbols, number>>

Align ==
  /\ At("Assemble")
  /\ ThisLine.kind = ".align"
  /\ \E a \in Behind(ThisLine, address, symbols) :
       Emit([i \in 1 .. Delta(address, ThisLine.to) |-> 170], a)
  /\ flushing' = TRUE
  /\ UNCHANGED writer

\* Mutant of Org: the buffer is not flushed.
OrgDropsBuffer ==
  /\ At("Assemble")
  /\ ThisLine.kind = ".org"
  /\ \/ \E a \in Behind(ThisLine, address, symbols) :
          /\ Advance(a)
          /\ hex_address' = a
          /\ hex_buffer' = <<>>
          /\ UNCHANGED output
     \/ Behind(ThisLine, address, symbols) = {} /\ Fail /\ UNCHANGED writer
  /\ UNCHANGED <<symbols, number, pending, flushing>>

\* .org: flush, and start again elsewhere.
Org ==
  /\ At("Assemble")
  /\ ThisLine.kind = ".org"
  /\ \/ \E a \in Behind(ThisLine, address, symbols) :
          /\ Advance(a)
          /\ output' = Flushed
          /\ hex_address' = a
          /\ hex_buffer' = <<>>
     \/ Behind(ThisLine, address, symbols) = {} /\ Fail /\ UNCHANGED writer
  /\ UNCHANGED <<symbols, number, pending, flushing>>

-----------------------------------------------------------------------------
(* Between and behind the phases.                                          *)

Rewind ==
  /\ Idle /\ all_ok /\ phase = "Scan" /\ line_no > Len(source)
  /\ phase' = "Assemble"
  /\ line_no' = 1
  /\ address' = 0
  /\ hex_address' = 0
  /\ hex_buffer' = <<>>
  /\ UNCHANGED <<source, symbols, number, all_ok, pending, flushing, output,
                 scanned>>

\* Success: the rest of the buffer and the end-of-file record.
Finish ==
  /\ Idle /\ all_ok /\ phase = "Assemble" /\ line_no > Len(source)
  /\ phase' = "Done"
  /\ output' = Append(Flushed, [type |-> "eof"])
  /\ hex_address' = Wrap(hex_address + Len(hex_buffer))
  /\ hex_buffer' = <<>>
  /\ UNCHANGED <<source, line_no, address, symbols, number, all_ok, pending,
                 flushing, scanned>>

\* Mutant of GiveUp: the file is completed in any case.
GiveUpWrites ==
  /\ Idle /\ ~all_ok /\ phase # "Done"
  /\ phase' = "Done"
  /\ output' = Append(Flushed, [type |-> "eof"])
  /\ UNCHANGED <<source, line_no, address, symbols, number, all_ok, pending,
                 flushing, hex_address, hex_buffer, scanned>>

\* Failure: messages, and what is in the file stays there.
GiveUp ==
  /\ Idle /\ ~all_ok /\ phase # "Done"
  /\ phase' = "Done"
  /\ UNCHANGED <<source, line_no, address, symbols, number, all_ok, pending,
                 flushing, writer, scanned>>

\* main opens the output and clears the symbol table; assemble starts the
\* Scan phase.
Init ==
  /\ source \in Sources
  /\ phase = "Scan"
  /\ line_no = 1
  /\ address = 0
  /\ symbols = [n \in {} |-> 0]
  /\ number = 0
  /\ all_ok = TRUE
  /\ pending = <<>>
  /\ flushing = FALSE
  /\ hex_address = 0
  /\ hex_buffer = <<>>
  /\ output = <<>>
  /\ scanned = <<0>>

ScanStep == AddLabel \/ CountInstruction \/ ScanDirective \/ ScanDef

AssembleStep ==
  \/ CheckLabel \/ Generate \/ GenerateFails \/ SkipDef \/ EmitString
  \/ EmitBytes \/ EmitNothing \/ Align \/ Org

Next ==
  \/ PushByte \/ Flush
  \/ Skip \/ Unterminated \/ Malformed
  \/ ScanStep \/ AssembleStep
  \/ Rewind \/ Finish \/ GiveUp

Spec == Init /\ [][Next]_vars

\* The assembler is a sequential program: it goes on as long as it can.
FairSpec == Spec /\ WF_vars(Next)

-----------------------------------------------------------------------------
(* Properties.                                                             *)

\* Both phases give every line the same address.  The phases only share the
\* symbol table, and .org reads it at a time when it is not complete yet.
PhasesAgree == phase = "Assemble" /\ all_ok => address = scanned[line_no]

\* The hex writer stands where the assembler believes it to be: the byte that
\* is pushed next goes to the address a label in this place would have.  It is
\* stated for sources without the stubs .w and .l.
WriterInStep ==
  phase = "Assemble" /\ all_ok
    /\ (\A i \in 1 .. Len(source) : source[i].kind \notin {".w", ".l"}) =>
    Wrap(hex_address + Len(hex_buffer) + Len(pending)) = address

\* After success every label has the address of the line that bears it: one
\* that a second line or a .def has given another value is an error.
LabelsResolve ==
  phase = "Done" /\ all_ok =>
    \A i \in 1 .. Len(source) :
      source[i].kind = "label" =>
        /\ source[i].name \in DOMAIN symbols
        /\ symbols[source[i].name] = scanned[i]

\* What a symbol means never changes: not by a second definition, and not at
\* all once code is being generated.
SymbolsStable ==
  [][/\ \A n \in DOMAIN symbols :
          n \in DOMAIN symbols' /\ symbols'[n] = symbols[n]
     /\ phase # "Scan" => symbols' = symbols]_vars

\* The file ends with an end-of-file record exactly when the assembly was
\* successful, and holds no such record before its end.
EofMeansSuccess ==
  \A i \in 1 .. Len(output) :
    output[i].type = "eof" => phase = "Done" /\ all_ok /\ i = Len(output)

SuccessMeansEof ==
  phase = "Done" /\ all_ok =>
    output # <<>> /\ output[Len(output)].type = "eof"

FileComplete == EofMeansSuccess /\ SuccessMeansEof

\* The assembler comes to an end, if strings and characters are terminated.
Unclosed(l) == l.kind = "unterminated"

Terminates ==
  (\A i \in 1 .. Len(source) : ~Unclosed(source[i])) ~> phase = "Done"

\* The comment above strip_line (lines 1949-1950): "Checks if strings and
\* character constants are properly terminated".  A source that has one that
\* is not should end in an error message.
UnterminatedReported ==
  (\E i \in 1 .. Len(source) : Unclosed(source[i])) ~> phase = "Done"
=============================================================================
