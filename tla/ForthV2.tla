------------------------------ MODULE ForthV2 -------------------------------
(***************************************************************************)
(* The Forth system CF_Forth_V2/src/ff.c: its inner interpreter, which     *)
(* executes one compiled word per turn of the loop at the end of           *)
(* bootstrap(), and the words that are written in C, one operator for each *)
(* instr_ function.  The outer interpreter is not in this module: it is a  *)
(* Forth program that the inner one runs, and module Bootstrap compiles.   *)
(*                                                                         *)
(* The data space is kept byte by byte where code and data are.  What C    *)
(* lays out in it as structures is kept as such: the headers of the        *)
(* dictionary, the three stacks, and the input and word buffers, which     *)
(* hold words (upper case, as FIND ignores case) instead of characters.    *)
(* An access to their bytes, or to none of the memory, ends a behaviour of *)
(* this module with status "wild".                                         *)
(***************************************************************************)
EXTENDS Numbers, FiniteSets

CONSTANTS
  Spelling,    \* the characters of each word that may be read
  StackSize,   \* the number of cells each stack has room for
  Garbage,     \* the byte that malloc() left at each address
  Lines,       \* the lines that may be typed
  MaxLines     \* the number of lines that are typed

Token == DOMAIN Spelling

FF_MEMORY_SIZE == 65536

\* The word buffer holds a count, the characters, and a terminator.  instr_word
\* does not look at this limit; longer words are left out.
FF_WORD_BUFFER_SIZE == 128

\* T_PackedString.count.
Count == [w \in Token |-> Len(Spelling[w])]

Stacks == {"data", "control", "return"}

ASSUME SpellingAssumption ==
  \A w \in Token : /\ Spelling[w] \in Seq(Byte) /\ Spelling[w] # <<>>
                   /\ Len(Spelling[w]) + 2 <= FF_WORD_BUFFER_SIZE
ASSUME StackSizeAssumption == StackSize \in [Stacks -> {n \in Nat : n >= 2}]
ASSUME GarbageAssumption == Garbage \in [0 .. FF_MEMORY_SIZE - 1 -> Byte]
ASSUME LinesAssumption == Lines \subseteq Seq(Token)
ASSUME MaxLinesAssumption == MaxLines \in Nat

VARIABLES
  context,   \* T_Context with the data space
  typed,     \* the number of lines that were typed
  asked      \* history: the last line, and what it met

vars == <<context, typed, asked>>

\* Where the variables of the system are, and the memory for words begins.
FF_LOC_HERE == 2
FF_LOC_STATE == 4
FF_LOC_BASE == 6
FF_LOC_WORD_BUFFER == 14
FF_SYSTEM_VARIABLES_END == 1166

\* ff_init_all_stacks: the stacks are at the end of the data space.
TopOfData ==
  65528 - 2 * (StackSize["data"] + StackSize["control"] + StackSize["return"])

Flag == {"MACHINE_CODE", "IMMEDIATE", "COMPILE_ONLY", "HIDDEN", "DIRTY"}

\* An overflow or underflow is a failed assertion of push or pop.
Status == {"run", "bye", "overflow", "underflow", "assert", "illegal", "wild"}

\* T_OpCode.
OpCode == {"SPACE", "CREATE", "CREATE_ENTER", "WORD", "ALLOT", "ENTER", "EXIT",
  "EXECUTE", "JUMP", "JUMP_IF", "PUSH", "DROP", "FIND", "STATE", "QUERY",
  "COLON", "SEMICOLON", "COMMA", "DOT", "BEGIN", "THEN", "IF", "ELSE", "WHILE",
  "REPEAT", "AGAIN", "LITERAL", "PLITERAL", "EMIT", "ABORT", "IMMEDIATE",
  "QIMMEDIATE", "BYE", "PLUS", "AT", "C_AT", "PASS", "EQUAL", "DUP", "BNUMBER",
  "WORDBUFFER", "BASE", "STORE", "PAREN", "DECOMPILE", "ADD", "DOES",
  "DOES_ENTER", "DOES_RT"}

Headers == [name : Token, code : OpCode, flags : SUBSET Flag, does : Word]

ContextField ==
  {"mem", "dict", "chain", "stacks", "ip", "recover", "input", "word", "status"}

IsContext(c) ==
  /\ DOMAIN c = ContextField
  /\ DOMAIN c.mem \subseteq Word
  /\ c.mem \in [DOMAIN c.mem -> Byte]
  /\ DOMAIN c.dict \subseteq Word
  /\ c.dict \in [DOMAIN c.dict -> Headers]
  /\ c.chain \in Seq(DOMAIN c.dict)
  /\ c.stacks \in [Stacks -> Seq(Word)]
  /\ c.ip \in Word
  /\ c.recover \in Word
  /\ c.input \in Seq(Token)
  /\ c.word \in Token \cup {""}
  /\ c.status \in Status

-----------------------------------------------------------------------------
(* The data space.                                                         *)

Align(a) == Wrap(a + (a % 2))

ByteAt(c, a) == IF a \in DOMAIN c.mem THEN c.mem[a] ELSE Garbage[a]

\* fetch16ubits: little endian, at any address.
CellAt(c, a) == ByteAt(c, a) + 256 * ByteAt(c, a + 1)

Here(c)  == CellAt(c, FF_LOC_HERE)
State(c) == CellAt(c, FF_LOC_STATE)
Base(c)  == CellAt(c, FF_LOC_BASE)

\* An assertion that fails ends the program, and so does the model where the
\* program leaves what it keeps.
Stop(c, how) == [c EXCEPT !.status = how]

\* get_parameter_field.
ParameterField(c, e) == Align(e + Count[c.dict[e].name] + 12)

\* No header is longer than the word buffer and the fields around its name.
InHeader(c, a) ==
  LET near == {e \in DOMAIN c.dict : a - e \in 0 .. FF_WORD_BUFFER_SIZE + 12}
  IN  \E e \in near : a < ParameterField(c, e)

\* The bytes that are kept: the first variables, and what is not a header
\* between the system's buffers and the stacks.
IsKept(c, a) ==
  \/ a < 8
  \/ FF_SYSTEM_VARIABLES_END <= a /\ a < TopOfData /\ ~InHeader(c, a)

KeptCell(c, a) == \A b \in {a, a + 1} : IsKept(c, b)

Write(m, a, v) ==
  [b \in DOMAIN m \cup {a, a + 1} |->
     IF b = a THEN v % 256 ELSE IF b = a + 1 THEN v \div 256 ELSE m[b]]

\* store16ubits.
Store(c, a, v) ==
  IF KeptCell(c, a) THEN [c EXCEPT !.mem = Write(@, a, v)] ELSE Stop(c, "wild")

\* Mutant of Compile: HERE moves by one cell, however many are stored.
CompileOne(c, cells) ==
  LET first == Store(c, Here(c), cells[1])
      all   == IF Len(cells) = 1 THEN first
                                 ELSE Store(first, Wrap(Here(c) + 2), cells[2])
  IN  Store(all, FF_LOC_HERE, Wrap(Here(c) + 2))

\* One or two cells are stored at HERE, and HERE moves behind them.
Compile(c, cells) ==
  LET first == Store(c, Here(c), cells[1])
      all   == IF Len(cells) = 1 THEN first
                                 ELSE Store(first, Wrap(Here(c) + 2), cells[2])
  IN  Store(all, FF_LOC_HERE, Wrap(Here(c) + 2 * Len(cells)))

-----------------------------------------------------------------------------
(* The stacks, their top first.                                            *)

\* Mutant of WillOverflow: the last cell is thought to be free.
WillOverflowLate(c, s) == Len(c.stacks[s]) = StackSize[s]

\* will_overflow: a stack never holds as many cells as it has room for.
WillOverflow(c, s) == Len(c.stacks[s]) + 1 = StackSize[s]
IsEmpty(c, s)      == c.stacks[s] = <<>>

\* What an empty stack gives is never used: its pop fails.
Popped(c, s) == IF IsEmpty(c, s) THEN 0 ELSE Head(c.stacks[s])
Pop(c, s) == IF IsEmpty(c, s) THEN Stop(c, "underflow")
                              ELSE [c EXCEPT !.stacks[s] = Tail(@)]
Push(c, s, v) ==
  LET d == [c EXCEPT !.stacks[s] = <<v>> \o @]
  IN  IF Len(d.stacks[s]) = StackSize[s] THEN Stop(d, "overflow") ELSE d

-----------------------------------------------------------------------------
(* The dictionary.  chain lists its entries as they are linked, from       *)
(* dict_head on; entries that are no longer linked stay in memory.         *)

\* The newest entry of which P holds; 0 if there is none.
Newest(c, P(_)) ==
  LET hits == {k \in 1 .. Len(c.chain) : P(c.dict[c.chain[k]])}
  IN  IF hits = {} THEN 0
      ELSE c.chain[CHOOSE k \in hits : \A j \in hits : k <= j]

\* find_via_opcode.
ViaOpcode(c, code) == Newest(c, LAMBDA h : h.code = code)

\* The search of FIND looks at no flag.
Lookup(c, name) == Newest(c, LAMBDA h : h.name = name)

\* A header is written at HERE.  Memory that is in use is not overwritten as
\* long as HERE has only been moved upwards.
IsFree(c, from, to) ==
  /\ FF_SYSTEM_VARIABLES_END <= from /\ from <= to /\ to <= TopOfData
  /\ DOMAIN c.mem \cap (from .. to - 1) = {}
  /\ \A e \in DOMAIN c.dict : to <= e \/ ParameterField(c, e) <= from

\* add_dict_entry, and what its callers then put into the header.
AddEntry(c, header) ==
  LET new  == Here(c)
      next == Align(Wrap(new + 12 + Count[header.name]))
  IN  IF IsFree(c, new, next)
        THEN Store([c EXCEPT !.dict = [e \in DOMAIN @ \cup {new} |->
                                         IF e = new THEN header ELSE @[e]],
                             !.chain = <<new>> \o @],
                   FF_LOC_HERE, next)
        ELSE Stop(c, "wild")

\* The header of dict_head, replaced by another.
SetHead(c, header) ==
  IF c.chain = <<>> THEN Stop(c, "wild")
                    ELSE [c EXCEPT !.dict[c.chain[1]] = header]
HeadOf(c) == c.dict[c.chain[1]]

-----------------------------------------------------------------------------
(* Where a word goes on: most return ctx->ip + 2.                          *)

Continue(c) == [c EXCEPT !.ip = Wrap(@ + 2)]

\* Mutant of Abort: an entry is taken out in any state.
AbortAnyway(c) ==
  LET cleared == [c EXCEPT !.input = <<>>, !.ip = c.recover,
                           !.stacks = [s \in Stacks |-> <<>>]]
  IN  IF c.chain = <<>> THEN Stop(cleared, "wild")
      ELSE Store([cleared EXCEPT !.chain = Tail(@)], FF_LOC_STATE, 0)

\* Mutants of Abort: only the data stack is cleared, or all but that.
AbortKeeping(c, kept) ==
  LET cleared == [c EXCEPT !.input = <<>>, !.ip = c.recover,
                    !.stacks = [s \in Stacks |-> IF s \in kept THEN @[s]
                                                ELSE <<>>]]
  IN  IF State(c) # 1 THEN cleared
      ELSE IF c.chain = <<>> THEN Stop(cleared, "wild")
      ELSE Store([cleared EXCEPT !.chain = Tail(@)], FF_LOC_STATE, 0)
AbortDataOnly(c)  == AbortKeeping(c, {"control", "return"})
AbortKeepsData(c) == AbortKeeping(c, {"data"})

\* instr_abort: the newest entry is taken out of the dictionary if STATE is
\* compiling.  HERE stays where it is.
Abort(c) ==
  LET cleared == [c EXCEPT !.input = <<>>, !.ip = c.recover,
                           !.stacks = [s \in Stacks |-> <<>>]]
  IN  IF State(c) # 1 THEN cleared
      ELSE IF c.chain = <<>> THEN Stop(cleared, "wild")
      ELSE Store([cleared EXCEPT !.chain = Tail(@)], FF_LOC_STATE, 0)

\* instr_word with the delimiter ' ': the next word of the line, if any.
Parse(c) ==
  IF c.input = <<>> THEN [c EXCEPT !.word = ""]
                    ELSE [c EXCEPT !.word = Head(c.input), !.input = Tail(@)]

-----------------------------------------------------------------------------
(* The data stack.                                                         *)

Data(c) == c.stacks["data"]

\* Most words begin with a test for the cells they take (n, c0 holds the
\* context they leave), or for room for the cell they push.
Taking(c, n, c0)  == IF Len(Data(c)) < n THEN Abort(c) ELSE c0
Pushing(c, s, c0) == IF WillOverflow(c, s) THEN Abort(c) ELSE c0

First(c)      == Popped(c, "data")
Second(c)     == Popped(Pop(c, "data"), "data")
Less(c)       == Pop(c, "data")
LessTwo(c)    == Less(Less(c))
Put(c, v)     == Push(c, "data", v)

Drop(c)  == Taking(c, 1, Continue(Less(c)))
Dup(c)   == Taking(c, 1, Pushing(c, "data", Continue(Put(c, First(c)))))
\* Mutant of Add: the sum is not cut to a cell.
AddWide(c) == Taking(c, 2, Continue(Put(LessTwo(c), First(c) + Second(c))))

Add(c)   == Taking(c, 2, Continue(Put(LessTwo(c), Wrap(First(c) + Second(c)))))
Equal(c) == Taking(c, 2, Continue(Put(LessTwo(c),
                                      IF First(c) = Second(c) THEN 1 ELSE 0)))

\* helper_get_variable: BASE, STATE and WORDBUFFER push their addresses.
Variable(c, address) == Pushing(c, "data", Continue(Put(c, address)))

\* The cell behind an instruction that takes one.
Operand(c) == CellAt(c, Wrap(c.ip + 2))
Reading(c, c0) ==
  IF KeptCell(c, Wrap(c.ip + 2)) THEN c0 ELSE Stop(c, "wild")

\* PUSH, with the number behind it.
Literal(c) ==
  Pushing(c, "data",
    Reading(c, [Put(c, Operand(c)) EXCEPT !.ip = Wrap(c.ip + 4)]))

\* EMIT; the character itself is left out.
Emit(c) == Taking(c, 1, Continue(Less(c)))

\* . does not look whether there is anything to print.  In a base other than
\* 10 and 16 it divides by BASE, up to 17 times.
Dot(c) ==
  LET d == Less(c) IN
  IF IsEmpty(c, "data") THEN Stop(c, "underflow")
  ELSE CASE Base(c) = 0                            -> Stop(d, "wild")
         [] Base(c) = 1 /\ First(c) \in 1 .. 32767 -> Stop(d, "assert")
         [] OTHER                                  -> Continue(d)

-----------------------------------------------------------------------------
(* Memory.                                                                 *)

\* @ tests for a full stack, and asserts that it is not empty.
At(c) ==
  LET a == First(c) IN
  Pushing(c, "data",
    IF IsEmpty(c, "data") THEN Stop(c, "underflow")
    ELSE IF KeptCell(c, a) THEN Continue(Put(Less(c), CellAt(c, a)))
                           ELSE Stop(c, "wild"))

\* C@ extends the sign of the byte.  The byte at FF_LOC_WORD_BUFFER is the
\* length of the word that was read last.
Extended(b) == IF b < 128 THEN b ELSE b + 65280
CAt(c) ==
  LET a == First(c) IN
  Taking(c, 1,
    CASE a = FF_LOC_WORD_BUFFER -> Continue(Put(Less(c), IF c.word = "" THEN 0
                                                  ELSE Count[c.word]))
      [] IsKept(c, a)    -> Continue(Put(Less(c), Extended(ByteAt(c, a))))
      [] OTHER           -> Stop(c, "wild"))

StoreWord(c) == Taking(c, 2, Continue(Store(LessTwo(c), First(c), Second(c))))

Allot(c) ==
  Taking(c, 1, Continue(Store(Less(c), FF_LOC_HERE, Wrap(Here(c) + First(c)))))

Comma(c) == Taking(c, 1, Continue(Compile(Less(c), <<First(c)>>)))

-----------------------------------------------------------------------------
(* Flow of control.                                                        *)

Enter(c, w) ==
  Pushing(c, "return",
    [Push(c, "return", Wrap(c.ip + 2)) EXCEPT !.ip = ParameterField(c, w)])

Exit(c) ==
  IF IsEmpty(c, "return") THEN Abort(c)
  ELSE [Pop(c, "return") EXCEPT !.ip = Popped(c, "return")]

Jump(c) == Reading(c, [c EXCEPT !.ip = Operand(c)])

\* Mutant of JumpIfFalse: only FORTH_TRUE is true.
JumpUnlessTrue(c) ==
  Taking(c, 1,
    IF First(c) # 1 THEN Reading(c, [Less(c) EXCEPT !.ip = Operand(c)])
                    ELSE [Less(c) EXCEPT !.ip = Wrap(c.ip + 4)])

JumpIfFalse(c) ==
  Taking(c, 1,
    IF First(c) = 0 THEN Reading(c, [Less(c) EXCEPT !.ip = Operand(c)])
                    ELSE [Less(c) EXCEPT !.ip = Wrap(c.ip + 4)])

\* The words made by CREATE push their parameter field; with a DOES> part they
\* run it as well.
CreateEnter(c, w) == Variable(c, ParameterField(c, w))

DoesEnter(c, w) ==
  Pushing(c, "data",
    LET d == Put(c, ParameterField(c, w)) IN
    Pushing(d, "return",
      [Push(d, "return", Wrap(c.ip + 2)) EXCEPT !.ip = c.dict[w].does]))

-----------------------------------------------------------------------------
(* Words that read or compile words.                                       *)

\* FIND: the entry with the name that is read, or 0.
Find(c) ==
  Pushing(c, "data",
    LET p == Parse(c) IN
    Continue(Put(p, IF p.word = "" THEN 0 ELSE Lookup(p, p.word))))

\* (NUMBER), for the word that was read last.
Number(c) ==
  Taking(c, 1,
    IF First(c) # FF_LOC_WORD_BUFFER \/ c.word = "" THEN Stop(c, "wild")
    ELSE LET n == PNumber(Spelling[c.word], Base(c))
             d == Put(Less(c), IF n = Wrong THEN First(c) ELSE n)
         IN  Pushing(d, "data", Continue(Put(d, IF n = Wrong THEN 0 ELSE 1))))

Header(name, code, flags, does) ==
  [name |-> name, code |-> code, flags |-> flags, does |-> does]

\* : makes an entry that is DIRTY until ; has finished it.
Colon(c) ==
  Pushing(c, "data",
    LET p == Parse(c) IN
    IF p.word = "" THEN Abort(p)
    ELSE Continue(Store(AddEntry(p, Header(p.word, "ENTER",
                                           {"MACHINE_CODE", "DIRTY"}, 0)),
                        FF_LOC_STATE, 1)))

\* ; does not ask for STATE, and does not look at the control stack.
Semicolon(c) ==
  LET exit == ViaOpcode(c, "EXIT") IN
  IF exit = 0 THEN Stop(c, "assert")
  ELSE LET d == Store(Compile(c, <<exit>>), FF_LOC_STATE, 0)
       IN  Continue(SetHead(d, [HeadOf(d) EXCEPT !.flags = @ \ {"DIRTY"}]))

\* CREATE, run for the entry w.
Create(c, w) ==
  Pushing(c, "data",
    LET p == Parse(c) IN
    IF p.word = "" THEN Abort(p)
    ELSE Continue(AddEntry(p, Header(p.word, "CREATE_ENTER", {"MACHINE_CODE"},
                                     c.dict[w].does))))

Immediate(c) ==
  Continue(SetHead(c, [HeadOf(c) EXCEPT !.flags = @ \cup {"IMMEDIATE"}]))

\* Mutant of IsImmediate: another flag.
IsCompileOnly(c) ==
  Taking(c, 1,
    IF First(c) \notin DOMAIN c.dict THEN Stop(c, "wild")
    ELSE Continue(Put(Less(c), IF "COMPILE_ONLY" \in c.dict[First(c)].flags
                                 THEN 1 ELSE 0)))

IsImmediate(c) ==
  Taking(c, 1,
    IF First(c) \notin DOMAIN c.dict THEN Stop(c, "wild")
    ELSE Continue(Put(Less(c), IF "IMMEDIATE" \in c.dict[First(c)].flags
                                 THEN 1 ELSE 0)))

\* LITERAL and (LITERAL).
CompileLiteral(c) ==
  LET push == ViaOpcode(c, "PUSH") IN
  Taking(c, 1, IF push = 0 THEN Stop(c, "assert")
               ELSE Continue(Compile(Less(c), <<push, First(c)>>)))

\* DOES>: the code that follows is for the words the new word will make.
Does(c) ==
  LET rt   == ViaOpcode(c, "DOES_RT")
      exit == ViaOpcode(c, "EXIT")
      d    == Compile(c, <<rt, exit>>)
  IN  IF rt = 0 \/ exit = 0 THEN Stop(c, "assert")
      ELSE Continue(SetHead(d, [HeadOf(d) EXCEPT !.does = Here(d)]))

DoesRunTime(c) ==
  IF c.chain = <<>> THEN Stop(c, "wild")
  ELSE IF HeadOf(c).code # "CREATE_ENTER" THEN Stop(c, "assert")
  ELSE Continue(SetHead(c, [HeadOf(c) EXCEPT !.code = "DOES_ENTER",
                                             !.does = Wrap(c.ip + 4)]))

\* ( skips everything up to the next right parenthesis, which may be that of a
\* word like (NUMBER).  A word that goes on behind it is cut there, and what is
\* left of it is not kept.
Parens(w) == {j \in DOMAIN Spelling[w] : Spelling[w][j] = 41}
Paren(c) ==
  LET closing == {k \in 1 .. Len(c.input) : Parens(c.input[k]) # {}} IN
  IF closing = {} THEN Abort(c)
  ELSE LET k == CHOOSE k \in closing : \A j \in closing : k <= j
       IN  IF Parens(c.input[k]) = {Count[c.input[k]]}
             THEN Continue([c EXCEPT !.input = SubSeq(@, k + 1, Len(@))])
             ELSE Stop(c, "wild")

\* QUERY: a line is typed.
Query(c, line) == Continue([c EXCEPT !.input = line])

\* DECOMPILE only prints; it is taken to find the end of what it lists.
Decompile(c) ==
  Taking(c, 1, IF First(c) \in DOMAIN c.dict THEN Continue(Less(c))
                                             ELSE Stop(c, "wild"))

-----------------------------------------------------------------------------
(* IF ELSE THEN and BEGIN AGAIN leave addresses on the control stack.      *)

Control(c) == Popped(c, "control")

Begin(c) == Pushing(c, "control", Continue(Push(c, "control", Here(c))))

If(c) ==
  LET jump == ViaOpcode(c, "JUMP_IF") IN
  Pushing(c, "control",
    IF jump = 0 THEN Stop(c, "assert")
    ELSE Continue(Push(Compile(c, <<jump, 0>>), "control", Wrap(Here(c) + 2))))

Then(c) ==
  IF IsEmpty(c, "control") THEN Abort(c)
  ELSE Continue(Store(Pop(c, "control"), Control(c), Here(c)))

\* ELSE leaves the cell that THEN fills in as it is.
Else(c) ==
  LET jump == ViaOpcode(c, "JUMP")
      here == Here(c)
      next == Wrap(here + 4)
      d    == Store(Store(Pop(c, "control"), here, jump), Control(c), next)
  IN  IF IsEmpty(c, "control") THEN Abort(c)
      ELSE IF jump = 0 THEN Stop(c, "assert")
      ELSE Continue(Store(Push(d, "control", Wrap(here + 2)),
                          FF_LOC_HERE, next))

Again(c) ==
  LET jump == ViaOpcode(c, "JUMP") IN
  IF IsEmpty(c, "control") THEN Abort(c)
  ELSE IF jump = 0 THEN Stop(c, "assert")
  ELSE Continue(Compile(Pop(c, "control"), <<jump, Control(c)>>))

-----------------------------------------------------------------------------
(* The inner interpreter.                                                  *)

\* instruction_table, for the entry w.
Instruction(c, w, line) ==
  LET code == c.dict[w].code IN
  CASE code = "DROP"         -> Drop(c)
    [] code = "DUP"          -> Dup(c)
    [] code = "ADD"          -> Add(c)
    [] code = "EQUAL"        -> Equal(c)
    [] code = "STATE"        -> Variable(c, FF_LOC_STATE)
    [] code = "BASE"         -> Variable(c, FF_LOC_BASE)
    [] code = "WORDBUFFER"   -> Variable(c, FF_LOC_WORD_BUFFER)
    [] code = "PUSH"         -> Literal(c)
    [] code = "EMIT"         -> Emit(c)
    [] code = "DOT"          -> Dot(c)
    [] code = "AT"           -> At(c)
    [] code = "C_AT"         -> CAt(c)
    [] code = "STORE"        -> StoreWord(c)
    [] code = "ALLOT"        -> Allot(c)
    [] code = "COMMA"        -> Comma(c)
    [] code = "ENTER"        -> Enter(c, w)
    [] code = "EXIT"         -> Exit(c)
    [] code = "JUMP"         -> Jump(c)
    [] code = "JUMP_IF"      -> JumpIfFalse(c)
    [] code = "CREATE_ENTER" -> CreateEnter(c, w)
    [] code = "DOES_ENTER"   -> DoesEnter(c, w)
    [] code = "FIND"         -> Find(c)
    [] code = "BNUMBER"      -> Number(c)
    [] code = "COLON"        -> Colon(c)
    [] code = "SEMICOLON"    -> Semicolon(c)
    [] code = "CREATE"       -> Create(c, w)
    [] code = "IMMEDIATE"    -> Immediate(c)
    [] code = "QIMMEDIATE"   -> IsImmediate(c)
    [] code \in {"LITERAL", "PLITERAL"} -> CompileLiteral(c)
    [] code = "DOES"         -> Does(c)
    [] code = "DOES_RT"      -> DoesRunTime(c)
    [] code = "PAREN"        -> Paren(c)
    [] code = "QUERY"        -> Query(c, line)
    [] code = "DECOMPILE"    -> Decompile(c)
    [] code = "BEGIN"        -> Begin(c)
    [] code = "IF"           -> If(c)
    [] code = "THEN"         -> Then(c)
    [] code = "ELSE"         -> Else(c)
    [] code = "AGAIN"        -> Again(c)
    [] code = "ABORT"        -> Abort(c)
    [] code = "PASS"         -> Continue(c)
    [] code = "BYE"          -> Stop(Continue(c), "bye")
    [] OTHER                 -> Stop(c, "illegal")

CodeAt(c, w) == IF w \in DOMAIN c.dict THEN c.dict[w].code ELSE "none"

\* EXECUTE takes the entry to run from the stack, and that may be EXECUTE
\* again.  Depth(c) is the place of the first that is not.
Depth(c) ==
  CHOOSE k \in 1 .. Len(Data(c)) + 1 :
    /\ k <= Len(Data(c)) => CodeAt(c, Data(c)[k]) # "EXECUTE"
    /\ \A j \in 1 .. k - 1 : CodeAt(c, Data(c)[j]) = "EXECUTE"

\* Only the innermost EXECUTE lets a word that is entered go on where it says;
\* one around it goes on behind itself.
Execute(c, line) ==
  LET k == Depth(c) IN
  IF k > Len(Data(c)) THEN Abort(c)
  ELSE LET w == Data(c)[k]
           d == [c EXCEPT !.stacks["data"] = SubSeq(@, k + 1, Len(@))]
           r == Instruction(d, w, line)
       IN  CASE w \notin DOMAIN c.dict -> Stop(c, "wild")
             [] w \in DOMAIN c.dict /\ r.ip = c.recover -> r
             [] w \in DOMAIN c.dict /\ r.ip # c.recover ->
                  IF k = 1 /\ c.dict[w].code \in {"ENTER", "DOES_ENTER"} THEN r
                  ELSE [r EXCEPT !.ip = Wrap(c.ip + 2)]

\* The opcode of the entry at ip.
Opcode(c) == IF KeptCell(c, c.ip) THEN CodeAt(c, CellAt(c, c.ip)) ELSE "none"

\* One turn of the loop: the entry at ip is run.
Turn(c, line) ==
  LET code == Opcode(c) IN
  CASE code = "none"    -> Stop(c, "wild")
    [] code = "EXECUTE" -> Execute(c, line)
    [] OTHER            -> Instruction(c, CellAt(c, c.ip), line)

\* The instruction a turn comes to, EXECUTE resolved.
AtWork(c) ==
  LET code == Opcode(c) IN
  IF code # "EXECUTE" THEN code
  ELSE IF Depth(c) > Len(Data(c)) THEN "ABORT"
  ELSE CodeAt(c, Data(c)[Depth(c)])

Running == context.status = "run"

\* A prompt of INTERPRET, unlike one that a word the user typed gives.
AtPrompt == Running /\ Opcode(context) = "QUERY"

Compute ==
  /\ Running /\ AtWork(context) # "QUERY"
  /\ context' = Turn(context, <<>>)
  /\ UNCHANGED <<typed, asked>>

\* The user types a line, or leaves the system waiting.  A terminal that is
\* closed, which leaves the buffer of QUERY uninitialised, is left out.
Terminal ==
  /\ Running /\ AtWork(context) = "QUERY" /\ typed < MaxLines
  /\ \E line \in Lines :
       /\ context' = Turn(context, line)
       /\ asked' = [line |-> line, data |-> Data(context'),
                    state |-> State(context), base |-> Base(context)]
  /\ typed' = typed + 1

\* The dictionary as add_dict_entry builds it: a header ends behind its
\* beginning, and is linked once.
Rooted(c) ==
  /\ \A e \in DOMAIN c.dict : e < ParameterField(c, e)
  /\ \A j, k \in DOMAIN c.chain : c.chain[j] = c.chain[k] => j = k

\* What bootstrap() leaves when it enters the loop.
Booted(c) ==
  /\ IsContext(c)
  /\ Rooted(c)
  /\ c.stacks = [s \in Stacks |-> <<>>]
  /\ c.ip = c.recover
  /\ c.status = "run"

\* No line was typed yet: the variables are what the program found.
Unasked(c) ==
  [line |-> <<>>, data |-> <<>>, state |-> State(c), base |-> Base(c)]

Init ==
  /\ Booted(context)
  /\ typed = 0
  /\ asked = Unasked(context)

Next == Compute \/ Terminal

Spec == Init /\ [][Next]_vars
-----------------------------------------------------------------------------
(* Properties.                                                             *)

\* The words test their stacks before they use them (will_overflow, is_empty):
\* no program makes push() or pop() fail, except that @ and . take a cell
\* without a test (@ tests for room instead).
StacksGuarded ==
  [][ /\ context'.status # "overflow"
      /\ context'.status = "underflow" =>
           AtWork(context) \in {"AT", "DOT"} ]_vars

\* What is compiled lies below HERE, where the next word will be compiled.
HereIsFree(c) ==
  /\ FF_SYSTEM_VARIABLES_END <= Here(c)
  /\ DOMAIN c.mem \subseteq 0 .. Here(c) - 1
  /\ {ParameterField(c, e) : e \in DOMAIN c.dict} \subseteq 0 .. Here(c)

\* THEN and ELSE fill in the cell that the control stack names.  It is one that
\* was compiled, unless BEGIN has left the address, or HERE was moved since.
FillsIn(c) ==
  AtWork(c) \in {"THEN", "ELSE"} =>
    FF_SYSTEM_VARIABLES_END <= Control(c) /\ Control(c) + 2 <= Here(c)

\* Every word that compiles moves HERE behind what it has written, so that
\* nothing compiled is overwritten by what is compiled next: only ! and ALLOT,
\* with an address or a size of the user's, bring HERE down.
CompiledStays ==
  [][ (context'.mem # context.mem \/ context'.dict # context.dict)
        /\ Running /\ HereIsFree(context) /\ context'.status # "wild"
        /\ AtWork(context) \notin {"STORE", "ALLOT"} /\ FillsIn(context) =>
      HereIsFree(context') ]_vars
=============================================================================
