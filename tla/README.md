# Verification of FPRCade

FPRCade is a Forth machine built from the ground up: a 16-bit stack processor
(the Stackmaster-16), an assembler, an emulator and a disassembler for it, two
Forth systems, and the first parts of a hardware design. This directory holds
TLA+ modules translated from its source, TLC configurations that check them on
small instances, and TLAPS proofs about them. Paths below are relative to
`src/`; "the manual" is `Docs/stack-master-16-programmers-manual.md`.

## 1. The system

| Component | Source | State | Operations |
|---|---|---|---|
| Processor of the emulator | `SubProjects/FPEmu/src/fpemu.c` 1-603 | `pc`, `instruction`, four stacks in arrays, `keep_going`, `single_step`, `exception`; 64 kB of memory | `run()`: fetch, decode and execute one instruction per turn; `push`, `pop`, `cpu_reset` |
| Hex loader | `fpemu.c` 606-674 | memory | `load_hex()` |
| Monitor of the emulator | `fpemu.c` 676-836 | command buffer, last command, parameters of `d` and `x` | `r p n d x h q`, the empty line |
| Assembler | `SubProjects/FAsm/src/fa.c` | symbol table, assembly address, phase, error flag; buffer and address of the hex writer | two phases over the source; one function per instruction and directive |
| Disassembler | `SubProjects/FDisassem/src/fdisa.c`, `main.c` | a text buffer | `disassemble()`, used by the monitor's `d` and by the program `fdisassem` |
| Forth V2 | `SubProjects/CF_Forth_V2/src/ff.c`, `ff.h`, `interpret.fs`, `library.fs` | 64 kB of data space with the dictionary, three stacks, `HERE`, `STATE`, `BASE`, input and word buffer; `ip` | `bootstrap()`, the inner interpreter, some fifty words written in C, `INTERPRET` and the library written in Forth |
| Forth V1 | `SubProjects/CF_Forth/src/` | the same, older layout | the same, fewer words |
| Smart stack | `SubProjects/HWDesign/src/System/CPU/Stack/smartstack.v` | eight cells, top, temporaries | stack operations on a clock |
| Others | `AF_Forth`, `vim-smasm`, makefiles | none | none |

How they meet:

    source --FAsm--> hex records --load_hex--> memory --run()--> stacks, pc
                                                 |
                                                 +--disassemble()--> listing

The assembler, the emulator and the disassembler share no code and no header.
Each has its own table of instruction codes and stack numbers; the manual is
the only thing they have in common. The two phases of the assembler share only
the symbol table, and the assembler and its own hex writer each keep an
address. Nothing runs concurrently: every program is one thread. What makes the
behaviour hard is

* **state that survives**: the exception and `single_step` outlive a command of
  the monitor, the last command outlives its line, the processor can be resumed
  after an exception stopped it;
* **two accounts of the same thing** that have to agree: addresses in two phases
  and a writer, codes in three programs;
* **limits**: stacks, the symbol table, the record buffer, offsets of 12 bits,
  addresses and cells of 16 bits;
* **several steps of which one fails**: an instruction that pops twice and
  pushes, a directive with a list of operands, an assembly that stops after
  some records were written;
* **ends**: `run()`, the assembler's loop, the monitor and the inner interpreter
  have no bound of their own;
* **a program that builds itself**: the Forth system compiles its own outer
  interpreter with a small one written in C, and from then on every word that is
  typed runs through code that is in the same memory as what it compiles;
* **several edges**: a fetch and a store may reach the smart stack with one edge
  of the clock.

What correctness means for each:

* processor: no instruction drives a stack past its array; it stops only for a
  reason it can report; every instruction does what the manual says to every
  stack and to `pc`;
* monitor: commands have the effect they name and no other; an overflow cannot
  be lost; a single step comes back;
* assembler: both phases agree on every address, symbols do not change their
  meaning, bytes reach the file at the address of their line, a file is
  complete exactly when the assembly succeeded, and assembly ends;
* loader: memory holds what the lines of the source say;
* disassembler: what it prints is what is executed and what can be assembled;
* Forth: the dictionary is a stack of whole words, compiled branches land where
  they should, stacks are not used beyond their ends, and every line leads back
  to a prompt;
* numbers: a numeral has its value, and the same one in both programs that read
  it;
* smart stack: as long as it is used as it should be, it is a stack.

`PROJECT.json` lists the hazards, each at its line, with the properties meant
to catch it.

## 2. The modules

| Module | Models | Extends |
|---|---|---|
| `Words` | the 16-bit arithmetic of `run()` | |
| `FPEmu` | the processor: `run()` without the monitor | `Words` |
| `Instructions` | the assembler's table of codes and `disassemble()` | `Words` |
| `Programs` | assembler, emulator and disassembler side by side, and the manual's meaning of the mnemonics | `FPEmu`, `Instructions` |
| `Monitor` | `monitor()` with `run()` underneath | `FPEmu` |
| `FDisassem` | the program `fdisassem` | `Instructions` |
| `FAsm` | the assembler and its hex writer | `Words` |
| `Toolchain` | the assembler, then `load_hex` | `FAsm` |
| `Numbers` | how `fa.c` and `ff.c` read numbers | `Words` |
| `ForthV2` | the inner interpreter and the words written in C | `Numbers` |
| `Bootstrap` | `bootstrap()`, `mini_interpret`, `INTERPRET` and the library | `ForthV2` |
| `WordList` | abstract: what the dictionary promises | |
| `SmartStack` | the hardware stack | |
| `StackDevice` | abstract: what the hardware stack promises | |
| `MCPrograms`, `MCMonitor`, `MCFAsm`, `MCToolchain`, `MCLines`, `MCForth`, `MCNumbers` | finite instances | the above |
| `WordsTheorems` | lemmas about `Words` and `Numbers`, and induction, proved | `Numbers` |
| `NumbersProofs` | theorems about `Numbers`, proved | `MCNumbers`, `WordsTheorems` |
| `FPEmuProofs` | theorems about `FPEmu`, `Monitor` and `Programs`, proved | `Monitor`, `Programs`, `WordsTheorems` |
| `FDisassemProofs` | theorems about `FDisassem`, proved | `FDisassem`, `WordsTheorems` |
| `FAsmProofs` | theorems about `FAsm`, proved | `FAsm`, `WordsTheorems` |
| `ToolchainProofs` | theorems about `Toolchain`, proved | `Toolchain`, `FAsmProofs` |
| `SmartStackProofs` | theorems about `SmartStack`, proved | `SmartStack` |
| `ForthProofs` | theorems about `ForthV2` and `Bootstrap`, proved | `ForthV2`, `WordsTheorems` |

### FPEmu

The variables are the fields of `struct CPU_Context`. A stack is a sequence with
its top first instead of an array with an index. Each instruction group of the
switch in `run()` is an action (`Enter`, `BranchIfFalse`, `Stack`, `LoadLow`,
...); an action is a whole turn of the loop: fetch, all pushes and pops of the
instruction in their order, `pc`, and the test of `single_step` at the end. `push`
and `pop` are operators on a context that is threaded through an instruction
(`Push`, `Pop`, `Popped`), so that an underflow in the middle of an instruction
has the effects it has in the code: `pop` returns `0xDEAD`, and the instruction
goes on with it. The overflow test is the code's test for equality after the
store, not an inequality.

The image in memory is a variable that no action changes: no implemented
instruction writes to memory. Undefined behaviour is a choice: a shift count of
32 or more gives what x86 or a constant-folding compiler gives
(`ShiftCounts`), and the fetch at `0xFFFF` reads a constant byte behind the
array (`BeyondMemory`). What `ISTO` sends to the terminal is left out.

### Programs

`AssembledMeaning` is an end-to-end statement: for each step, look up which
source line `fa.c` would have assembled to the executed word, and require of
the step what the manual says of that mnemonic, for every stack and for `pc`. The
manual's meaning is written down independently of the emulator (`ManualStacks`:
products and comparisons of signed integers, powers of two, sets of bits). It
holds for the mnemonics in `Agreed`; those on which the programs disagree are
in section 5.

### Monitor

`mode` says whether the monitor is at its prompt or inside `run()`. A command line
is reduced to the letter of its first word and an address. The end of the input
is modelled as the code treats it: `fgets` fails unnoticed and the buffer keeps
its last line. Two bounds keep the model finite, both in `Resumable`: the user
resumes the processor only inside `Window`, and only while the arrays
(`MAX_STACK_SIZE`) have room; beyond that the code writes outside an array.

### FAsm and Toolchain

A source line is a record of what the parsers make of it. A line is shorter than the buffer
`fgets` reads it into, which bounds what it can emit. Each turn of the loop
in `assemble()` is an action, one per kind of line and phase, with its error
path; the bytes a line emits go to the hex writer one at a time (`PushByte`), so
that a record can end anywhere within a line. `find_symbol` returns the first
entry of a name while `add_symbol` appends, so `symbols` keeps the first value of
a name and `number` counts all entries. `scanned` is a history variable: the
address of each line in the Scan phase.

`Toolchain` adds `load_hex`, record by record, and a second history variable,
`assembled`: the bytes of each line written straight to the line's address. That
is what the pair of programs promises, and `LoadedAsAssembled` compares it with
the memory the loader leaves.

### Numbers

`PNumber` is `instr_pnumber`, `ReadNumber` is `read_number` on a word that is no
symbol. Both share the loop over the digits (`Digits`, a recursive function), and
both have oddities that the operators keep: a minus sign among the digits
multiplies like a digit, a single digit behind a prefix is refused by Forth, the
characters `:` to `?` are digits of bases above 10. `MCNumbers` types all short
strings, and compares with a sum over positions (`Meaning`) by the grammar of
`CF_Forth/docs/numbers.md`.

### ForthV2 and Bootstrap

`context` is `T_Context` with its data space. Where code and data are, the data
space is kept byte by byte (`mem`), since `,`, `!`, `HERE`, compiled jumps and the
variables all meet there. What C lays out in it as structures is kept as such: a
header of the dictionary is a record at its address, `chain` lists the addresses
in the order of the links, stacks are sequences with their top first, and the
input and word buffers hold words instead of characters. `Spelling` gives each
word its characters, which decide how long a header is and whether the word is a
number. A step that would touch the bytes of a structure, or run what is no
entry of the dictionary, ends the behaviour with status `wild`; a failed
assertion ends it with the name of what failed. Nothing is claimed behind those.

Each `instr_` function is an operator from context to context, with its tests in
their order: most look for the cells they take (`Taking`) or the room they need
(`Pushing`) and end in `Abort` otherwise. A step (`Compute`) is one turn of the
loop at the end of `bootstrap()`. `EXECUTE` calls the function of another word from
C, and that may be `EXECUTE` again (`Depth`); what it makes of the result is kept,
as it decides where execution goes on. The one step with an input is `QUERY`
(`Terminal`): the user types one of `Lines`. `asked` is a history variable: the last
line, and the data stack, `STATE` and `BASE` it met.

What `malloc` left in memory is a constant: `Garbage`, a byte for each address, and
`Unset`, the values that may be in `STATE`, which `ff_reset` does not set. A cell is read
only where the model keeps both its bytes (`KeptCell`); what `ip` or an operand finds
elsewhere ends the behaviour as `wild` (`Opcode`, `Reading`). `(` skips to the next
right parenthesis, be it within a word as in `(NUMBER)`.

`Bootstrap` runs `bootstrap()` itself: one step per `add_core_word`, one per round of
`mini_interpret`, which compiles `INTERPRET` from the text of `interpret.fs`, then the
inner interpreter that runs `INTERPRET` on the text of `library.fs` and at last on
what is typed. So the outer interpreter that every property goes through is the
one the program has compiled, not one written for the model. `InterpreterDecides`
states what the comments of `interpret.fs` say of its branches.

`WordList` is the abstract dictionary: a stack of words of which only the newest is
worked on. `IsWordList` maps `chain` and `STATE` to it and requires every step to be one of
its actions or none of its business.

### SmartStack and StackDevice

Every edge of `i_rst` and `i_clk` is a step with free inputs; non-blocking
assignments read the values before the edge, which is what primed and unprimed
variables do. The pointer has as many bits as it takes to index the cells. Two
history variables say what a driver has to know: `fresh`, that the registers show
the stack as it is, and `valid`, that there was a reset and no misuse since.
`StackDevice` is the stack that is promised, and `IsStackDevice` the refinement. Its
`Roll` promises that the topmost value goes below the next two, and no order of
these: the table at the head of the source keeps it, the code reverses it (section
5). The pointer has `$clog2(DEPTH)` bits and wraps at `DEPTH` only for a power of two,
which is an assumption of its own (`PointerAssumption`).

## 3. The runs

| Run | Question | Bounds |
|---|---|---|
| `fpemu` | Can a stack outgrow its size, can the processor stop in silence, are return addresses sound, do programs that cannot go back end, do the three programs and the manual agree? | all programs of four words over the stack, load and branch instructions, and over calls, returns and branches; every function of groups `0xE000` and `0xF000` on pairs of 0, 1, 15, 32767, 32768, 65535 and on an empty stack; every stack operation; branches by offsets around 0 and +-2048 from 0, `0x1000` and `0xFFFC`; stacks of 3 and 4 |
| `monitor` | Do commands keep their effects apart, does a single step return? | four programs (recursion, a loop that pushes, a loop that does not, pops and a halt), every sequence of command lines and the end of input |
| `fdisassem` | Do assembler and disassembler agree? | all words `fdisassem` lists |
| `toolchain` | Do phases, writer and loader agree on addresses? Is a file complete exactly after success, does assembly end? | all sources of four lines over thirteen lines that move the address, two names, records of 3 bytes; all sources of three lines over every kind of line and error, a table of two symbols, so that the third definition does not fit |
| `forth` | Does the system come up, does what is compiled do what it should, is the dictionary a list of words, are stacks guarded, does every line return to a prompt? | `bootstrap()` as a whole, then every pair of 44 lines: eight definitions with `IF` and `ELSE`, nested and repeated, and 36 that define, recurse, fail half-way, fill and empty stacks, change `STATE` and `BASE`, or use compiling words at the prompt; stacks of 9, 6 and 7 cells; memory that differs from byte to byte, and 0, 1, 256 or 257 in `STATE` |
| `numbers` | Does a numeral have its value, in both programs? | all strings of up to four out of twelve characters, bases 2, 10, 16 and 36 |
| `smartstack` | Is the hardware stack a stack? | 4 cells of three values, every order of reset, fetch and store |

`fpemu_leave`, `monitor_depth`, `fasm_unterminated`, `forth_scrub` and `forth_execute`
each show one disagreement of the code with a document or a comment (section 5).

The bounds are small but reach the cases. In the emulator an overflow needs a
stack filled to its size (3 or 4 cells instead of 16 or 32; only equality with
the size matters), and four words suffice to fill it, since `DUP` and `ENTER` loop. A
record of 3 bytes is shorter than a string and than an `LD` and longer than an
instruction, so that records end within, at and behind lines. Clashes of names
need two symbols. `INTERPRET` itself needs five cells of the control stack to be
compiled and three of the data stack to run, so the Forth stacks are a little
larger: recursion and a loop of pushes fill them, and a line of seven numbers
does too. Of the values in `STATE`, 1 means compiling, 0 interpreting, and the others
share a byte with the first two. Two lines are needed because an error shows in the line after it: a
definition that was given up, a `STATE` or `BASE` that was changed, cells that were
left. Four characters reach a prefix, a sign and two digits, and four digits in
base 36 go beyond a cell. Four cells are the least with which `ROLL` has its three
values, and the pointer wraps.

Left out of the lines of `forth`: `EXECUTE` at the prompt (`forth_execute` shows what
it does; `ReturnsHome` says nothing of it), a loop that neither pushes nor ends, which runs for ever as the user
asked, and a terminal that is closed.

`CHECK_DEADLOCK FALSE` is set where a program ends or waits: the processor halts,
the assembler and `fdisassem` are done, `q` and `BYE` leave, the user has typed the
last line or the last character of the bound. The smart stack never stops, and
its run checks for deadlock.

Fairness. `run()`, `assemble()` are plain loops of one thread, so weak fairness of
their step is what the operating system gives them (`FairSpec`, `FairToolSpec`). In
the monitor only `Running` is fair: nothing obliges a user to type a command. In
Forth every step is fair but `Terminal`, for the same reason; `FairBootSpec` spells
this weak fairness out with the states in which no such step changes anything
(`Waiting`, `Spinning`), because `ENABLED` of a step that computes a context is
costly to evaluate. A jump to itself is such a step: `PromptReturns` would find it.

## 4. What is proved

`WordsTheorems` proves that every operator of `Words` maps cells to cells, and that a
carry out of a cell changes nothing modulo 2^16 (`WrapSame`, `MulRest`). It also has
what an induction needs: every set of naturals that is not empty has a least element
(`Least`), so that what a first place has and every place hands to the next, every
place has (`Along`); and a function that is given by its first value and a step has
these values (`Primitive`). The library's theorems of induction take an operator as a
parameter, which the provers cannot instantiate; these take a set or a function. The
community modules sum over a set in an order that is a `CHOOSE`; `SumSplits` says that
such a sum can be split at any element, whatever that order.

### The processor

`FPEmuProofs` proves for every set of images and all stack sizes from 2:

* `TypeCorrect`: `Spec => []TypeOK`;
* `StacksBounded`: `Spec => []StackBound`: no stack ever holds more cells than its
  size;
* `StopsForAReason`: `Spec => []StopReason`;
* `ReturnsInOrder`: `Spec => []ReturnAddresses`: the cells of the return stack are
  the addresses behind an `ENTER`;
* `EffectsAsDocumented`: `Spec => StackEffect`: every instruction changes the depth
  of every stack by what the manual says.

The argument. `push` tests `top == size` after the store, so the bound is not
inductive for a single push: a push onto a full stack would go past it. What is
inductive is `IInv`: while `keep_going` is set, every stack has room for one more
cell (`StackBound`) and no exception is on record. Within an instruction the
context satisfies `Sound`: each stack is within its size, and as long as nothing
was raised each has room. Lemma `PopSound` says that a pop keeps that,
`PushSound` that a push onto a stack with room does; the delicate cases are the
instructions that push twice (`DUP`, `SWAP`), where the two pops or the one in
front make room for the second push even when the first one raises the overflow.
That is why sizes start at 2 (`StackSizeAssumption`). `StepIInv` has one step
per action, and the theorems follow with PTL.

`ReturnAddresses` was first stated for programs without code that loads the return
stack, where "code" meant the words at addresses of the image. The proof failed,
and rightly so: `pc` may be odd, so that an instruction may begin with the byte in
front of the first one loaded, or be the byte at `0xFFFF` and one from behind the
memory. `CodeAddresses` names all places an instruction may lie at.

### Assembler, emulator and disassembler

`FPEmuProofs` also proves of the three together (module `Programs`), again for every
image, stack size and byte behind the memory:

* `TargetsAsListed`: `Spec => ListedTargets`: the targets of `enter` and `bif` that the
  disassembler lists are where the emulator goes;
* `AssembledAsMeant`: `Spec => AssembledMeaning`: a mnemonic of `Agreed`, in the code that
  the assembler makes of it, has the effect the manual gives it on all four stacks and
  on `pc`, whenever it raises nothing.

The argument. What the emulator computes for two cells (`BinaryResults`) is what the
manual computes (`Means`): both readings of a cell differ by a carry, which sums and
products modulo 2^16 do not see (`AddMeans`, `MulMeans`); a shift is a product or a
quotient (`ShiftMeans`); a cell is the sum of its bits, as the manual's `and`, `or` and
`xor` build it (`CellBits`, by `SumSplits`). An instruction that raised nothing has
found the cells it popped and room for those it pushed (`Takes`, `Puts`), so its effect
on the stacks can be read off (`BinaryMeant`, `StoreMeant`, `ReadMeant`,
`OperationMeant`), the cases of `DUP` and `SWAP` with two pushes among them. The code of
each mnemonic is decoded to its function and sign bit (`BinaryCodes`), and no two
agreed mnemonics are confused since a source is looked up by its code (`SourceOf`). The
premise "raises nothing" is met by every instruction on stacks that have the cells and
the room, which the run (`fpemu`) executes for each of the mnemonics.

What the proof has changed: in `Disassemble`, two cases of one `CASE` overlapped; TLC
takes the first, but TLA+ leaves the choice open. The guards are disjoint now.

### The disassembler

`FDisassemProofs` proves of the listing, for whichever word it is at:

* `ListingsReassemble`: `Spec => []ListingReassembles`: a line on which both programs
  agree is assembled to that instruction again;
* `SourcesAreAlwaysListed`: `Spec => []SourcesAreListed`: the code of a source both
  programs know is listed as that source and no other.

`fdisassem` has no constants, and the run goes through all its words as well. What the
proofs add is the reason, and that `disassemble()` may be given any address, not only
the `0x8000` of the loop. The argument: the buffer has the text of the word before `i`
(`IInv`), so both are statements about one word. Group by group, the fields of a word
are the letters of its text, and these are the fields of the code assembled from it
(`ControlAgrees`, `StackAgrees`, `LoadAgrees`, `StoreAgrees`, `FunctionAgrees`, together
`ListedAgrees`); the groups that are left have names no shared source has (`Foreign`).
For the converse the code of each shared source is taken apart (`SourcesListed`).

### The monitor

`FPEmuProofs` also proves of the monitor, for every image, every line the user may type and however
often the processor is resumed:

* `MonitorTypeCorrect`: `MonitorSpec => []MonitorTypeOK`;
* `OverflowRecorded`: `MonitorSpec => []OverflowOnRecord`;
* `StepFlagInForce`: `MonitorSpec => []StepFlagFollowsCommand`;
* `ExceptionKept`: `MonitorSpec => ExceptionSticks`;
* `EmptyLineRepeats`: `MonitorSpec => EmptyLineIsHarmless`.

The argument. Under the monitor `StackBound` is lost: a processor that is resumed
goes on although a stack is full. What is left is `MInv`: as long as *no* exception
is on record, every stack has room for one more cell. A first push onto such a
stack raises at the moment it becomes full, and from then on nothing is claimed of
the stacks, as no instruction and no command clears the exception.

### The assembler

`FAsmProofs` proves of the assembler, for every set of sources, every size of the
symbol table and of the record buffer:

* `TypeCorrect`: `Spec => []TypeOK`;
* `SymbolsKeepMeaning`: `Spec => SymbolsStable`;
* `AddressesAgree`: `Spec => []PhasesAgree`;
* `LabelsAreResolved`: `Spec => []LabelsResolve`;
* `FileIsComplete`: `Spec => []FileComplete`;
* `WriterKeepsStep`: `Spec => []WriterInStep`.

The argument. `PhasesAgree` says nothing about the Scan phase and cannot be
inductive. The invariant (`IInv` of `FAsmProofs`) describes what Scan leaves:
`Chain` says that each recorded address follows from the one before by `Succ`,
a function of the line, the address and the symbol table, and it says so of the
table as it is *now*. A step was taken with an earlier table, so `Chain`
survives only because symbols never lose or change their value (`Grows`,
`SuccGrows`): an `.org` that found its symbol finds the same value for ever.
Assemble applies the same `Succ` to the same lines, and `Succ` has one result
(`SuccUnique`). `Checked` adds that every label passed in the Assemble phase has
been compared. `NextShape` reduces the actions to three shapes: a turn that goes
on with the next line (`Turn`), a step that leaves lines and addresses alone
(`Stay`), and the change of phase (`Restart`). For the file, `FInv` says that
before success there is no end-of-file record at all, and that nothing is left
to be pushed once the assembler is done (`Quiet`): otherwise a record could
follow the last one.

Types and the writer need to know what the lines emit. `BytesOfType`,
`GeneratedType` and `PushedType` say that instructions are cells and `.b` pushes
bytes, as many as there are operands if all of them can be read; `EmitShape` that
a line which succeeds moves the address by the number of bytes it emits, and one
that fails emits no more than it would have. With `WrapAdds`, `WriterInStep` is
inductive by itself. The operands that `.b` pushes are numbered with `Place`, not
collected by recursion, so that their number can be had from the cardinality of
a set.

### From source to memory

`ToolchainProofs` proves, for the same constants:

* `ToolImplementsFAsm`: `ToolSpec => Spec`: all of the above holds of the assembler
  within the tool chain;
* `MemoryIsSource`: `ToolSpec => []LoadedAsAssembled`;
* `PartialFileIsSource`: `ToolSpec => []PartialLoad`.

The argument. What the lines have said so far (`assembled`) is what the loader will
make of the records written, with the bytes in the buffer and those still to be
pushed laid over it, in this order (`Rest`). What the loader makes of a file is
defined by recursion over its records, which the provers cannot follow; the
invariant (`Faithful`) only says that there is a chain of images, one in front of
each record, of which each follows from the one before, and that the loader's
memory is one of them. Writing a record makes the chain longer (`ChainGoesOn`);
pushing a byte moves it from one overlay to the other (`OverlayMove`); a line
appends its bytes where the writer is, since `WriterInStep` holds. This needs
addresses that do not wrap around (`Room`), and `Plain` speaks of the addresses of
whole lines only: that no byte of a line is beyond the end follows because lines
are shorter than the memory (`WrapsBelow`). The first version of the model let
lines be of any length, and there the theorem is false: a `.b` with 65536 operands
ends where it began. `FA_LINE_BUFFER_SIZE` is now part of the model.

The theorems about the assembler assume that sources are sequences of lines
(`SourcesAssumption`) and that a record has between 1 and 255 bytes
(`LimitsAssumption`).

### The smart stack

`SmartStackProofs` proves of the hardware stack, for every number of cells from
four that is a power of two and every set of values:

* `TypeCorrect`: `Spec => []TypeOK`;
* `RegistersShowStack`: `Spec => []TempsShowStack`;
* `Implements`: `Spec => IsStackDevice`: the device implements the abstract stack.

The argument. `Cells(m, n)` are the `n` cells below the pointer as a sequence, and
the lemmas about it say what writing a cell or moving the pointer does to that
sequence: `PushedCells`, `CutCells`, `WrittenCells`, `TwoWrittenCells`. The invariant
(`IInv`) adds to the types that fresh registers hold the three topmost cells: a
`SWAP` or `ROLL` writes what was fetched, and implements the abstract one only if
that is still there. Each operation has a lemma (`PushImplements`, ...): if it leaves
the device valid, it is the abstract operation; if it does not, nothing is
promised (`Unpromised`).

### Forth

`ForthProofs` proves of the Forth system, for every vocabulary, program and text
that is typed, for anything that was in memory or in `STATE`, and for stacks of any
size from two:

* `StacksAreGuarded`: `Spec => StacksGuarded`: no word makes `push()` or `pop()`
  fail, except that `@` and `.` may find an empty stack;
* `BootIsTyped`: `BootSpec => []BootTypeOK`: from `ff_reset` on, the context is one
  that the C types allow, and the links lead to headers of known words;
* `DictionaryIsWordList`: `BootSpec => IsWordList`: the dictionary implements the
  abstract list of words: a step declares, opens, closes, marks or forgets the
  newest word, or changes none;
* `CompiledIsKept`: `Spec => CompiledStays`: no word but `!` and `ALLOT` leaves compiled
  code where the next word will be compiled, up to the end of the data space.

`Spec` starts from a system that is booted in any way (`Booted`), so what it implies
holds of every vocabulary; that the bootstrap gets there is model-checked
(`HandsOver`). `BootSpec` is the bootstrap itself and what follows.

The argument for the stacks. `StacksGuarded` is an action property and says what a
step may not record; what makes the next step as careful is the invariant
`Guarded`: the context has its fields, each stack is a sequence shorter than its
size, and no overflow or underflow is on record. What is in the cells does not
matter (`IsSeq`). `Kept` says that a change to any other field leaves it;
`PopGuarded` and `PushGuarded` need a cell, or room for one, and `TakingGuarded` and
`PushingGuarded` are the two tests that words begin with. Each word has a lemma, and
`@` and `.` a weaker one (`Outcome`). `EXECUTE` takes as many cells as there are
`EXECUTE`s on top; that `Depth`, a `CHOOSE`, has a value follows from the least
element of a set of naturals (`Least`).

The argument for types and list. Both need the same strengthening (`IInvB`): besides
the types, every header ends behind its beginning and is linked once (`Rooted`).
Without it, a header that is replaced (`;`, `IMMEDIATE`, `DOES>`) could be that of
an older word too, and a new header at `HERE` could be an old one: `IsFree` keeps
them apart only if no header is empty (`EntryAdded`). That needs a bound on the
length of a word, for the 16 bits of `HERE` not to wrap around within a header
(`NextAbove`); the code's is the size of the word buffer. Most words change nothing
of this, or give up: they are `Idle`, that is `Still` (data space, dictionary and
links as before) or an `Abort` of something still. The words in `Building` store
(`Alike`: dictionary and links as before), or make one move of the list. `Changed`
says both, and `StillMoves` and `MovesStill` carry it over what comes before and
after. `mini_interpret` runs up to three words in one step, so it needs to know
what an `Abort` on the way has left (`Quits`).

The argument for what is compiled. `Stays` says that a word which does not end in
status `wild` keeps everything below `HERE` (`Below`); it follows word by word, from
the same lemmas. `CompileStays` is the heart: where both bytes at `HERE` are kept,
`HERE` lies so far below the stacks that it does not wrap around behind them.
`ELSE` pushes without a test what replaces the cell it has taken; that there is room
is `Guarded` again.

What the proofs have changed: `CompiledStays` was false of `THEN` and `ELSE` behind
`BEGIN`, a pair that no typed line had. `: A BEGIN THEN` fills in the cell at
`HERE`, which is not compiled yet. `FillsIn` now says which addresses the two may
fill in, and this line is among those typed. `HereIsFree` lacked its lower bound,
and operation codes were any strings before they were `T_OpCode`.

### Numbers

`NumbersProofs` proves for every alphabet of bytes and words of any length:

* `ReadersAlwaysAgree`: `Spec => []ReadersAgree`: in base 10, a word that Forth takes
  for a number the assembler takes for the same number;
* `BaseNumeralsAlwaysRead`: `Spec => []BaseNumeralsRead`: a numeral of the document's
  grammar without a prefix is read as what the grammar says it is worth, by Forth in
  every base and by the assembler in base 10;
* `AssemblerAlwaysReadsPrefixed`: `Spec => []AssemblerReadsPrefixed`: the assembler reads
  one with a prefix in the base of that prefix, with its sign.

The argument for agreement. A word without a prefix goes through the same cases in both
programs. With a prefix, they differ in what they do with a minus sign there: the
assembler skips it, Forth hands it to the loop over the digits and tells the loop at the
same time that the number is negative, which makes a minus sign wrong. What is wrong at
one place is wrong at the end (`WrongStays`, by induction along the word), so what Forth
accepts has no such sign (`SecondMinus`), and then both hand the same word to the same
loop. `DigitsWord` and `PNumberWord` say that what is read is a cell or is refused.

The argument for the meaning. The grammar gives a numeral one sum over its places; the
code goes through the digits from the left, multiplies, adds and cuts to 16 bits each
time. The invariant of the loop: what was read, moved to its place, and the digits that
are left, at theirs, are worth the whole modulo 2^16. A turn takes the first of these
places out of the sum (`SumSplits`) and adds its digit to what was read; the carries
that are cut off change nothing (`WrapSame`, `MulRest`).

### What is only model-checked

* Liveness (`RunStops`, `StepReturns`, `Terminates`, `PromptReturns`): out of the
  reach of the provers, as is `ENABLED`.
* Of Forth, what bootstrap compiles is a fixed program: that it comes up
  (`HandsOver`), what its outer interpreter decides (`InterpreterDecides`), where it
  returns to (`ReturnsHome`) and that compiled code computes what it should
  (`CompiledMeaning`) are statements about runs of that program from its first step,
  with the stacks it needs; they are false of other vocabularies and smaller stacks.

## 5. Where code and documents differ

With a run that shows it:

* `LEAVE` (and `NOP`) add 2 to `pc` twice (`fpemu.c:240`): execution goes on two
  bytes behind the return address, and the instruction behind a `NOP` is skipped.
* A processor resumed after an overflow pushes past the size of a stack
  (`fpemu.c:87`).
* An unterminated string makes the assembler loop for ever (`fa.c:2142`).
* `ABORT` takes the newest word out of the dictionary "as it will not be
  complete" (`ff.c:416`). If an immediate word made another one while a definition
  was open, that one goes and the incomplete definition stays.
* `EXECUTE` typed at the prompt does not run a colon definition (`ff.c:953`, `989`).

Met while modelling; the models do what the code does, and no run is spent on
them:

* `not` is assembled as `0xF000`, which is `NEG` (`fa.c:1391`), and `neg` as `NOT`;
  `r` and `c` are exchanged between assembler (`fa.c:33`) and emulator
  (`fpemu.c:29`). `AssembledMeaning` leaves these mnemonics and letters out.
* A `BIF` to a far label is cut to 12 bits in silence (`fa.c:1499`).
* `.w` and `.l` emit nothing and return address 0 (`fa.c:1669`).
* An instruction line with too many words is dropped, although there is a
  message for it (`fa.c:2172`, `2230`).
* A stack operation on an unknown stack is assembled as another instruction:
  the test is against 7, the id is 15 (`fa.c:1419`).
* `enter` and `bif` take labels only, the manual allows addresses (340, 380).
* `r` of the monitor ignores its address (`fpemu.c:749`, help text 798). At the
  end of the input the last command is repeated for ever (`fpemu.c:725`). `d`
  without parameters goes on at twice the distance it has listed
  (`fpemu.c:761`). The help text lists a command `l` that does not exist.
* `ird` is assembled with bit 7, while emulator and disassembler test bit 6;
  `reset` is assembled, but illegal to the emulator; `rd`, `sto` of words and
  longs are not implemented.
* The disassembler adds the `u` to the signed comparisons (`fdisa.c:118`),
  exchanges `lsl` and `lsr`, and prints nothing for `mul` and `lte`. `fdisassem`
  stops before `0xFFFF`.
* `load_hex` does not verify checksums (a TODO of the code), accepts a file
  without its last record, and writes a record that crosses `0xFFFF` behind the
  memory.
* The stack depths of the manual (8, 64, 16, 4) are not those of the emulator
  (16, 32, 32, 16). `.set` is documented but missing; `addu` and `asru` are no
  mnemonics.
* Forth refuses `#9`, its own example of a number (`ff.c:1401`): a single digit
  behind a prefix, and every minus sign there. A lone `-` is 0, `12-3` is 1203, and
  the characters `:` to `?` are digits of bases above 10. The assembler takes `$-`
  for 0, as the test for it names another variable.
* `THEN` and `ELSE` take any address off the control stack: behind `BEGIN` they store
  into the cell at `HERE`, where the next word is compiled (`ff.c:1731`).
* `library.fs:10-11` exchanges the operands of `!` in `]` and `[`: `]` does not set
  `STATE` but writes over the low byte of `HERE`.
* `ff_reset` shall "set the system variables to their default values"
  (`ff.c:296`), but does not set `STATE`. If `malloc` has left 1 there,
  `mini_interpret` compiles the `:` of `interpret.fs` instead of running it, there is
  no `INTERPRET`, and the system does not come up; with the other values of the run
  it does. `HandsOver` states both halves.
* An `IF` without `THEN` jumps to address 0, where a comment (`ff.c:1714`) expects an
  illegal instruction.
* The manual gives the data stack of the hardware eight cells, of which
  `smartstack.v` can use seven. Its header says of `ROLL` "C B A -> A C B"
  (`smartstack.v:11`); the code (122-124) exchanges A and C, which gives A B C.
  `IsStackDevice` holds because `StackDevice` leaves that order open.

## 6. What is not modelled

* the spelling of source lines and listings, terminal input and output, files
  that cannot be opened; how a line is split into words;
* in `load_hex`, lines that are no records and lines that are too short: FAsm
  writes none;
* in Forth V2: what is printed, the end of the terminal's input, the bytes of
  headers, stacks and buffers when a program reads or writes them as memory
  (status `wild`), and `instr_tick` and `instr_word` as words, which no dictionary
  entry has. `DECOMPILE` is assumed to find the end of what it lists;
* Forth V1, the predecessor of V2 with the same words on the same three stacks;
* the editor syntax, makefiles and AF_Forth, which have no behaviour of their
  own.

## 7. Plan

Done, in this order: processor, monitor, disassembler, assembler and toolchain,
as every other part builds on the processor and its programs; then numbers,
Forth V2 with its bootstrap and the abstract word list, and the smart stack with
its abstract device.

Left:

1. Proofs: `ReturnsHome`, which needs to know what the compiled `INTERPRET` is.
2. `Memory`: an abstract store of bytes that `Toolchain` implements.
3. `ForthV1`, where it differs from V2.
