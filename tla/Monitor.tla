------------------------------ MODULE Monitor -------------------------------
(***************************************************************************)
(* The interactive monitor of FPEmu/src/fpemu.c (option -m): monitor()     *)
(* reads command lines and sets up, starts and resumes run(), which        *)
(* executes instructions until keep_going is cleared and only then returns *)
(* to the prompt.  The processor is FPEmu's, reset once before the first   *)
(* prompt.                                                                 *)
(*                                                                         *)
(* What the monitor prints (listings, dumps, help) is left out.            *)
(***************************************************************************)
EXTENDS FPEmu

CONSTANTS
  Addresses,       \* the addresses a p command may be given
  MAX_STACK_SIZE,  \* the length of the array a stack is stored in; a push
                   \* beyond it is undefined, and the model stops there
  Window           \* the bound on where the user resumes the processor

ASSUME AddressesAssumption == Addresses \cup Window \subseteq Word
ASSUME MaxStackAssumption ==
  MAX_STACK_SIZE \in Nat /\ \A s \in StackID : StackSize[s] <= MAX_STACK_SIZE

VARIABLES
  mode,      \* "prompt": reading a command, "run": inside run(), "ended"
  line,      \* the line in the command buffer
  command,   \* the command letter in force
  eof        \* has the input ended?

monitorVars == <<vars, mode, line, command, eof>>

\* A line as parse_command_line sees it: the letter of its first complete
\* word, "" for a line without one, and the address behind it.  "?" stands for
\* every letter that is no command.  A p or an r without an address is read as
\* one with the address 0.
Letters == {"r", "d", "x", "h", "p", "n", "q", "?"}
Lines == [op : {""} \cup (Letters \ {"p", "r"}), address : {0}]
           \cup [op : {"p", "r"}, address : Addresses \cup {0}]

MonitorTypeOK ==
  /\ TypeOK
  /\ mode \in {"prompt", "run", "ended"}
  /\ line \in Lines
  /\ command \in Letters
  /\ eof \in BOOLEAN

-----------------------------------------------------------------------------
\* fgets: another line arrives, or the input has ended and the buffer keeps
\* the last line, which the loop then takes for a new one.
Input(l) ==
  \/ ~eof /\ l \in Lines /\ eof' = FALSE
  \/ l = line /\ eof' = TRUE

\* Mutant of Repeatable: the free run is repeated too.
RepeatableAll == {"n", "d", "x", "r"}

\* A line without a word repeats the last command if that is repeatable.
Repeatable == {"n", "d", "x"}

Letter(l) ==
  CASE l.op # ""             -> l.op
    [] l.op = "" /\ command \in Repeatable -> command
    [] OTHER                 -> "h"

\* Mutant of Prompt: the letter of the line is kept instead of the command.
PromptKeepsLine(l, letters) ==
  /\ mode = "prompt"
  /\ Letter(l) \in letters
  /\ Input(l)
  /\ line' = l
  /\ command' = l.op

Prompt(l, letters) ==
  /\ mode = "prompt"
  /\ Letter(l) \in letters
  /\ Input(l)
  /\ line' = l
  /\ command' = Letter(l)

\* The bound of this model on r and n: the user resumes inside Window, and with
\* room left in the arrays.
Resumable ==
  pc \in Window /\ \A s \in StackID : Len(stacks[s]) <= MAX_STACK_SIZE - 2

\* Mutant of Run: the exception is cleared when the processor resumes.
RunClears(l) ==
  /\ Prompt(l, {"r"})
  /\ Resumable
  /\ single_step' = FALSE
  /\ keep_going' = TRUE
  /\ mode' = "run"
  /\ exception' = "AllIsOK"
  /\ UNCHANGED <<memory, pc, instruction, stacks>>

\* Mutant of Run: the flag of an earlier single step stays set.
RunKeepsFlag(l) ==
  /\ Prompt(l, {"r"})
  /\ Resumable
  /\ keep_going' = TRUE
  /\ mode' = "run"
  /\ UNCHANGED <<memory, pc, instruction, stacks, exception, single_step>>

\* r: the address that was given is printed, and pc left where it is.
Run(l) ==
  /\ Prompt(l, {"r"})
  /\ Resumable
  /\ single_step' = FALSE
  /\ keep_going' = TRUE
  /\ mode' = "run"
  /\ UNCHANGED <<memory, pc, instruction, stacks, exception>>

\* n: one turn of run()'s loop.
SingleStep(l) ==
  /\ Prompt(l, {"n"})
  /\ Resumable
  /\ single_step' = TRUE
  /\ keep_going' = TRUE
  /\ mode' = "run"
  /\ UNCHANGED <<memory, pc, instruction, stacks, exception>>

\* p: set the program counter.
SetPC(l) ==
  /\ Prompt(l, {"p"})
  /\ pc' = l.address
  /\ UNCHANGED <<memory, instruction, stacks, keep_going, exception,
                 single_step, mode>>

\* d, x, h and unknown letters only print.
List(l) == Prompt(l, {"d", "x", "h", "?"}) /\ UNCHANGED <<vars, mode>>

Quit(l) == Prompt(l, {"q"}) /\ mode' = "ended" /\ UNCHANGED vars

\* A turn of run()'s loop; the loop is left when keep_going is cleared.
Running ==
  /\ mode = "run"
  /\ Step
  /\ \A s \in StackID : Len(stacks'[s]) <= MAX_STACK_SIZE
  /\ mode' = IF keep_going' THEN "run" ELSE "prompt"
  /\ UNCHANGED <<line, command, eof>>

Command(l) == Run(l) \/ SingleStep(l) \/ SetPC(l) \/ List(l) \/ Quit(l)

MonitorInit ==
  /\ Init
  /\ mode = "prompt"
  /\ line = [op |-> "", address |-> 0]
  /\ command = "h"
  /\ eof = FALSE

MonitorNext == Running \/ \E l \in Lines : Command(l)

MonitorSpec == MonitorInit /\ [][MonitorNext]_monitorVars

\* run() is a loop of the program's own; commands come from outside, and
\* nothing says that they do.
FairMonitorSpec == MonitorSpec /\ WF_monitorVars(Running)

-----------------------------------------------------------------------------
(* Properties.                                                             *)

\* No stack fills up unnoticed: whatever commands were given, a stack at or
\* over its size means that an exception is on record.  It holds because no
\* command clears the exception before it resumes the processor.
OverflowOnRecord ==
  \A s \in StackID : Len(stacks[s]) >= StackSize[s] => exception # "AllIsOK"

\* An exception stays on record until the processor is reset, which the
\* monitor never does: a HALT reached later is reported with it (line 597).
ExceptionSticks ==
  [][exception # "AllIsOK" => exception' # "AllIsOK"]_monitorVars

\* The single_step flag always belongs to the command being carried out: no n
\* leaves it behind for an r, and no r takes it from an n.
StepFlagFollowsCommand ==
  mode = "run" => (single_step <=> command = "n")

\* Only a line that says so resumes the free run, moves pc or ends the
\* monitor: a line without a word repeats no such command, whatever came
\* before it.
EmptyLineIsHarmless ==
  [][line'.op = "" /\ mode = "prompt" =>
       ~(mode' = "run" /\ ~single_step') /\ pc' = pc /\ mode' # "ended"]_monitorVars

\* A single step comes back to the prompt, in whatever loop the program is.
StepReturns == (mode = "run" /\ single_step) ~> mode = "prompt"

\* Manual lines 18-23 give every stack a depth ("The stack depths are: ...").
\* After an overflow the monitor can resume the processor, and push's test
\* for equality does not notice that the stack grows on.
DepthWithinSize == \A s \in StackID : Len(stacks[s]) <= StackSize[s]
=============================================================================
