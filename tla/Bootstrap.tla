----------------------------- MODULE Bootstrap ------------------------------
(***************************************************************************)
(* bootstrap() of CF_Forth_V2/src/ff.c up to its inner interpreter: the    *)
(* words written in C, INTERPRET as mini_interpret compiles it from        *)
(* interpret.fs, four more words, and the text of library.fs in the input  *)
(* buffer.  Then the inner interpreter runs, as ForthV2 specifies it.      *)
(***************************************************************************)
EXTENDS ForthV2

CONSTANT
  Unset   \* what malloc() may have left in STATE

ASSUME UnsetAssumption == Unset \subseteq Word

VARIABLES
  stage,   \* where bootstrap() is
  added    \* the number of words it added with add_core_word

bootVars == <<vars, stage, added>>

\* ff_reset.  It does not set STATE: left is what malloc() left there.  Its last
\* line, a zero behind the variables, is overwritten by the first header.
Reset(left) ==
  [mem     |-> Write(Write(Write([a \in {} |-> 0], FF_LOC_STATE, left),
                           FF_LOC_HERE, FF_SYSTEM_VARIABLES_END),
                     FF_LOC_BASE, 10),
   dict    |-> [e \in {} |-> 0],
   chain   |-> <<>>,
   stacks  |-> [s \in Stacks |-> <<>>],
   ip      |-> 0,
   recover |-> 0,
   input   |-> <<>>,
   word    |-> "",
   status  |-> "run"]

\* The words of bootstrap(): name, opcode, flags.
Plain(name, code)     == <<name, code, {}>>
Compiling(name, code) == <<name, code, {"IMMEDIATE", "COMPILE_ONLY"}>>
Hidden(code)          == <<code, code, {"HIDDEN"}>>

CoreWords == <<
  Plain("CREATE", "CREATE"), Plain("ALLOT", "ALLOT"), Plain("STATE", "STATE"),
  Plain(":", "COLON"), Plain(",", "COMMA"), Plain(".", "DOT"),
  Plain("@", "AT"), Plain("C@", "C_AT"), Plain("EMIT", "EMIT"),
  Plain("PASS", "PASS"), Plain("QUERY", "QUERY"),
  Plain("IMMEDIATE", "IMMEDIATE"), Plain("?IMMEDIATE", "QIMMEDIATE"),
  Plain("FIND", "FIND"), Plain("BYE", "BYE"), Plain("=", "EQUAL"),
  Plain("DUP", "DUP"), Plain("DROP", "DROP"), Plain("(NUMBER)", "BNUMBER"),
  Plain("EXIT", "EXIT"), Plain("EXECUTE", "EXECUTE"),
  Plain("WORDBUFFER", "WORDBUFFER"), Plain("(LITERAL)", "PLITERAL"),
  Plain("ABORT", "ABORT"),
  Compiling(";", "SEMICOLON"), Compiling("BEGIN", "BEGIN"),
  Compiling("AGAIN", "AGAIN"), Compiling("IF", "IF"),
  Compiling("THEN", "THEN"),
  Compiling("ELSE", "ELSE"), Compiling("WHILE", "WHILE"),
  Compiling("REPEAT", "REPEAT"), Compiling("LITERAL", "LITERAL"),
  Compiling("DOES>", "DOES"), <<"(", "PAREN", {"IMMEDIATE"}>>,
  Hidden("PUSH"), Hidden("JUMP"), Hidden("JUMP_IF"), Hidden("DOES_RT") >>

MoreWords == <<
  Plain("BASE", "BASE"), Plain("!", "STORE"), Plain("DECOMPILE", "DECOMPILE"),
  Plain("+", "ADD") >>

\* interpret.fs; the text of a comment is one word here.
InterpretCode == <<
  ":", "INTERPRET", "BEGIN", "FIND", "WORDBUFFER", "C@", "0", "=",
  "IF",
    "(", "...", ")",
    "DROP", "'O'", "EMIT", "'K'", "EMIT", "QUERY",
  "ELSE",
    "DUP", "0", "=",
    "IF",
      "(", "...", ")",
      "DROP", "WORDBUFFER", "(NUMBER)",
      "IF",
        "(", "...", ")",
        "STATE", "@", "IF", "(LITERAL)", "ELSE", "PASS", "THEN",
      "ELSE",
        "(", "...", ")",
        "DROP", "'?'", "EMIT", "ABORT",
      "THEN",
    "ELSE",
      "STATE", "@",
      "IF",
        "(", "...", ")",
        "DUP", "?IMMEDIATE", "IF", "EXECUTE", "ELSE", ",", "THEN",
      "ELSE", "EXECUTE", "THEN",
    "THEN",
  "THEN",
  "AGAIN", ";" >>

\* library.fs.
LibraryCode == <<
  "(", "...", ")",
  ":", "HEX", "#16", "BASE", "!", ";",
  ":", "DECIMAL", "#10", "BASE", "!", ";",
  ":", "SPACE", "#32", "EMIT", ";",
  ":", "CR", "$0D", "EMIT", "$0A", "EMIT", ";",
  ":", "1+", "1", "+", ";",
  ":", "2+", "2", "+", ";",
  ":", "0=", "0", "=", ";",
  ":", "VARIABLE", "CREATE", "2", "ALLOT", ";",
  ":", "]", "STATE", "1", "!", ";", "IMMEDIATE",
  ":", "[", "STATE", "0", "!", ";", "IMMEDIATE",
  ":", "CONSTANT", "CREATE", ",", "DOES>", "@", ";",
  "99", "CONSTANT", "FOO",
  "FOO" >>

\* What add_core_word is given: no word it adds is DIRTY.
CoreWord == Token \X OpCode \X SUBSET (Flag \ {"DIRTY"})

\* The lines of code and the names of the words are words that can be read.
ASSUME VocabularyAssumption ==
  /\ CoreWords \in Seq(CoreWord) /\ MoreWords \in Seq(CoreWord)
  /\ InterpretCode \in Seq(Token) /\ LibraryCode \in Seq(Token)

-----------------------------------------------------------------------------
BootInit ==
  /\ \E left \in Unset : context = Reset(left)
  /\ typed = 0
  /\ asked = Unasked(context)
  /\ stage = "core"
  /\ added = 0

\* add_core_word: the flags replace those add_dict_entry has set.
AddCoreWord ==
  /\ stage \in {"core", "more"}
  /\ added < Len(CoreWords \o MoreWords)
  /\ stage = "core" => added < Len(CoreWords)
  /\ LET w == (CoreWords \o MoreWords)[added + 1]
     IN  context' = AddEntry(context, Header(w[1], w[2], w[3], 0))
  /\ added' = added + 1
  /\ UNCHANGED <<typed, asked, stage>>

PasteInterpret ==
  /\ stage = "core" /\ added = Len(CoreWords)
  /\ context' = [context EXCEPT !.input = InterpretCode]
  /\ stage' = "mini"
  /\ UNCHANGED <<typed, asked, added>>

\* One round of mini_interpret.  The value of STATE is read before the word.
\* The assertion of pop fails if FIND had no room for what it found.
MiniRound(c) ==
  LET compiling == State(c) = 1
      found     == Find(c)
      w         == First(found)
      rest      == Less(found)
      number    == Drop(Number(Put(rest, FF_LOC_WORD_BUFFER)))
      back      == Put(rest, w)
  IN  IF rest.word = "" \/ IsEmpty(found, "data") THEN rest
      ELSE IF w = 0
        THEN IF compiling THEN CompileLiteral(number) ELSE Stop(c, "assert")
      ELSE IF compiling /\ "IMMEDIATE" \notin back.dict[w].flags
        THEN Comma(back)
      ELSE Execute(back, <<>>)

MiniInterpret ==
  /\ stage = "mini" /\ Running
  /\ context' = MiniRound(context)
  /\ stage' = IF context'.word = "" THEN "more" ELSE "mini"
  /\ UNCHANGED <<typed, asked, added>>

\* Mutant of Start: where ABORT goes back to is not set.
StartOnly ==
  /\ stage = "more" /\ added = Len(CoreWords \o MoreWords)
  /\ LET word == Lookup(context, "INTERPRET")
     IN  context' = IF word = 0 THEN Stop(context, "wild")
                    ELSE [context EXCEPT !.ip = ParameterField(context, word),
                            !.word = "INTERPRET", !.input = LibraryCode]
  /\ stage' = "run"
  /\ UNCHANGED <<typed, asked, added>>

\* The inner interpreter starts at INTERPRET, and ABORT will go back there.
Start ==
  /\ stage = "more" /\ added = Len(CoreWords \o MoreWords)
  /\ LET word  == Lookup(context, "INTERPRET")
         start == ParameterField(context, word)
     IN  context' = IF word = 0 THEN Stop(context, "wild")
                    ELSE [context EXCEPT !.ip = start, !.recover = start,
                            !.word = "INTERPRET", !.input = LibraryCode]
  /\ stage' = "run"
  /\ UNCHANGED <<typed, asked, added>>

Run == stage = "run" /\ Next /\ UNCHANGED <<stage, added>>

BootNext == AddCoreWord \/ PasteInterpret \/ MiniInterpret \/ Start \/ Run

BootSpec == BootInit /\ [][BootNext]_bootVars

\* bootstrap() stopped, or waits for a line.
Waiting ==
  \/ stage \in {"mini", "run"} /\ ~Running
  \/ stage = "run" /\ AtWork(context) = "QUERY"

\* A turn that leads to where it began: the loop goes on for ever in place.
\* Only a jump, and ABORT at the place it goes to, can do that.
Spinning ==
  /\ stage = "run" /\ Running /\ AtWork(context) # "QUERY"
  /\ \/ context.ip = context.recover
     \/ Opcode(context) = "JUMP"
  /\ Turn(context, <<>>) = context

\* bootstrap() is sequential: it goes on unless it waits.  This is weak
\* fairness of every step but Terminal, with the states spelled out where no
\* such step changes anything.
FairBootSpec ==
  BootSpec /\ ([]<>(Waiting \/ Spinning) \/ []<><<TRUE>>_bootVars)

-----------------------------------------------------------------------------
(* Properties.                                                             *)

\* The one type invariant of the system: IsContext, and the bootstrap.
BootTypeOK ==
  /\ IsContext(context)
  /\ typed \in 0 .. MaxLines
  /\ stage \in {"core", "mini", "more", "run"}
  /\ added \in 0 .. Len(CoreWords \o MoreWords)

\* bootstrap() enters the loop in the state that ForthV2 starts from, whatever
\* malloc() has left in STATE, but for the one value that means compiling: then
\* mini_interpret compiles the : it should run, and there is no INTERPRET.
HandsOver ==
  [][ stage # "run" /\ stage' = "run" =>
        (Booted(context') <=> asked.state # 1) ]_bootVars

\* Code of INTERPRET is about to be run.
InInterpret ==
  /\ stage = "run" /\ Running /\ context.recover <= context.ip
  /\ ~\E e \in DOMAIN context.dict : context.recover < e /\ e <= context.ip

\* The words at which its branches end.
Decisive == {"QUERY", "EXECUTE", "COMMA", "PLITERAL", "PASS", "ABORT"}

\* When INTERPRET may come to one of them, w being what the dictionary
\* has for the word that was read, and n the number that it is.
Decision(c, code, w, n) ==
  CASE code = "QUERY"    -> c.word = ""
    [] code = "EXECUTE"  -> /\ w # 0 /\ First(c) = w
                            /\ State(c) = 0 \/ "IMMEDIATE" \in c.dict[w].flags
    [] code = "COMMA"    -> /\ w # 0 /\ First(c) = w /\ State(c) # 0
                            /\ "IMMEDIATE" \notin c.dict[w].flags
    [] code = "PLITERAL" -> w = 0 /\ n # Wrong /\ First(c) = n /\ State(c) # 0
    [] code = "PASS"     -> w = 0 /\ n # Wrong /\ First(c) = n /\ State(c) = 0
    [] code = "ABORT"    -> w = 0 /\ n = Wrong

\* INTERPRET is Forth code that mini_interpret has compiled from interpret.fs.
\* Whatever was typed, each of its branches leads to the word that the
\* comments there announce, on the entry or the number it was read for.
InterpreterDecides ==
  Opcode(context) \in Decisive /\ InInterpret =>
    Decision(context, Opcode(context), Lookup(context, context.word),
             IF context.word = "" THEN Wrong
             ELSE PNumber(Spelling[context.word], Base(context)))

\* At each prompt of INTERPRET every word that was entered has come back or
\* was given up, by its end, an error or ABORT.  (Not one that is entered by an
\* EXECUTE typed at the prompt: TokenExecuted in module MCForth.)
ReturnsHome == stage = "run" /\ AtPrompt => IsEmpty(context, "return")

\* bootstrap() and every line come to an end at a prompt, or end the program:
\* a loop that fills a stack, and words that call themselves, are given up.
PromptReturns ==
  TRUE ~> (stage = "run" /\ Waiting)

\* The dictionary in memory is the stack of words of module WordList.
List == INSTANCE WordList WITH
  Names     <- Token,
  words     <- [k \in 1 .. Len(context.chain) |->
                  LET h == context.dict[context.chain[k]]
                  IN  [name      |-> h.name,
                       open      |-> "DIRTY" \in h.flags,
                       immediate |-> "IMMEDIATE" \in h.flags]],
  compiling <- State(context) = 1
IsWordList == List!Spec
=============================================================================
