------------------------------ MODULE MCForth -------------------------------
(***************************************************************************)
(* Instances of Bootstrap for TLC: the whole of bootstrap(), then lines of *)
(* source text, each followed by every other.                              *)
(***************************************************************************)
EXTENDS Bootstrap, TLC

MCSpelling ==
  "CREATE" :> <<67, 82, 69, 65, 84, 69>> @@
  "ALLOT" :> <<65, 76, 76, 79, 84>> @@ "STATE" :> <<83, 84, 65, 84, 69>> @@
  ":" :> <<58>> @@ "," :> <<44>> @@ "." :> <<46>> @@ "@" :> <<64>> @@
  "C@" :> <<67, 64>> @@ "EMIT" :> <<69, 77, 73, 84>> @@
  "PASS" :> <<80, 65, 83, 83>> @@ "QUERY" :> <<81, 85, 69, 82, 89>> @@
  "IMMEDIATE" :> <<73, 77, 77, 69, 68, 73, 65, 84, 69>> @@
  "?IMMEDIATE" :> <<63, 73, 77, 77, 69, 68, 73, 65, 84, 69>> @@
  "FIND" :> <<70, 73, 78, 68>> @@ "BYE" :> <<66, 89, 69>> @@ "=" :> <<61>> @@
  "DUP" :> <<68, 85, 80>> @@ "DROP" :> <<68, 82, 79, 80>> @@
  "(NUMBER)" :> <<40, 78, 85, 77, 66, 69, 82, 41>> @@
  "EXIT" :> <<69, 88, 73, 84>> @@
  "EXECUTE" :> <<69, 88, 69, 67, 85, 84, 69>> @@
  "WORDBUFFER" :> <<87, 79, 82, 68, 66, 85, 70, 70, 69, 82>> @@
  "(LITERAL)" :> <<40, 76, 73, 84, 69, 82, 65, 76, 41>> @@
  "ABORT" :> <<65, 66, 79, 82, 84>> @@ ";" :> <<59>> @@
  "BEGIN" :> <<66, 69, 71, 73, 78>> @@ "AGAIN" :> <<65, 71, 65, 73, 78>> @@
  "IF" :> <<73, 70>> @@ "THEN" :> <<84, 72, 69, 78>> @@
  "ELSE" :> <<69, 76, 83, 69>> @@ "WHILE" :> <<87, 72, 73, 76, 69>> @@
  "REPEAT" :> <<82, 69, 80, 69, 65, 84>> @@
  "LITERAL" :> <<76, 73, 84, 69, 82, 65, 76>> @@
  "DOES>" :> <<68, 79, 69, 83, 62>> @@ "(" :> <<40>> @@
  "PUSH" :> <<80, 85, 83, 72>> @@ "JUMP" :> <<74, 85, 77, 80>> @@
  "JUMP_IF" :> <<74, 85, 77, 80, 95, 73, 70>> @@
  "DOES_RT" :> <<68, 79, 69, 83, 95, 82, 84>> @@
  "BASE" :> <<66, 65, 83, 69>> @@ "!" :> <<33>> @@
  "DECOMPILE" :> <<68, 69, 67, 79, 77, 80, 73, 76, 69>> @@ "+" :> <<43>> @@
  "INTERPRET" :> <<73, 78, 84, 69, 82, 80, 82, 69, 84>> @@ "0" :> <<48>> @@
  "..." :> <<46, 46, 46>> @@ ")" :> <<41>> @@ "'O'" :> <<39, 79, 39>> @@
  "'K'" :> <<39, 75, 39>> @@ "'?'" :> <<39, 63, 39>> @@
  "HEX" :> <<72, 69, 88>> @@ "#16" :> <<35, 49, 54>> @@
  "DECIMAL" :> <<68, 69, 67, 73, 77, 65, 76>> @@ "#10" :> <<35, 49, 48>> @@
  "SPACE" :> <<83, 80, 65, 67, 69>> @@ "#32" :> <<35, 51, 50>> @@
  "CR" :> <<67, 82>> @@ "$0D" :> <<36, 48, 68>> @@ "$0A" :> <<36, 48, 65>> @@
  "1+" :> <<49, 43>> @@ "1" :> <<49>> @@ "2+" :> <<50, 43>> @@
  "2" :> <<50>> @@ "0=" :> <<48, 61>> @@
  "VARIABLE" :> <<86, 65, 82, 73, 65, 66, 76, 69>> @@ "]" :> <<93>> @@
  "[" :> <<91>> @@ "CONSTANT" :> <<67, 79, 78, 83, 84, 65, 78, 84>> @@
  "99" :> <<57, 57>> @@ "FOO" :> <<70, 79, 79>> @@ "A" :> <<65>> @@
  "B" :> <<66>> @@ "L" :> <<76>> @@ "V" :> <<86>> @@ "K" :> <<75>> @@
  "T" :> <<84>> @@ "3" :> <<51>> @@ "OOPS" :> <<79, 79, 80, 83>> @@
  "-6" :> <<45, 54>> @@ "10" :> <<49, 48>> @@ "MK" :> <<77, 75>>

\* INTERPRET needs five cells of the control stack; the program has room for 20
\* cells there, 32 on the data stack and 24 on the return stack.
MCStackSize == ("control" :> 6) @@ ("data" :> 9) @@ ("return" :> 7)

\* Memory before anything is stored, and STATE: interpreting, compiling, and
\* the two that share a byte with compiling.
MCGarbage == [a \in 0 .. FF_MEMORY_SIZE - 1 |-> (7 * a + 165) % 256]
MCUnset   == {0, 1, 256, 257}

-----------------------------------------------------------------------------
(* Definitions with a structured body, and what Forth says they do.  An    *)
(* item of a body is a word, or IF with its two parts (ELSE is left out    *)
(* where the second is empty).                                             *)

Do(w)        == <<w>>
IfElse(y, n) == <<"IF", y, n>>

RECURSIVE Text(_)
Text(body) ==
  IF body = <<>> THEN <<>>
  ELSE LET i == Head(body)
       IN (IF Len(i) = 1 THEN i
           ELSE <<"IF">> \o Text(i[2])
                \o (IF i[3] = <<>> THEN <<>> ELSE <<"ELSE">> \o Text(i[3]))
                \o <<"THEN">>) \o Text(Tail(body))

\* A stack that has too few cells for a word, or no room for what it leaves.
Aborted == [abort |-> TRUE, data |-> <<>>]
Good(d) == [abort |-> FALSE, data |-> d]
Room(d, n) == Len(d) + n < StackSize["data"]

WordEffect(w, d) ==
  CASE w = "DUP" /\ d # <<>> /\ Room(d, 1) -> Good(<<Head(d)>> \o d)
    [] w = "DROP" /\ d # <<>>              -> Good(Tail(d))
    [] w = "+" /\ Len(d) >= 2 ->
         Good(<<Wrap(d[1] + d[2])>> \o SubSeq(d, 3, Len(d)))
    [] w = "0" /\ Room(d, 1) -> Good(<<0>> \o d)
    [] w = "1" /\ Room(d, 1) -> Good(<<1>> \o d)
    [] w = "3" /\ Room(d, 1) -> Good(<<3>> \o d)
    [] OTHER -> Aborted

RECURSIVE Effect(_, _)
Effect(body, r) ==
  IF body = <<>> \/ r.abort THEN r
  ELSE LET i == Head(body)
           next == CASE Len(i) = 1 -> WordEffect(i[1], r.data)
                     [] Len(i) # 1 /\ r.data = <<>> -> Aborted
                     [] Len(i) # 1 /\ r.data # <<>> ->
                          Effect(IF Head(r.data) # 0 THEN i[2] ELSE i[3],
                                 Good(Tail(r.data)))
       IN  Effect(Tail(body), next)

Simple == IfElse(<<Do("3")>>, <<Do("DROP")>>)
Choice ==
  {IfElse(<<Do("DUP"), Do("+")>>, <<>>), Simple,
   IfElse(<<Do("0"), IfElse(<<>>, <<Do("1")>>)>>, <<Do("DUP")>>)}
Bodies ==
  {<<Do(c), i>> : c \in {"0", "1"}, i \in Choice}
    \cup {<<Simple>>, <<Do("1"), Simple, Do("+"), Simple>>}

Defining(body) == <<":", "T">> \o Text(body) \o <<";", "T">>
Definitions == {Defining(b) : b \in Bodies}

\* Lines that enter, leave and misuse what the system has.
OtherLines == {
  <<"DROP">>, <<"@">>, <<".">>, <<"3", "DUP", "3", "=">>, <<"FOO", "1">>,
  <<"1", "1", "1", "1", "1", "1", "1">>,
  <<":", "A", "A", ";", "A">>, <<":", "L", "BEGIN", "1", "AGAIN", ";", "L">>,
  <<"10", ":", "A", "OOPS">>, <<"OOPS", "1">>, <<":">>, <<"CREATE">>,
  <<":", "B", "1">>, <<"THEN", ";">>, <<"1", "IF">>, <<"AGAIN">>, <<"ELSE">>,
  <<"VARIABLE", "V", "3", "V", "!", "V", "@">>, <<"1", "CONSTANT", "K", "K">>,
  <<"HEX", "-6", "-6", "+", ".">>, <<"0", "BASE", "!", "1", "DUP", ".">>,
  <<"(", "(NUMBER)", "1">>, <<"(", "1">>, <<"1", "ALLOT", "-6", "ALLOT">>,
  <<"1", ":", "A", "LITERAL", ";", "A">>, <<"CREATE", "A", "DOES>", "A">>,
  <<"FIND", "DUP", "?IMMEDIATE", "FIND", "FOO", "DECOMPILE">>, <<"WHILE">>,
  <<":", "A", "BEGIN", "THEN", ";">>,
  <<"EXIT">>, <<"1", "ABORT", "1">>, <<"]", "1">>, <<"QUERY">>, <<"BYE">>,
  <<":", "MK", "CREATE", ";", "IMMEDIATE">>, <<":", "A", "MK", "B", "OOPS">> }

MCLines == Definitions \cup OtherLines

\* A data stack that leaves INTERPRET the three cells it uses itself.
Usable(d) == Room(d, 3)

\* A definition that is typed at the prompt of the interpreting system, in a
\* base that has its digits, and then run, has the effect Forth gives its
\* body: the code of IF, ELSE, THEN, LITERAL, : and ; and the inner
\* interpreter that runs it, and ABORT where a word of the body fails.
CompiledMeaning ==
  stage = "run" /\ AtPrompt /\ asked.line \in Definitions /\ asked.state = 0
    /\ asked.base \in {10, 16} /\ Usable(asked.data) =>
    LET body == CHOOSE b \in Bodies : Defining(b) = asked.line
        r    == Effect(body, Good(asked.data))
    IN  Data(context) = IF Usable(r.data) THEN r.data ELSE <<>>

-----------------------------------------------------------------------------
(* What the comments of ff.c say, and the code does not do.                *)

\* A word that makes words while another one is compiled.
NestedLines == {
  <<":", "MK", "CREATE", ";", "IMMEDIATE">>, <<":", "A", "MK", "B", "OOPS">> }

\* ff.c:415: the word that is being compiled when something fails is scrubbed,
\* "as it will not be complete".  ABORT takes out the newest word instead, and
\* that may be another: then the incomplete word stays, and FIND finds it.
IncompleteScrubbed ==
  stage = "run" /\ AtPrompt /\ State(context) = 0 =>
    \A k \in 1 .. Len(context.chain) :
      "DIRTY" \notin context.dict[context.chain[k]].flags

\* A word, and EXECUTE for its execution token.
ExecuteLines == {<<":", "A", "1", ";">>, <<"FIND", "A", "EXECUTE">>}

\* ff.c:953: "Execute the word indicated by the execution token."  Typed at
\* the prompt EXECUTE is run by the EXECUTE of INTERPRET, which goes on behind
\* itself: the word is entered on the return stack, but never run.
TokenExecuted ==
  stage = "run" /\ AtPrompt /\ asked.line = <<"FIND", "A", "EXECUTE">> =>
    Data(context) = <<1>> \o asked.data
=============================================================================
