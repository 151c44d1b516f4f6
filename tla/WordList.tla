------------------------------ MODULE WordList ------------------------------
(***************************************************************************)
(* What a Forth programmer is told of the dictionary: it is a stack of     *)
(* words of which only the newest is worked on, and nothing that is done   *)
(* to one word changes another.  CF_Forth_V2 keeps it as headers linked    *)
(* through memory, which compiled code shares.  (An open word may be       *)
(* covered by one that is declared meanwhile.)                             *)
(***************************************************************************)
EXTENDS Sequences

CONSTANT Names

VARIABLES
  words,      \* the words, the newest first
  compiling   \* : was used, and not yet ;

listVars == <<words, compiling>>

\* A word made by : is open until ; closes it.
Word == [name : Names, open : BOOLEAN, immediate : BOOLEAN]

Init == words = <<>> /\ compiling \in BOOLEAN

\* One word is new, and the others are as they were.
Grown == words' # <<>> /\ Tail(words') = words /\ Head(words') \in Word

\* add_core_word and CREATE.
Declare == Grown /\ ~Head(words').open /\ UNCHANGED compiling

\* :
Open == Grown /\ Head(words').open /\ ~Head(words').immediate /\ compiling'

\* ;
Close ==
  /\ words # <<>>
  /\ words' = [words EXCEPT ![1].open = FALSE]
  /\ compiling' = FALSE

\* IMMEDIATE
Mark ==
  /\ words # <<>>
  /\ words' = [words EXCEPT ![1].immediate = TRUE]
  /\ UNCHANGED compiling

\* ABORT: what was begun is forgotten, and only that.
Forget ==
  /\ compiling /\ words # <<>>
  /\ words' = Tail(words)
  /\ compiling' = FALSE

\* STATE is a variable that programs may set.
SetState == compiling' \in BOOLEAN /\ UNCHANGED words

Next == SetState \/ Declare \/ Open \/ Close \/ Mark \/ Forget

Spec == Init /\ [][Next]_listVars
=============================================================================
