---------------------------- MODULE ForthProofs ----------------------------
(***************************************************************************)
(* For every dictionary, data space and program, and stacks of any size:   *)
(*                                                                         *)
(* The words of CF_Forth_V2 written in C never make push() or pop() fail,  *)
(* except that @ and . may find an empty stack.  Only the lengths of the   *)
(* stacks matter to that, whatever is in them (StacksAreGuarded).          *)
(*                                                                         *)
(* The context is always one that the C types allow (BootIsTyped), and the *)
(* dictionary is the list of words that module WordList describes          *)
(* (DictionaryIsWordList).  A word is shown to leave the dictionary and    *)
(* the data space alone (Still, or Idle if it may give up), to leave the   *)
(* dictionary alone (Alike), or to make one move of the list (Changed).    *)
(*                                                                         *)
(* What is compiled stays below HERE (CompiledIsKept).                     *)
(***************************************************************************)
EXTENDS Bootstrap, WordsTheorems, SequenceTheorems

-----------------------------------------------------------------------------
(* Sequences of anything.                                                  *)

IsSeq(q) == \E S : q \in Seq(S)

LEMMA NoCells ==
  ASSUME NEW q, q = <<>>
  PROVE  IsSeq(q) /\ Len(q) = 0
<1>1. q \in Seq({})
  OBVIOUS
<1>2. IsSeq(q)
  BY <1>1, Zenon DEF IsSeq
<1>3. Len(q) = 0
  OBVIOUS
<1> QED
  BY <1>2, <1>3, Zenon

LEMMA SeqLength ==
  ASSUME NEW q, IsSeq(q)
  PROVE  Len(q) \in Nat /\ (q = <<>> <=> Len(q) = 0)
<1>1. PICK S : q \in Seq(S)
  BY DEF IsSeq
<1> QED
  BY <1>1

LEMMA LongerSeq ==
  ASSUME NEW q, IsSeq(q), NEW v
  PROVE  IsSeq(<<v>> \o q) /\ Len(<<v>> \o q) = Len(q) + 1
<1>1. PICK S : q \in Seq(S)
  BY DEF IsSeq
<1> DEFINE U == S \cup {v}
<1>2. q \in Seq(U)
  BY <1>1
<1>3. <<v>> \in Seq(U) /\ Len(<<v>>) = 1
  OBVIOUS
<1> HIDE DEF U
<1>4. <<v>> \o q \in Seq(U) /\ Len(<<v>> \o q) = Len(<<v>>) + Len(q)
  BY <1>2, <1>3, ConcatProperties
<1>5. Len(q) \in Nat
  BY <1>1
<1> QED
  BY <1>3, <1>4, <1>5 DEF IsSeq

LEMMA ShorterSeq ==
  ASSUME NEW q, IsSeq(q), q # <<>>
  PROVE  IsSeq(Tail(q)) /\ Len(Tail(q)) = Len(q) - 1
<1>1. PICK S : q \in Seq(S)
  BY DEF IsSeq
<1>2. Tail(q) \in Seq(S) /\ Len(Tail(q)) = Len(q) - 1
  BY <1>1, HeadTailProperties
<1> QED
  BY <1>2 DEF IsSeq

LEMMA CutSeq ==
  ASSUME NEW q, IsSeq(q), NEW k \in 1 .. Len(q)
  PROVE  /\ IsSeq(SubSeq(q, k + 1, Len(q)))
         /\ Len(SubSeq(q, k + 1, Len(q))) < Len(q)
<1>1. PICK S : q \in Seq(S)
  BY DEF IsSeq
<1>2. Len(q) \in Nat /\ \A i \in k + 1 .. Len(q) : q[i] \in S
  BY <1>1
<1>3. /\ SubSeq(q, k + 1, Len(q)) \in Seq(S)
      /\ Len(SubSeq(q, k + 1, Len(q)))
           = IF k + 1 <= Len(q) THEN Len(q) - (k + 1) + 1 ELSE 0
  BY <1>2, SubSeqProperties
<1> QED
  BY <1>2, <1>3 DEF IsSeq

-----------------------------------------------------------------------------
(* Contexts whose stacks are not full, and what keeps them so.             *)

Guarded(c) ==
  /\ DOMAIN c = ContextField
  /\ DOMAIN c.stacks = Stacks
  /\ \A s \in Stacks : IsSeq(c.stacks[s]) /\ Len(c.stacks[s]) < StackSize[s]
  /\ c.status \notin {"overflow", "underflow"}

\* d is such a context, with the stacks of c.
Kept(c, d) == Guarded(d) /\ d.stacks = c.stacks

LEMMA GuardedLength ==
  ASSUME NEW c, Guarded(c), NEW s \in Stacks
  PROVE  /\ Len(c.stacks[s]) \in Nat
         /\ Len(c.stacks[s]) < StackSize[s]
         /\ IsEmpty(c, s) <=> Len(c.stacks[s]) = 0
BY SeqLength DEF Guarded, IsEmpty

\* Changes elsewhere in the context.
LEMMA EditKept ==
  ASSUME NEW c, Guarded(c), NEW d, DOMAIN d = ContextField,
         d.stacks = c.stacks, d.status = c.status
  PROVE  Kept(c, d)
BY DEF Guarded, Kept

LEMMA StopKept ==
  ASSUME NEW c, Guarded(c), NEW how, how \notin {"overflow", "underflow"}
  PROVE  Kept(c, Stop(c, how))
BY DEF Guarded, Kept, Stop, ContextField

LEMMA KeptTrans ==
  ASSUME NEW c, NEW d, NEW e, Kept(c, d), Kept(d, e)
  PROVE  Kept(c, e)
BY DEF Kept

LEMMA KeptSelf == ASSUME NEW c, Guarded(c) PROVE Kept(c, c)
BY DEF Kept

LEMMA IpKept ==
  ASSUME NEW c, Guarded(c), NEW a
  PROVE  Kept(c, [c EXCEPT !.ip = a])
<1>1. DOMAIN c = ContextField
  BY DEF Guarded
<1> QED
  BY <1>1, EditKept DEF ContextField

LEMMA ContinueKept == ASSUME NEW c, Guarded(c) PROVE Kept(c, Continue(c))
BY IpKept DEF Continue

LEMMA StoreKept ==
  ASSUME NEW c, Guarded(c), NEW a, NEW v
  PROVE  Kept(c, Store(c, a, v))
<1>1. DOMAIN c = ContextField
  BY DEF Guarded
<1>2. \A m : Kept(c, [c EXCEPT !.mem = m])
  BY <1>1, EditKept DEF ContextField
<1>3. Kept(c, Stop(c, "wild"))
  BY StopKept
<1> QED
  BY <1>2, <1>3 DEF Store

LEMMA CompileKept ==
  ASSUME NEW c, Guarded(c), NEW cells
  PROVE  Kept(c, Compile(c, cells))
<1> DEFINE first == Store(c, Here(c), cells[1])
           all   == IF Len(cells) = 1 THEN first
                    ELSE Store(first, Wrap(Here(c) + 2), cells[2])
<1>1. Kept(c, first)
  BY StoreKept
<1>2. Kept(first, Store(first, Wrap(Here(c) + 2), cells[2]))
  BY <1>1, StoreKept DEF Kept
<1>3. Kept(c, all)
  BY <1>1, <1>2, KeptTrans
<1>4. Compile(c, cells)
        = Store(all, FF_LOC_HERE, Wrap(Here(c) + 2 * Len(cells)))
  BY DEF Compile
<1> HIDE DEF first, all
<1>5. \A a, v : Kept(all, Store(all, a, v))
  BY <1>3, StoreKept DEF Kept
<1> QED
  BY <1>3, <1>4, <1>5, KeptTrans

LEMMA EntryKept ==
  ASSUME NEW c, Guarded(c), NEW header
  PROVE  Kept(c, AddEntry(c, header))
<1>1. DOMAIN c = ContextField
  BY DEF Guarded
<1>2. ASSUME NEW words, NEW links
      PROVE  Kept(c, [c EXCEPT !.dict = words, !.chain = links])
  <2> DEFINE e == [c EXCEPT !.dict = words, !.chain = links]
  <2>1. DOMAIN e = ContextField
    BY <1>1
  <2>2. e.stacks = c.stacks /\ e.status = c.status
    BY <1>1 DEF ContextField
  <2> HIDE DEF e
  <2>3. Kept(c, e)
    BY <2>1, <2>2, EditKept
  <2> QED
    BY <2>3 DEF e
<1> DEFINE new   == Here(c)
           next  == Align(Wrap(new + 12 + Count[header.name]))
           dict  == [e \in DOMAIN c.dict \cup {new} |->
                       IF e = new THEN header ELSE c.dict[e]]
           chain == <<new>> \o c.chain
           d     == [c EXCEPT !.dict = dict, !.chain = chain]
<1>3. AddEntry(c, header) = IF IsFree(c, new, next)
                              THEN Store(d, FF_LOC_HERE, next)
                              ELSE Stop(c, "wild")
  BY DEF AddEntry
<1>4. Kept(c, d)
  BY <1>2
<1>5. Kept(c, Stop(c, "wild"))
  BY StopKept
<1> HIDE DEF new, next, dict, chain, d
<1>6. Kept(d, Store(d, FF_LOC_HERE, next))
  BY <1>4, StoreKept DEF Kept
<1> QED
  BY <1>3, <1>4, <1>5, <1>6, KeptTrans

LEMMA HeadKept ==
  ASSUME NEW c, Guarded(c), NEW header
  PROVE  Kept(c, SetHead(c, header))
<1>1. DOMAIN c = ContextField
  BY DEF Guarded
<1>2. \A dict : Kept(c, [c EXCEPT !.dict = dict])
  BY <1>1, EditKept DEF ContextField
<1>3. Kept(c, Stop(c, "wild"))
  BY StopKept
<1> QED
  BY <1>2, <1>3 DEF SetHead

LEMMA ParseKept == ASSUME NEW c, Guarded(c) PROVE Kept(c, Parse(c))
<1>1. DOMAIN c = ContextField
  BY DEF Guarded
<1>2. ASSUME NEW w, NEW i
      PROVE  Kept(c, [c EXCEPT !.word = w, !.input = i])
  <2> DEFINE d == [c EXCEPT !.word = w, !.input = i]
  <2>1. DOMAIN d = ContextField /\ d.stacks = c.stacks /\ d.status = c.status
    BY <1>1 DEF ContextField
  <2> HIDE DEF d
  <2>2. Kept(c, d)
    BY <2>1, EditKept
  <2> QED
    BY <2>2 DEF d
<1>3. \A w : Kept(c, [c EXCEPT !.word = w])
  BY <1>1, EditKept DEF ContextField
<1> QED
  BY <1>2, <1>3 DEF Parse

\* Changes of one stack.  The words test before they pop or push; this is what
\* the tests are good for.
Others(c, d, s) == \A t \in Stacks \ {s} : d.stacks[t] = c.stacks[t]

LEMMA PopGuarded ==
  ASSUME NEW c, Guarded(c), NEW s \in Stacks, Len(c.stacks[s]) > 0
  PROVE  /\ Guarded(Pop(c, s)) /\ Others(c, Pop(c, s), s)
         /\ Len(Pop(c, s).stacks[s]) = Len(c.stacks[s]) - 1
<1> DEFINE q == c.stacks[s]
           d == Pop(c, s)
<1>1. /\ IsSeq(q) /\ q # <<>> /\ Len(q) \in Nat /\ Len(q) < StackSize[s]
      /\ StackSize[s] \in Nat
  BY SeqLength, StackSizeAssumption DEF Guarded
<1>2. IsSeq(Tail(q)) /\ Len(Tail(q)) = Len(q) - 1
  BY <1>1, ShorterSeq
<1>3. DOMAIN c = ContextField /\ DOMAIN c.stacks = Stacks
  BY DEF Guarded
<1>4. d = [c EXCEPT !.stacks[s] = Tail(q)]
  BY <1>1 DEF Pop, IsEmpty
<1>5. /\ DOMAIN d = ContextField /\ DOMAIN d.stacks = Stacks
      /\ d.stacks[s] = Tail(q) /\ d.status = c.status
      /\ \A t \in Stacks \ {s} : d.stacks[t] = c.stacks[t]
  BY <1>3, <1>4 DEF ContextField
<1> HIDE DEF q, d
<1>6. Len(Tail(q)) < StackSize[s]
  BY <1>1, <1>2
<1>7. \A t \in Stacks : IsSeq(d.stacks[t]) /\ Len(d.stacks[t]) < StackSize[t]
  BY <1>2, <1>5, <1>6 DEF Guarded
<1> QED
  BY <1>2, <1>5, <1>7 DEF Guarded, Others, q, d

LEMMA PushGuarded ==
  ASSUME NEW c, Guarded(c), NEW s \in Stacks, NEW v,
         Len(c.stacks[s]) + 1 < StackSize[s]
  PROVE  /\ Guarded(Push(c, s, v)) /\ Others(c, Push(c, s, v), s)
         /\ Len(Push(c, s, v).stacks[s]) = Len(c.stacks[s]) + 1
<1> DEFINE q == c.stacks[s]
           e == [c EXCEPT !.stacks[s] = <<v>> \o q]
           d == Push(c, s, v)
<1>1. IsSeq(q) /\ Len(q) \in Nat /\ StackSize[s] \in Nat
  BY SeqLength, StackSizeAssumption DEF Guarded
<1>2. IsSeq(<<v>> \o q) /\ Len(<<v>> \o q) = Len(q) + 1
  BY <1>1, LongerSeq
<1>3. DOMAIN c = ContextField /\ DOMAIN c.stacks = Stacks
  BY DEF Guarded
<1>4. /\ DOMAIN e = ContextField /\ DOMAIN e.stacks = Stacks
      /\ e.stacks[s] = <<v>> \o q /\ e.status = c.status
      /\ \A t \in Stacks \ {s} : e.stacks[t] = c.stacks[t]
  BY <1>3 DEF ContextField
<1>5. d = IF Len(e.stacks[s]) = StackSize[s] THEN Stop(e, "overflow") ELSE e
  BY DEF Push
<1> HIDE DEF e, d
<1>6. Len(e.stacks[s]) < StackSize[s] /\ Len(e.stacks[s]) = Len(q) + 1
  BY <1>2, <1>4
<1>7. d = e
  BY <1>1, <1>5, <1>6
<1>8. \A t \in Stacks : IsSeq(e.stacks[t]) /\ Len(e.stacks[t]) < StackSize[t]
  BY <1>2, <1>4, <1>6 DEF Guarded
<1> QED
  BY <1>4, <1>6, <1>7, <1>8 DEF Guarded, Others, d

LEMMA AbortGuarded == ASSUME NEW c, Guarded(c) PROVE Guarded(Abort(c))
<1> DEFINE d == [c EXCEPT !.input = <<>>, !.ip = c.recover,
                          !.stacks = [s \in Stacks |-> <<>>]]
           e == [d EXCEPT !.chain = Tail(d.chain)]
<1>1. DOMAIN c = ContextField
  BY DEF Guarded
<1>2. /\ DOMAIN d = ContextField /\ d.stacks = [s \in Stacks |-> <<>>]
      /\ d.status = c.status
  BY <1>1 DEF ContextField
<1>3. \A s \in Stacks : StackSize[s] \in Nat /\ 0 < StackSize[s]
  BY StackSizeAssumption
<1>4. Guarded(d)
  <2> HIDE DEF d, e
  <2>1. \A s \in Stacks : d.stacks[s] = <<>> /\ StackSize[s] > 0
    BY <1>2, <1>3
  <2>2. DOMAIN d.stacks = Stacks
    BY <1>2
  <2>3. \A s \in Stacks : IsSeq(d.stacks[s]) /\ Len(d.stacks[s]) < StackSize[s]
    <3> TAKE s \in Stacks
    <3>1. d.stacks[s] = <<>>
      BY <2>1
    <3>2. IsSeq(d.stacks[s]) /\ Len(d.stacks[s]) = 0
      BY <3>1, NoCells, Zenon
    <3> QED
      BY <1>3, <3>2
  <2> QED
    BY <1>2, <2>2, <2>3 DEF Guarded
<1>5. DOMAIN e = ContextField /\ e.stacks = d.stacks /\ e.status = d.status
  BY <1>2 DEF ContextField
<1>6. Abort(c) = IF State(c) # 1 THEN d
                 ELSE IF c.chain = <<>> THEN Stop(d, "wild")
                 ELSE Store(e, FF_LOC_STATE, 0)
  BY <1>1 DEF Abort, ContextField
<1> HIDE DEF d, e
<1>7. Guarded(Stop(d, "wild"))
  BY <1>4, StopKept DEF Kept
<1>8. Guarded(e)
  BY <1>4, <1>5, EditKept DEF Kept
<1>9. Guarded(Store(e, FF_LOC_STATE, 0))
  BY <1>8, StoreKept DEF Kept
<1> QED
  BY <1>4, <1>6, <1>7, <1>9

-----------------------------------------------------------------------------
(* What the words begin with, and what they do to the data stack.          *)

LEMMA TakingGuarded ==
  ASSUME NEW c, Guarded(c), NEW n \in Nat, NEW d,
         Len(Data(c)) >= n => Guarded(d)
  PROVE  Guarded(Taking(c, n, d))
<1>1. Len(Data(c)) \in Nat
  BY GuardedLength DEF Data, Stacks
<1>2. CASE Len(Data(c)) >= n
  BY <1>1, <1>2 DEF Taking
<1>3. CASE Len(Data(c)) < n
  BY <1>3, AbortGuarded DEF Taking
<1> QED
  BY <1>1, <1>2, <1>3

LEMMA PushingGuarded ==
  ASSUME NEW c, Guarded(c), NEW s \in Stacks, NEW d,
         Len(c.stacks[s]) + 1 < StackSize[s] => Guarded(d)
  PROVE  Guarded(Pushing(c, s, d))
<1>1. /\ Len(c.stacks[s]) \in Nat /\ StackSize[s] \in Nat
      /\ Len(c.stacks[s]) < StackSize[s]
  BY GuardedLength, StackSizeAssumption
<1>2. CASE Len(c.stacks[s]) + 1 < StackSize[s]
  BY <1>1, <1>2 DEF Pushing, WillOverflow
<1>3. CASE Len(c.stacks[s]) + 1 = StackSize[s]
  BY <1>3, AbortGuarded DEF Pushing, WillOverflow
<1> QED
  BY <1>1, <1>2, <1>3

\* Room for one more cell on the data stack, and on any.
Fits(c, s) == Len(c.stacks[s]) + 1 < StackSize[s]

LEMMA LessGuarded ==
  ASSUME NEW c, Guarded(c), Len(Data(c)) >= 1
  PROVE  /\ Guarded(Less(c)) /\ Fits(Less(c), "data")
         /\ Len(Data(Less(c))) = Len(Data(c)) - 1
<1>1. /\ Len(Data(c)) \in Nat /\ Len(Data(c)) < StackSize["data"]
      /\ StackSize["data"] \in Nat /\ "data" \in Stacks
  BY GuardedLength, StackSizeAssumption DEF Data, Stacks
<1>2. /\ Guarded(Pop(c, "data"))
      /\ Len(Pop(c, "data").stacks["data"]) = Len(c.stacks["data"]) - 1
  BY <1>1, PopGuarded DEF Data
<1> QED
  BY <1>1, <1>2 DEF Less, Data, Fits

LEMMA LessTwoGuarded ==
  ASSUME NEW c, Guarded(c), Len(Data(c)) >= 2
  PROVE  Guarded(LessTwo(c)) /\ Fits(LessTwo(c), "data")
<1>1. Len(Data(c)) \in Nat
  BY GuardedLength DEF Data, Stacks
<1>2. Guarded(Less(c)) /\ Len(Data(Less(c))) >= 1
  BY <1>1, LessGuarded
<1> QED
  BY <1>2, LessGuarded DEF LessTwo

LEMMA PutGuarded ==
  ASSUME NEW c, Guarded(c), Fits(c, "data"), NEW v
  PROVE  Guarded(Put(c, v)) /\ Others(c, Put(c, v), "data")
BY PushGuarded DEF Put, Fits, Stacks

\* Contexts with the same stacks have the same room.
LEMMA KeptFits ==
  ASSUME NEW c, NEW d, Kept(c, d)
  PROVE  /\ Guarded(d) /\ Data(d) = Data(c)
         /\ \A s \in Stacks : Fits(d, s) <=> Fits(c, s)
BY DEF Kept, Data, Fits

-----------------------------------------------------------------------------
(* The words, in the order of ForthV2.                                     *)

LEMMA DropGuarded == ASSUME NEW c, Guarded(c) PROVE Guarded(Drop(c))
<1>1. ASSUME Len(Data(c)) >= 1 PROVE Guarded(Continue(Less(c)))
  BY <1>1, LessGuarded, ContinueKept DEF Kept
<1> QED
  BY <1>1, TakingGuarded DEF Drop

LEMMA PutContinues ==
  ASSUME NEW c, Guarded(c), Fits(c, "data"), NEW v
  PROVE  Guarded(Continue(Put(c, v)))
BY PutGuarded, ContinueKept DEF Kept

LEMMA VariableGuarded ==
  ASSUME NEW c, Guarded(c), NEW a PROVE Guarded(Variable(c, a))
<1>1. ASSUME Fits(c, "data") PROVE Guarded(Continue(Put(c, a)))
  BY <1>1, PutContinues
<1> QED
  BY <1>1, PushingGuarded DEF Variable, Fits, Stacks

LEMMA DupGuarded == ASSUME NEW c, Guarded(c) PROVE Guarded(Dup(c))
<1> DEFINE d == Continue(Put(c, First(c)))
<1>1. ASSUME Fits(c, "data") PROVE Guarded(d)
  BY <1>1, PutContinues
<1>2. Dup(c) = Taking(c, 1, Pushing(c, "data", d))
  BY DEF Dup
<1> HIDE DEF d
<1>3. Guarded(Pushing(c, "data", d))
  BY <1>1, PushingGuarded DEF Fits, Stacks
<1> QED
  BY <1>2, <1>3, TakingGuarded

\* + and = push one cell for two.
LEMMA TwoForOne ==
  ASSUME NEW c, Guarded(c), NEW v
  PROVE  Guarded(Taking(c, 2, Continue(Put(LessTwo(c), v))))
<1>1. ASSUME Len(Data(c)) >= 2 PROVE Guarded(Continue(Put(LessTwo(c), v)))
  BY <1>1, LessTwoGuarded, PutContinues
<1> QED
  BY <1>1, TakingGuarded

\* C@ and ?IMMEDIATE push one for one.
LEMMA OneForOne ==
  ASSUME NEW c, Guarded(c), Len(Data(c)) >= 1, NEW v
  PROVE  Guarded(Continue(Put(Less(c), v)))
BY LessGuarded, PutContinues

\* A word that reads the cell behind it.
LEMMA ReadingGuarded ==
  ASSUME NEW c, Guarded(c), NEW d, Guarded(d)
  PROVE  Guarded(Reading(c, d))
BY StopKept DEF Reading, Kept

LEMMA LiteralGuarded == ASSUME NEW c, Guarded(c) PROVE Guarded(Literal(c))
<1> DEFINE d == Put(c, Operand(c))
           e == [d EXCEPT !.ip = Wrap(c.ip + 4)]
<1>1. ASSUME Fits(c, "data") PROVE Guarded(Reading(c, e))
  <2>1. Guarded(d)
    BY <1>1, PutGuarded
  <2> HIDE DEF d
  <2>2. Guarded(e)
    BY <2>1, IpKept DEF Kept
  <2> HIDE DEF e
  <2> QED
    BY <2>2, ReadingGuarded
<1> QED
  BY <1>1, PushingGuarded DEF Literal, Fits, Stacks

\* Where . may lead.
LEMMA DotOutcomes ==
  ASSUME NEW c
  PROVE  /\ IsEmpty(c, "data") => Dot(c) = Stop(c, "underflow")
         /\ ~IsEmpty(c, "data") =>
              Dot(c) \in {Stop(Less(c), "wild"), Stop(Less(c), "assert"),
                          Continue(Less(c))}
<1> DEFINE d    == Less(c)
           wild == Base(c) = 0
           long == Base(c) = 1 /\ First(c) \in 1 .. 32767
<1>1. Dot(c) = IF IsEmpty(c, "data") THEN Stop(c, "underflow")
               ELSE CASE wild  -> Stop(d, "wild")
                      [] long  -> Stop(d, "assert")
                      [] OTHER -> Continue(d)
  BY SMTT(30) DEF Dot
<1> HIDE DEF wild, long, d
<1> QED
  BY <1>1 DEF d

\* . finds its cell, or an empty stack.
LEMMA DotGuarded ==
  ASSUME NEW c, Guarded(c)
  PROVE  Guarded(Dot(c)) \/ Dot(c).status = "underflow"
<1>1. CASE IsEmpty(c, "data")
  <2>1. Dot(c) = Stop(c, "underflow")
    BY <1>1 DEF Dot
  <2>2. DOMAIN c = ContextField
    BY DEF Guarded
  <2> QED
    BY <2>1, <2>2 DEF Stop, ContextField
<1>2. CASE ~IsEmpty(c, "data")
  <2> DEFINE d == Less(c)
  <2>1. Len(Data(c)) \in Nat /\ Len(Data(c)) # 0
    BY <1>2, GuardedLength DEF Data, Stacks
  <2>2. Guarded(d)
    BY <2>1, LessGuarded
  <2>3. Dot(c) \in {Stop(d, "wild"), Stop(d, "assert"), Continue(d)}
    BY <1>2, DotOutcomes
  <2> HIDE DEF d
  <2>4. /\ Guarded(Stop(d, "wild")) /\ Guarded(Stop(d, "assert"))
        /\ Guarded(Continue(d))
    BY <2>2, StopKept, ContinueKept DEF Kept
  <2> QED
    BY <2>3, <2>4
<1> QED
  BY <1>1, <1>2

\* @ as well, though it tests for room.
LEMMA AtGuarded ==
  ASSUME NEW c, Guarded(c)
  PROVE  Guarded(At(c)) \/ At(c).status = "underflow"
<1> DEFINE a == First(c)
           d == IF IsEmpty(c, "data") THEN Stop(c, "underflow")
                ELSE IF KeptCell(c, a)
                  THEN Continue(Put(Less(c), CellAt(c, a)))
                  ELSE Stop(c, "wild")
<1>1. At(c) = Pushing(c, "data", d)
  BY DEF At
<1>2. CASE IsEmpty(c, "data")
  <2>1. d = Stop(c, "underflow")
    BY <1>2
  <2>2. DOMAIN c = ContextField
    BY DEF Guarded
  <2>3. d.status = "underflow"
    BY <2>1, <2>2 DEF Stop, ContextField
  <2> HIDE DEF d
  <2> QED
    BY <1>1, <2>3, AbortGuarded DEF Pushing
<1>3. CASE ~IsEmpty(c, "data")
  <2>1. Len(Data(c)) >= 1
    BY <1>3, GuardedLength DEF Data, Stacks
  <2>2. /\ Guarded(Continue(Put(Less(c), CellAt(c, a))))
        /\ Guarded(Stop(c, "wild"))
    BY <2>1, OneForOne, StopKept DEF Kept
  <2>3. d \in {Continue(Put(Less(c), CellAt(c, a))), Stop(c, "wild")}
    BY <1>3
  <2>4. Guarded(d)
    BY <2>2, <2>3
  <2> HIDE DEF d
  <2> QED
    BY <1>1, <2>4, PushingGuarded DEF Stacks
<1> QED
  BY <1>2, <1>3

LEMMA CAtGuarded == ASSUME NEW c, Guarded(c) PROVE Guarded(CAt(c))
<1> DEFINE a == First(c)
           d == CASE a = FF_LOC_WORD_BUFFER ->
                       Continue(Put(Less(c), IF c.word = "" THEN 0
                                             ELSE Count[c.word]))
                  [] IsKept(c, a) ->
                       Continue(Put(Less(c), Extended(ByteAt(c, a))))
                  [] OTHER -> Stop(c, "wild")
<1>1. CAt(c) = Taking(c, 1, d)
  BY DEF CAt
<1>2. ASSUME Len(Data(c)) >= 1 PROVE Guarded(d)
  <2>1. \A v : Guarded(Continue(Put(Less(c), v)))
    BY <1>2, OneForOne
  <2>2. Guarded(Stop(c, "wild"))
    BY StopKept DEF Kept
  <2> QED
    BY <2>1, <2>2
<1> HIDE DEF d
<1> QED
  BY <1>1, <1>2, TakingGuarded

LEMMA StoreWordGuarded ==
  ASSUME NEW c, Guarded(c) PROVE Guarded(StoreWord(c))
<1>1. ASSUME Len(Data(c)) >= 2
      PROVE  Guarded(Continue(Store(LessTwo(c), First(c), Second(c))))
  BY <1>1, LessTwoGuarded, StoreKept, ContinueKept DEF Kept
<1> QED
  BY <1>1, TakingGuarded DEF StoreWord

LEMMA AllotGuarded == ASSUME NEW c, Guarded(c) PROVE Guarded(Allot(c))
<1>1. ASSUME Len(Data(c)) >= 1
      PROVE  Guarded(Continue(Store(Less(c), FF_LOC_HERE,
                                    Wrap(Here(c) + First(c)))))
  BY <1>1, LessGuarded, StoreKept, ContinueKept DEF Kept
<1> QED
  BY <1>1, TakingGuarded DEF Allot

LEMMA CommaGuarded == ASSUME NEW c, Guarded(c) PROVE Guarded(Comma(c))
<1>1. ASSUME Len(Data(c)) >= 1
      PROVE  Guarded(Continue(Compile(Less(c), <<First(c)>>)))
  BY <1>1, LessGuarded, CompileKept, ContinueKept DEF Kept
<1> QED
  BY <1>1, TakingGuarded DEF Comma

LEMMA EnterGuarded ==
  ASSUME NEW c, Guarded(c), NEW w PROVE Guarded(Enter(c, w))
<1> DEFINE d == Push(c, "return", Wrap(c.ip + 2))
<1>1. ASSUME Fits(c, "return")
      PROVE  Guarded([d EXCEPT !.ip = ParameterField(c, w)])
  <2>1. Guarded(d)
    BY <1>1, PushGuarded DEF Fits, Stacks
  <2> HIDE DEF d
  <2> QED
    BY <2>1, IpKept DEF Kept
<1> QED
  BY <1>1, PushingGuarded DEF Enter, Fits, Stacks

LEMMA ExitGuarded == ASSUME NEW c, Guarded(c) PROVE Guarded(Exit(c))
<1>1. CASE IsEmpty(c, "return")
  BY <1>1, AbortGuarded DEF Exit
<1>2. CASE ~IsEmpty(c, "return")
  <2> DEFINE d == Pop(c, "return")
  <2>1. Len(c.stacks["return"]) > 0
    BY <1>2, GuardedLength DEF Stacks
  <2>2. Guarded(d)
    BY <2>1, PopGuarded DEF Stacks
  <2>3. Exit(c) = [d EXCEPT !.ip = Popped(c, "return")]
    BY <1>2 DEF Exit
  <2> HIDE DEF d
  <2> QED
    BY <2>2, <2>3, IpKept DEF Kept
<1> QED
  BY <1>1, <1>2

LEMMA JumpGuarded == ASSUME NEW c, Guarded(c) PROVE Guarded(Jump(c))
<1>1. Guarded([c EXCEPT !.ip = Operand(c)])
  BY IpKept DEF Kept
<1> QED
  BY <1>1, ReadingGuarded DEF Jump

LEMMA JumpIfFalseGuarded ==
  ASSUME NEW c, Guarded(c) PROVE Guarded(JumpIfFalse(c))
<1> DEFINE d == Less(c)
           x == [d EXCEPT !.ip = Operand(c)]
           y == [d EXCEPT !.ip = Wrap(c.ip + 4)]
<1>1. JumpIfFalse(c) = Taking(c, 1, IF First(c) = 0 THEN Reading(c, x) ELSE y)
  BY DEF JumpIfFalse
<1>2. Len(Data(c)) >= 1 => Guarded(d)
  BY LessGuarded
<1> HIDE DEF d
<1>3. Len(Data(c)) >= 1 => Guarded(x) /\ Guarded(y)
  BY <1>2, IpKept DEF Kept
<1> HIDE DEF x, y
<1>4. Len(Data(c)) >= 1 =>
        Guarded(IF First(c) = 0 THEN Reading(c, x) ELSE y)
  BY <1>3, ReadingGuarded
<1> QED
  BY <1>1, <1>4, TakingGuarded

LEMMA CreateEnterGuarded ==
  ASSUME NEW c, Guarded(c), NEW w PROVE Guarded(CreateEnter(c, w))
BY VariableGuarded DEF CreateEnter

LEMMA DoesEnterGuarded ==
  ASSUME NEW c, Guarded(c), NEW w PROVE Guarded(DoesEnter(c, w))
<1> DEFINE d == Put(c, ParameterField(c, w))
           e == Push(d, "return", Wrap(c.ip + 2))
           f == [e EXCEPT !.ip = c.dict[w].does]
<1>1. DoesEnter(c, w) = Pushing(c, "data", Pushing(d, "return", f))
  BY DEF DoesEnter
<1>2. ASSUME Fits(c, "data") PROVE Guarded(Pushing(d, "return", f))
  <2>1. Guarded(d)
    BY <1>2, PutGuarded
  <2> HIDE DEF d
  <2>2. ASSUME Fits(d, "return") PROVE Guarded(f)
    <3>1. Guarded(e)
      BY <2>1, <2>2, PushGuarded DEF Fits, Stacks
    <3> HIDE DEF e
    <3> QED
      BY <3>1, IpKept DEF Kept
  <2> HIDE DEF f
  <2> QED
    BY <2>1, <2>2, PushingGuarded DEF Fits, Stacks
<1> HIDE DEF d, f
<1> QED
  BY <1>1, <1>2, PushingGuarded DEF Fits, Stacks

LEMMA FindGuarded == ASSUME NEW c, Guarded(c) PROVE Guarded(Find(c))
<1> DEFINE p == Parse(c)
           v == IF p.word = "" THEN 0 ELSE Lookup(p, p.word)
<1>1. Find(c) = Pushing(c, "data", Continue(Put(p, v)))
  BY DEF Find
<1>2. Kept(c, p)
  BY ParseKept
<1> HIDE DEF p, v
<1>3. ASSUME Fits(c, "data") PROVE Guarded(Continue(Put(p, v)))
  BY <1>2, <1>3, KeptFits, PutContinues DEF Stacks
<1> QED
  BY <1>1, <1>3, PushingGuarded DEF Fits, Stacks

LEMMA NumberGuarded == ASSUME NEW c, Guarded(c) PROVE Guarded(Number(c))
<1> DEFINE n == PNumber(Spelling[c.word], Base(c))
           d == Put(Less(c), IF n = Wrong THEN First(c) ELSE n)
           e == Continue(Put(d, IF n = Wrong THEN 0 ELSE 1))
           r == IF First(c) # FF_LOC_WORD_BUFFER \/ c.word = ""
                  THEN Stop(c, "wild") ELSE Pushing(d, "data", e)
<1>1. Number(c) = Taking(c, 1, r)
  BY DEF Number
<1>2. ASSUME Len(Data(c)) >= 1 PROVE Guarded(r)
  <2>1. Guarded(d)
    BY <1>2, LessGuarded, PutGuarded
  <2> HIDE DEF n, d
  <2>2. ASSUME Fits(d, "data") PROVE Guarded(e)
    BY <2>1, <2>2, PutContinues
  <2> HIDE DEF e
  <2>3. Guarded(Pushing(d, "data", e))
    BY <2>1, <2>2, PushingGuarded DEF Fits, Stacks
  <2>4. Guarded(Stop(c, "wild"))
    BY StopKept DEF Kept
  <2> QED
    BY <2>3, <2>4
<1> HIDE DEF r
<1> QED
  BY <1>1, <1>2, TakingGuarded

-----------------------------------------------------------------------------
(* The words that compile.                                                 *)

LEMMA ColonGuarded == ASSUME NEW c, Guarded(c) PROVE Guarded(Colon(c))
<1> DEFINE p == Parse(c)
           e == AddEntry(p, Header(p.word, "ENTER",
                                   {"MACHINE_CODE", "DIRTY"}, 0))
           d == Store(e, FF_LOC_STATE, 1)
           r == IF p.word = "" THEN Abort(p) ELSE Continue(d)
<1>1. Colon(c) = Pushing(c, "data", r)
  BY DEF Colon
<1>2. Guarded(p)
  BY ParseKept DEF Kept
<1> HIDE DEF p
<1>3. Guarded(e)
  BY <1>2, EntryKept DEF Kept
<1> HIDE DEF e
<1>4. Guarded(d)
  BY <1>3, StoreKept DEF Kept
<1> HIDE DEF d
<1>5. Guarded(Abort(p)) /\ Guarded(Continue(d))
  BY <1>2, <1>4, AbortGuarded, ContinueKept DEF Kept
<1>6. Guarded(r)
  BY <1>5
<1> HIDE DEF r
<1> QED
  BY <1>1, <1>6, PushingGuarded DEF Stacks

LEMMA SemicolonGuarded ==
  ASSUME NEW c, Guarded(c) PROVE Guarded(Semicolon(c))
<1> DEFINE exit == ViaOpcode(c, "EXIT")
           e == Compile(c, <<exit>>)
           d == Store(e, FF_LOC_STATE, 0)
           f == SetHead(d, [HeadOf(d) EXCEPT !.flags
                              = HeadOf(d).flags \ {"DIRTY"}])
<1>1. Guarded(e)
  BY CompileKept DEF Kept
<1>2. Semicolon(c) \in {Stop(c, "assert"), Continue(f)}
  BY DEF Semicolon
<1> HIDE DEF exit, e
<1>3. Guarded(d)
  BY <1>1, StoreKept DEF Kept
<1> HIDE DEF d
<1>4. Guarded(f)
  BY <1>3, HeadKept DEF Kept
<1> HIDE DEF f
<1>5. Guarded(Stop(c, "assert")) /\ Guarded(Continue(f))
  BY <1>4, StopKept, ContinueKept DEF Kept
<1> QED
  BY <1>2, <1>5

LEMMA CreateGuarded ==
  ASSUME NEW c, Guarded(c), NEW w PROVE Guarded(Create(c, w))
<1> DEFINE p == Parse(c)
           e == AddEntry(p, Header(p.word, "CREATE_ENTER", {"MACHINE_CODE"},
                                   c.dict[w].does))
           r == IF p.word = "" THEN Abort(p) ELSE Continue(e)
<1>1. Create(c, w) = Pushing(c, "data", r)
  BY DEF Create
<1>2. Guarded(p)
  BY ParseKept DEF Kept
<1> HIDE DEF p
<1>3. Guarded(e)
  BY <1>2, EntryKept DEF Kept
<1> HIDE DEF e
<1>4. Guarded(Abort(p)) /\ Guarded(Continue(e))
  BY <1>2, <1>3, AbortGuarded, ContinueKept DEF Kept
<1>5. Guarded(r)
  BY <1>4
<1> HIDE DEF r
<1> QED
  BY <1>1, <1>5, PushingGuarded DEF Stacks

LEMMA ImmediateGuarded ==
  ASSUME NEW c, Guarded(c) PROVE Guarded(Immediate(c))
BY HeadKept, ContinueKept DEF Immediate, Kept

LEMMA IsImmediateGuarded ==
  ASSUME NEW c, Guarded(c) PROVE Guarded(IsImmediate(c))
<1> DEFINE v == IF "IMMEDIATE" \in c.dict[First(c)].flags THEN 1 ELSE 0
           d == IF First(c) \notin DOMAIN c.dict THEN Stop(c, "wild")
                ELSE Continue(Put(Less(c), v))
<1>1. IsImmediate(c) = Taking(c, 1, d)
  BY DEF IsImmediate
<1> HIDE DEF v
<1>2. ASSUME Len(Data(c)) >= 1 PROVE Guarded(d)
  <2>1. Guarded(Continue(Put(Less(c), v))) /\ Guarded(Stop(c, "wild"))
    BY <1>2, OneForOne, StopKept DEF Kept
  <2> QED
    BY <2>1
<1> HIDE DEF d
<1> QED
  BY <1>1, <1>2, TakingGuarded

LEMMA CompileLiteralGuarded ==
  ASSUME NEW c, Guarded(c) PROVE Guarded(CompileLiteral(c))
<1> DEFINE push == ViaOpcode(c, "PUSH")
           d == Continue(Compile(Less(c), <<push, First(c)>>))
           r == IF push = 0 THEN Stop(c, "assert") ELSE d
<1>1. CompileLiteral(c) = Taking(c, 1, r)
  BY DEF CompileLiteral
<1> HIDE DEF push
<1>2. ASSUME Len(Data(c)) >= 1 PROVE Guarded(r)
  <2>1. Guarded(d)
    BY <1>2, LessGuarded, CompileKept, ContinueKept DEF Kept
  <2>2. Guarded(Stop(c, "assert"))
    BY StopKept DEF Kept
  <2> QED
    BY <2>1, <2>2
<1> HIDE DEF r
<1> QED
  BY <1>1, <1>2, TakingGuarded

LEMMA DoesGuarded == ASSUME NEW c, Guarded(c) PROVE Guarded(Does(c))
<1> DEFINE d == Compile(c, <<ViaOpcode(c, "DOES_RT"), ViaOpcode(c, "EXIT")>>)
           e == SetHead(d, [HeadOf(d) EXCEPT !.does = Here(d)])
<1>1. Guarded(d)
  BY CompileKept DEF Kept
<1>2. Does(c) \in {Stop(c, "assert"), Continue(e)}
  BY DEF Does
<1> HIDE DEF d
<1>3. Guarded(e)
  BY <1>1, HeadKept DEF Kept
<1> HIDE DEF e
<1>4. Guarded(Stop(c, "assert")) /\ Guarded(Continue(e))
  BY <1>3, StopKept, ContinueKept DEF Kept
<1> QED
  BY <1>2, <1>4

LEMMA DoesRunTimeGuarded ==
  ASSUME NEW c, Guarded(c) PROVE Guarded(DoesRunTime(c))
<1> DEFINE h == [HeadOf(c) EXCEPT !.code = "DOES_ENTER",
                                  !.does = Wrap(c.ip + 4)]
<1>1. DoesRunTime(c)
        \in {Stop(c, "wild"), Stop(c, "assert"), Continue(SetHead(c, h))}
  BY DEF DoesRunTime
<1> HIDE DEF h
<1>2. /\ Guarded(Stop(c, "wild")) /\ Guarded(Stop(c, "assert"))
      /\ Guarded(Continue(SetHead(c, h)))
  BY StopKept, HeadKept, ContinueKept DEF Kept
<1> QED
  BY <1>1, <1>2

LEMMA InputGuarded ==
  ASSUME NEW c, Guarded(c), NEW i
  PROVE  Guarded(Continue([c EXCEPT !.input = i]))
<1>1. DOMAIN c = ContextField
  BY DEF Guarded
<1>2. Guarded([c EXCEPT !.input = i])
  BY <1>1, EditKept DEF ContextField, Kept
<1> QED
  BY <1>2, ContinueKept DEF Kept

LEMMA ParenGuarded == ASSUME NEW c, Guarded(c) PROVE Guarded(Paren(c))
<1> DEFINE closing == {k \in 1 .. Len(c.input) : Parens(c.input[k]) # {}}
           first == CHOOSE k \in closing : \A j \in closing : k <= j
           i == SubSeq(c.input, first + 1, Len(c.input))
<1>1. Paren(c) \in {Abort(c), Continue([c EXCEPT !.input = i]),
                    Stop(c, "wild")}
  BY DEF Paren
<1> HIDE DEF i
<1>2. Guarded(Stop(c, "wild"))
  BY StopKept DEF Kept
<1> QED
  BY <1>1, <1>2, AbortGuarded, InputGuarded

LEMMA QueryGuarded ==
  ASSUME NEW c, Guarded(c), NEW line PROVE Guarded(Query(c, line))
BY InputGuarded DEF Query

LEMMA DecompileGuarded ==
  ASSUME NEW c, Guarded(c) PROVE Guarded(Decompile(c))
<1> DEFINE d == IF First(c) \in DOMAIN c.dict THEN Continue(Less(c))
                                              ELSE Stop(c, "wild")
<1>1. Decompile(c) = Taking(c, 1, d)
  BY DEF Decompile
<1>2. ASSUME Len(Data(c)) >= 1 PROVE Guarded(d)
  <2>1. Guarded(Continue(Less(c))) /\ Guarded(Stop(c, "wild"))
    BY <1>2, LessGuarded, StopKept, ContinueKept DEF Kept
  <2> QED
    BY <2>1
<1> HIDE DEF d
<1> QED
  BY <1>1, <1>2, TakingGuarded

-----------------------------------------------------------------------------
(* The words that use the control stack.                                   *)

LEMMA ControlRoom ==
  ASSUME NEW c, Guarded(c), ~IsEmpty(c, "control")
  PROVE  Guarded(Pop(c, "control")) /\ Fits(Pop(c, "control"), "control")
<1>1. /\ Len(c.stacks["control"]) \in Nat /\ Len(c.stacks["control"]) > 0
      /\ StackSize["control"] \in Nat
      /\ Len(c.stacks["control"]) < StackSize["control"]
  BY GuardedLength, StackSizeAssumption DEF Stacks
<1> QED
  BY <1>1, PopGuarded DEF Stacks, Fits

LEMMA BeginGuarded == ASSUME NEW c, Guarded(c) PROVE Guarded(Begin(c))
<1>1. ASSUME Fits(c, "control")
      PROVE  Guarded(Continue(Push(c, "control", Here(c))))
  BY <1>1, PushGuarded, ContinueKept DEF Fits, Stacks, Kept
<1> QED
  BY <1>1, PushingGuarded DEF Begin, Fits, Stacks

LEMMA IfGuarded == ASSUME NEW c, Guarded(c) PROVE Guarded(If(c))
<1> DEFINE jump == ViaOpcode(c, "JUMP_IF")
           d == Compile(c, <<jump, 0>>)
           e == Push(d, "control", Wrap(Here(c) + 2))
           r == IF jump = 0 THEN Stop(c, "assert") ELSE Continue(e)
<1>1. If(c) = Pushing(c, "control", r)
  BY DEF If
<1>2. Kept(c, d)
  BY CompileKept
<1> HIDE DEF d
<1>3. ASSUME Fits(c, "control") PROVE Guarded(r)
  <2>1. Guarded(d) /\ Fits(d, "control")
    BY <1>2, <1>3, KeptFits DEF Stacks
  <2>2. Guarded(e)
    BY <2>1, PushGuarded DEF Fits, Stacks
  <2> HIDE DEF e
  <2>3. Guarded(Stop(c, "assert")) /\ Guarded(Continue(e))
    BY <2>2, StopKept, ContinueKept DEF Kept
  <2> QED
    BY <2>3
<1> HIDE DEF r
<1> QED
  BY <1>1, <1>3, PushingGuarded DEF Fits, Stacks

LEMMA ThenGuarded == ASSUME NEW c, Guarded(c) PROVE Guarded(Then(c))
<1> DEFINE d == Store(Pop(c, "control"), Control(c), Here(c))
<1>1. Then(c) = IF IsEmpty(c, "control") THEN Abort(c) ELSE Continue(d)
  BY DEF Then
<1>2. ASSUME ~IsEmpty(c, "control") PROVE Guarded(d)
  BY <1>2, ControlRoom, StoreKept DEF Kept
<1> HIDE DEF d
<1> QED
  BY <1>1, <1>2, AbortGuarded, ContinueKept DEF Kept

LEMMA ElseGuarded == ASSUME NEW c, Guarded(c) PROVE Guarded(Else(c))
<1> DEFINE jump == ViaOpcode(c, "JUMP")
           here == Here(c)
           next == Wrap(here + 4)
           o == Pop(c, "control")
           m == Store(o, here, jump)
           d == Store(m, Control(c), next)
           e == Push(d, "control", Wrap(here + 2))
           f == Store(e, FF_LOC_HERE, next)
<1>1. Else(c) = IF IsEmpty(c, "control") THEN Abort(c)
                ELSE IF jump = 0 THEN Stop(c, "assert") ELSE Continue(f)
  BY DEF Else
<1>2. ASSUME ~IsEmpty(c, "control") PROVE Guarded(f)
  <2>1. Guarded(o) /\ Fits(o, "control")
    BY <1>2, ControlRoom
  <2> HIDE DEF o, jump, here, next
  <2>2. Guarded(m) /\ Fits(m, "control")
    BY <2>1, StoreKept, KeptFits DEF Stacks
  <2> HIDE DEF m
  <2>3. Guarded(d) /\ Fits(d, "control")
    BY <2>2, StoreKept, KeptFits DEF Stacks
  <2> HIDE DEF d
  <2>4. Guarded(e)
    BY <2>3, PushGuarded DEF Fits, Stacks
  <2> HIDE DEF e
  <2> QED
    BY <2>4, StoreKept DEF Kept
<1> HIDE DEF f, jump
<1>3. Guarded(Stop(c, "assert")) /\ Guarded(Abort(c))
  BY StopKept, AbortGuarded DEF Kept
<1>4. ASSUME ~IsEmpty(c, "control") PROVE Guarded(Continue(f))
  BY <1>2, <1>4, ContinueKept DEF Kept
<1> QED
  BY <1>1, <1>3, <1>4

LEMMA AgainGuarded == ASSUME NEW c, Guarded(c) PROVE Guarded(Again(c))
<1> DEFINE jump == ViaOpcode(c, "JUMP")
           o == Pop(c, "control")
           d == Compile(o, <<jump, Control(c)>>)
<1>1. Again(c) = IF IsEmpty(c, "control") THEN Abort(c)
                 ELSE IF jump = 0 THEN Stop(c, "assert") ELSE Continue(d)
  BY DEF Again
<1>2. ASSUME ~IsEmpty(c, "control") PROVE Guarded(Continue(d))
  <2>1. Guarded(o)
    BY <1>2, ControlRoom
  <2> HIDE DEF o, jump
  <2>2. Guarded(d)
    BY <2>1, CompileKept DEF Kept
  <2> HIDE DEF d
  <2> QED
    BY <2>2, ContinueKept DEF Kept
<1> HIDE DEF d, jump
<1>3. Guarded(Stop(c, "assert")) /\ Guarded(Abort(c))
  BY StopKept, AbortGuarded DEF Kept
<1> QED
  BY <1>1, <1>2, <1>3

LEMMA ByeGuarded ==
  ASSUME NEW c, Guarded(c) PROVE Guarded(Stop(Continue(c), "bye"))
BY ContinueKept, StopKept DEF Kept

-----------------------------------------------------------------------------
(* The inner interpreter.                                                  *)

\* What a turn may leave: @ and . find an empty stack, and no other word.
Outcome(code, d) ==
  Guarded(d) \/ (code \in {"AT", "DOT"} /\ d.status = "underflow")

LEMMA InstructionGuarded ==
  ASSUME NEW c, Guarded(c), NEW w, NEW line
  PROVE  Outcome(c.dict[w].code, Instruction(c, w, line))
<1> DEFINE code == c.dict[w].code
           r == Instruction(c, w, line)
<1>1. CASE code = "AT"
  <2>1. r = At(c)
    BY <1>1 DEF Instruction
  <2> QED
    BY <1>1, <2>1, AtGuarded DEF Outcome
<1>2. CASE code = "DOT"
  <2>1. r = Dot(c)
    BY <1>2 DEF Instruction
  <2> QED
    BY <1>2, <2>1, DotGuarded DEF Outcome
<1>3. CASE code \in {"DROP", "DUP", "ADD", "EQUAL", "STATE", "BASE",
                    "WORDBUFFER", "PUSH", "EMIT"}
  <2>1. r \in {Drop(c), Dup(c), Add(c), Equal(c), Variable(c, FF_LOC_STATE),
               Variable(c, FF_LOC_BASE), Variable(c, FF_LOC_WORD_BUFFER),
               Literal(c), Emit(c)}
    BY <1>3 DEF Instruction
  <2> HIDE DEF r, code
  <2>2. \A x \in {Drop(c), Dup(c), Add(c), Equal(c),
                  Variable(c, FF_LOC_STATE), Variable(c, FF_LOC_BASE),
                  Variable(c, FF_LOC_WORD_BUFFER), Literal(c),
                  Emit(c)} : Guarded(x)
    BY DropGuarded, DupGuarded, TwoForOne, LiteralGuarded, VariableGuarded
    DEF Drop, Emit, Add, Equal
  <2>3. Guarded(r)
    BY <2>1, <2>2
  <2> QED
    BY <2>3 DEF Outcome, r
<1>4. CASE code \in {"C_AT", "STORE", "ALLOT", "COMMA", "ENTER", "EXIT",
                    "JUMP", "JUMP_IF", "CREATE_ENTER", "DOES_ENTER"}
  <2>1. r \in {CAt(c), StoreWord(c), Allot(c), Comma(c), Enter(c, w),
               Exit(c), Jump(c), JumpIfFalse(c), CreateEnter(c, w),
               DoesEnter(c, w)}
    BY <1>4 DEF Instruction
  <2> HIDE DEF r, code
  <2>2. \A x \in {CAt(c), StoreWord(c), Allot(c), Comma(c), Enter(c, w),
                  Exit(c), Jump(c), JumpIfFalse(c), CreateEnter(c, w),
                  DoesEnter(c, w)} : Guarded(x)
    BY CAtGuarded, StoreWordGuarded, AllotGuarded, CommaGuarded, EnterGuarded,
       ExitGuarded, JumpGuarded, JumpIfFalseGuarded, CreateEnterGuarded,
       DoesEnterGuarded
  <2>3. Guarded(r)
    BY <2>1, <2>2
  <2> QED
    BY <2>3 DEF Outcome, r
<1>5. CASE code \in {"FIND", "BNUMBER", "COLON", "SEMICOLON", "CREATE",
                    "IMMEDIATE", "QIMMEDIATE", "LITERAL", "PLITERAL",
                    "DOES", "DOES_RT"}
  <2>1. r \in {Find(c), Number(c), Colon(c), Semicolon(c), Create(c, w),
               Immediate(c), IsImmediate(c), CompileLiteral(c), Does(c),
               DoesRunTime(c)}
    BY <1>5 DEF Instruction
  <2> HIDE DEF r, code
  <2>2. \A x \in {Find(c), Number(c), Colon(c), Semicolon(c), Create(c, w),
                  Immediate(c), IsImmediate(c), CompileLiteral(c), Does(c),
                  DoesRunTime(c)} : Guarded(x)
    BY FindGuarded, NumberGuarded, ColonGuarded, SemicolonGuarded,
       CreateGuarded, ImmediateGuarded, IsImmediateGuarded,
       CompileLiteralGuarded, DoesGuarded, DoesRunTimeGuarded
  <2>3. Guarded(r)
    BY <2>1, <2>2
  <2> QED
    BY <2>3 DEF Outcome, r
<1>6. CASE code \in {"PAREN", "QUERY", "DECOMPILE", "BEGIN", "IF", "THEN",
                    "ELSE", "AGAIN", "ABORT", "PASS", "BYE"}
  <2>1. r \in {Paren(c), Query(c, line), Decompile(c), Begin(c), If(c),
               Then(c), Else(c), Again(c), Abort(c), Continue(c),
               Stop(Continue(c), "bye")}
    BY <1>6 DEF Instruction
  <2> HIDE DEF r, code
  <2>2. \A x \in {Paren(c), Query(c, line), Decompile(c), Begin(c), If(c),
                  Then(c), Else(c), Again(c), Abort(c), Continue(c),
                  Stop(Continue(c), "bye")} : Guarded(x)
    BY ParenGuarded, QueryGuarded, DecompileGuarded, BeginGuarded, IfGuarded,
       ThenGuarded, ElseGuarded, AgainGuarded, AbortGuarded, ByeGuarded,
       ContinueKept
    DEF Kept
  <2>3. Guarded(r)
    BY <2>1, <2>2
  <2> QED
    BY <2>3 DEF Outcome, r
<1>7. CASE code \notin {"AT", "DOT", "DROP", "DUP", "ADD", "EQUAL", "STATE",
                       "BASE", "WORDBUFFER", "PUSH", "EMIT", "C_AT",
                       "STORE", "ALLOT", "COMMA", "ENTER", "EXIT", "JUMP",
                       "JUMP_IF", "CREATE_ENTER", "DOES_ENTER", "FIND",
                       "BNUMBER", "COLON", "SEMICOLON", "CREATE",
                       "IMMEDIATE", "QIMMEDIATE", "LITERAL", "PLITERAL",
                       "DOES", "DOES_RT", "PAREN", "QUERY", "DECOMPILE",
                       "BEGIN", "IF", "THEN", "ELSE", "AGAIN", "ABORT",
                       "PASS", "BYE"}
  <2>1. r = Stop(c, "illegal")
    BY <1>7 DEF Instruction
  <2> QED
    BY <2>1, StopKept DEF Outcome, Kept
<1> QED
  BY <1>1, <1>2, <1>3, <1>4, <1>5, <1>6, <1>7

\* There is a first cell that is not an EXECUTE, or the end of the stack.
LEMMA DepthExists ==
  ASSUME NEW c, Len(Data(c)) \in Nat
  PROVE  Depth(c) \in 1 .. Len(Data(c)) + 1
<1> DEFINE P(k) == k <= Len(Data(c)) => CodeAt(c, Data(c)[k]) # "EXECUTE"
           T == {k \in 1 .. Len(Data(c)) + 1 : P(k)}
<1>1. Len(Data(c)) \in Nat
  OBVIOUS
<1>2. Len(Data(c)) + 1 \in T
  BY <1>1
<1>3. T \subseteq Nat /\ T # {}
  BY <1>1, <1>2
<1>4. PICK n \in T : \A m \in T : n <= m
  <2> HIDE DEF T
  <2> QED
    BY <1>3, Least
<1>5. \A j \in 1 .. n - 1 : ~P(j)
  BY <1>1, <1>4
<1>6. \A j \in 1 .. n - 1 : CodeAt(c, Data(c)[j]) = "EXECUTE"
  BY <1>5
<1>7. n \in 1 .. Len(Data(c)) + 1 /\ P(n)
  BY <1>4
<1> QED
  BY <1>6, <1>7 DEF Depth

LEMMA ExecuteGuarded ==
  ASSUME NEW c, Guarded(c), NEW line
  PROVE  Outcome(IF Depth(c) > Len(Data(c)) THEN "ABORT"
                 ELSE CodeAt(c, Data(c)[Depth(c)]), Execute(c, line))
<1> DEFINE k == Depth(c)
           w == Data(c)[k]
           q == SubSeq(Data(c), k + 1, Len(Data(c)))
           d == [c EXCEPT !.stacks["data"] = q]
           r == Instruction(d, w, line)
<1>1. k \in 1 .. Len(Data(c)) + 1 /\ Len(Data(c)) \in Nat
  BY DepthExists, GuardedLength DEF Data, Stacks
<1>2. CASE k > Len(Data(c))
  BY <1>2, AbortGuarded DEF Execute, Outcome
<1>3. CASE k \in 1 .. Len(Data(c)) /\ w \notin DOMAIN c.dict
  <2>1. Execute(c, line) = Stop(c, "wild")
    BY <1>1, <1>3 DEF Execute
  <2> QED
    BY <2>1, StopKept DEF Outcome, Kept
<1>4. CASE k \in 1 .. Len(Data(c)) /\ w \in DOMAIN c.dict
  <2>1. \/ Execute(c, line) = r
        \/ Execute(c, line) = [r EXCEPT !.ip = Wrap(c.ip + 2)]
    <3>1. ~ (k > Len(Data(c)))
      BY <1>1, <1>4
    <3>2. CASE r.ip = c.recover
      <4>1. Execute(c, line) = r
        BY <1>4, <3>1, <3>2 DEF Execute, Data
      <4> QED
        BY <4>1
    <3>3. CASE r.ip # c.recover
      <4>1. Execute(c, line) =
              IF k = 1 /\ c.dict[w].code \in {"ENTER", "DOES_ENTER"} THEN r
              ELSE [r EXCEPT !.ip = Wrap(c.ip + 2)]
        BY <1>4, <3>1, <3>3 DEF Execute, Data
      <4> QED
        BY <4>1
    <3> QED
      BY <3>2, <3>3
  <2>2. Guarded(d) /\ d.dict = c.dict
    <3>1. /\ DOMAIN c = ContextField /\ DOMAIN c.stacks = Stacks
          /\ IsSeq(Data(c)) /\ "data" \in Stacks
          /\ Len(Data(c)) < StackSize["data"] /\ StackSize["data"] \in Nat
      BY StackSizeAssumption DEF Guarded, Data, Stacks
    <3>2. IsSeq(q) /\ Len(q) < Len(Data(c))
      BY <1>4, <3>1, CutSeq
    <3>3. /\ DOMAIN d = ContextField /\ DOMAIN d.stacks = Stacks
          /\ d.stacks["data"] = q /\ d.status = c.status /\ d.dict = c.dict
          /\ \A t \in Stacks \ {"data"} : d.stacks[t] = c.stacks[t]
      BY <3>1 DEF ContextField
    <3> HIDE DEF q, d
    <3>4. Len(q) \in Nat
      BY <3>2, SeqLength
    <3>5. \A t \in Stacks :
            IsSeq(d.stacks[t]) /\ Len(d.stacks[t]) < StackSize[t]
      BY <1>1, <3>1, <3>2, <3>3, <3>4 DEF Guarded
    <3> QED
      BY <3>3, <3>5 DEF Guarded
  <2>3. CodeAt(c, w) = d.dict[w].code
    BY <1>4, <2>2 DEF CodeAt
  <2> HIDE DEF d
  <2>4. Outcome(d.dict[w].code, r)
    BY <2>2, InstructionGuarded
  <2> HIDE DEF r
  <2>5. ASSUME Outcome(d.dict[w].code, r)
        PROVE  Outcome(d.dict[w].code, [r EXCEPT !.ip = Wrap(c.ip + 2)])
    <3>1. CASE Guarded(r)
      BY <3>1, IpKept DEF Kept, Outcome
    <3>2. CASE /\ d.dict[w].code \in {"AT", "DOT"}
               /\ r.status = "underflow"
      <4>1. [r EXCEPT !.ip = Wrap(c.ip + 2)].status = "underflow"
        BY <3>2
      <4> QED
        BY <3>2, <4>1 DEF Outcome
    <3> QED
      BY <2>5, <3>1, <3>2 DEF Outcome
  <2> QED
    BY <1>1, <1>4, <2>1, <2>3, <2>4, <2>5
<1> QED
  BY <1>1, <1>2, <1>3, <1>4

\* The opcode of an entry is that of a word in the dictionary.
LEMMA OpcodeWord ==
  ASSUME NEW c, Opcode(c) # "none"
  PROVE  /\ KeptCell(c, c.ip) /\ CellAt(c, c.ip) \in DOMAIN c.dict
         /\ c.dict[CellAt(c, c.ip)].code = Opcode(c)
BY DEF Opcode, CodeAt

LEMMA TurnGuarded ==
  ASSUME NEW c, Guarded(c), NEW line
  PROVE  Outcome(AtWork(c), Turn(c, line))
<1> DEFINE w == CellAt(c, c.ip)
<1>1. CASE Opcode(c) = "none"
  BY <1>1, StopKept DEF Turn, Outcome, Kept
<1>2. CASE Opcode(c) = "EXECUTE"
  BY <1>2, ExecuteGuarded DEF Turn, AtWork
<1>3. CASE Opcode(c) \notin {"none", "EXECUTE"}
  <2>1. Turn(c, line) = Instruction(c, w, line) /\ AtWork(c) = Opcode(c)
    BY <1>3 DEF Turn, AtWork
  <2>2. Opcode(c) = c.dict[w].code
    BY <1>3, OpcodeWord
  <2> QED
    BY <2>1, <2>2, InstructionGuarded
<1> QED
  BY <1>1, <1>2, <1>3

\* A system that goes on has room on every stack.
IInv == context.status # "underflow" => Guarded(context)

\* Every step is a turn.
LEMMA StepIsTurn ==
  ASSUME IInv, Next
  PROVE  /\ Guarded(context)
         /\ Outcome(AtWork(context), context')
<1>1. context.status = "run"
  BY DEF Next, Compute, Terminal, Running
<1>2. Guarded(context)
  BY <1>1 DEF IInv
<1>3. \E line : context' = Turn(context, line)
  BY DEF Next, Compute, Terminal
<1> QED
  BY <1>2, <1>3, TurnGuarded

LEMMA Step == IInv /\ [Next]_vars => IInv'
<1> SUFFICES ASSUME IInv, [Next]_vars PROVE IInv'
  OBVIOUS
<1>1. CASE Next
  BY <1>1, StepIsTurn DEF Outcome, IInv
<1>2. CASE UNCHANGED vars
  BY <1>2 DEF vars, IInv
<1> QED
  BY <1>1, <1>2

LEMMA Always == Spec => []IInv
<1>1. Init => IInv
  <2> SUFFICES ASSUME Init PROVE Guarded(context)
    BY DEF IInv
  <2>1. /\ DOMAIN context = ContextField /\ context.status = "run"
        /\ context.stacks = [s \in Stacks |-> <<>>]
    BY DEF Init, Booted, IsContext
  <2>2. \A s \in Stacks : /\ context.stacks[s] = <<>>
                          /\ StackSize[s] \in Nat /\ StackSize[s] > 0
    BY <2>1, StackSizeAssumption
  <2>3. \A s \in Stacks : /\ IsSeq(context.stacks[s])
                          /\ Len(context.stacks[s]) < StackSize[s]
    BY <2>2, NoCells
  <2>4. DOMAIN context.stacks = Stacks
    BY <2>1
  <2> QED
    BY <2>1, <2>3, <2>4 DEF Guarded
<1> QED
  BY <1>1, Step, PTL DEF Spec

\* In a system that was booted with any dictionary and any program, no word
\* drives a stack past its end: every test of will_overflow and is_empty is in
\* its place, but for those of @ and .
THEOREM StacksAreGuarded == Spec => StacksGuarded
<1> DEFINE A == /\ context'.status # "overflow"
                /\ context'.status = "underflow" =>
                     AtWork(context) \in {"AT", "DOT"}
<1>1. ASSUME IInv, [Next]_vars PROVE [A]_vars
  <2>1. CASE Next
    BY <1>1, <2>1, StepIsTurn DEF Outcome, Guarded
  <2>2. CASE UNCHANGED vars
    BY <2>2
  <2> QED
    BY <1>1, <2>1, <2>2
<1> QED
  BY <1>1, Always, PTL DEF Spec, StacksGuarded

-----------------------------------------------------------------------------
(* Types.                                                                  *)

\* What a data space is made of.
IsMemory(m) == DOMAIN m \subseteq Word /\ m \in [DOMAIN m -> Byte]

\* d is a context with the dictionary and the links of c, and, if it is still,
\* with its data space.
Alike(c, d) == IsContext(d) /\ d.dict = c.dict /\ d.chain = c.chain
Still(c, d) == Alike(c, d) /\ d.mem = c.mem

LEMMA BytesWord ==
  \A a, b \in Byte : a \in Word /\ a + 256 * b \in Word
BY ByteInt, WordInt

LEMMA ByteWord ==
  ASSUME NEW c, IsContext(c), NEW a \in Word
  PROVE  ByteAt(c, a) \in Byte
<1> DEFINE n == FF_MEMORY_SIZE - 1
<1>1. n \in Int /\ 65535 <= n
  BY DEF FF_MEMORY_SIZE
<1> HIDE DEF n
<1>2. a \in Int /\ 0 <= a /\ a <= n
  BY <1>1, WordInt
<1>3. a \in 0 .. n
  BY <1>1, <1>2
<1>4. Garbage[a] \in Byte
  BY <1>3, GarbageAssumption DEF n
<1> QED
  BY <1>4 DEF IsContext, ByteAt

LEMMA CellWord ==
  ASSUME NEW c, IsContext(c), NEW a \in Word, a + 1 \in Word
  PROVE  CellAt(c, a) \in Word
BY ByteWord, BytesWord DEF CellAt

LEMMA SystemCells ==
  ASSUME NEW c, IsContext(c)
  PROVE  Here(c) \in Word /\ State(c) \in Word /\ Base(c) \in Word
<1>1. \A a \in 2 .. 7 : a \in Word
  BY WordInt
<1>2. CellAt(c, 2) \in Word /\ CellAt(c, 4) \in Word /\ CellAt(c, 6) \in Word
  BY <1>1, CellWord
<1> QED
  BY <1>2 DEF Here, State, Base, FF_LOC_HERE, FF_LOC_STATE, FF_LOC_BASE

LEMMA SameCells ==
  ASSUME NEW c, NEW d, d.mem = c.mem
  PROVE  \A a : CellAt(d, a) = CellAt(c, a)
BY DEF CellAt, ByteAt

LEMMA MemTyped ==
  ASSUME NEW c, IsContext(c), NEW m, IsMemory(m)
  PROVE  Alike(c, [c EXCEPT !.mem = m])
BY DEF IsContext, IsMemory, Alike, ContextField

LEMMA IpTyped ==
  ASSUME NEW c, IsContext(c), NEW a \in Word
  PROVE  Still(c, [c EXCEPT !.ip = a])
BY DEF IsContext, Still, Alike, ContextField

LEMMA StackTyped ==
  ASSUME NEW c, IsContext(c), NEW s \in Stacks, NEW q \in Seq(Word)
  PROVE  Still(c, [c EXCEPT !.stacks[s] = q])
<1>1. [c.stacks EXCEPT ![s] = q] \in [Stacks -> Seq(Word)]
  BY DEF IsContext
<1> QED
  BY <1>1 DEF IsContext, Still, Alike, ContextField

LEMMA StopTyped ==
  ASSUME NEW c, IsContext(c), NEW how \in Status
  PROVE  Still(c, Stop(c, how))
BY DEF IsContext, Still, Alike, ContextField, Stop

LEMMA InputTyped ==
  ASSUME NEW c, IsContext(c), NEW text \in Seq(Token)
  PROVE  Still(c, [c EXCEPT !.input = text])
BY DEF IsContext, Still, Alike, ContextField

LEMMA StillTrans ==
  ASSUME NEW c, NEW d, NEW e, Still(c, d), Still(d, e)
  PROVE  Still(c, e)
BY DEF Still, Alike

LEMMA AlikeTrans ==
  ASSUME NEW c, NEW d, NEW e, Alike(c, d), Alike(d, e)
  PROVE  Alike(c, e)
BY DEF Alike

LEMMA StillAlike ==
  ASSUME NEW c, NEW d, Still(c, d)
  PROVE  Alike(c, d) /\ IsContext(d)
BY DEF Still, Alike

LEMMA StillSelf == ASSUME NEW c, IsContext(c) PROVE Still(c, c)
BY DEF Still, Alike

LEMMA ContinueTyped ==
  ASSUME NEW c, IsContext(c) PROVE Still(c, Continue(c))
<1>1. c.ip \in Word
  BY DEF IsContext
<1>2. Wrap(c.ip + 2) \in Word
  BY <1>1, WrapWord, WordInt
<1> QED
  BY <1>2, IpTyped DEF Continue

LEMMA PoppedWord ==
  ASSUME NEW c, IsContext(c), NEW s \in Stacks
  PROVE  Popped(c, s) \in Word
<1>1. c.stacks[s] \in Seq(Word)
  BY DEF IsContext
<1>2. 0 \in Word
  BY WordInt
<1>3. c.stacks[s] # <<>> => Head(c.stacks[s]) \in Word
  BY <1>1
<1> QED
  BY <1>2, <1>3 DEF Popped, IsEmpty

LEMMA PopTyped ==
  ASSUME NEW c, IsContext(c), NEW s \in Stacks
  PROVE  Still(c, Pop(c, s))
<1>1. c.stacks[s] \in Seq(Word)
  BY DEF IsContext
<1>2. CASE c.stacks[s] = <<>>
  BY <1>2, StopTyped DEF Pop, IsEmpty, Status
<1>3. CASE c.stacks[s] # <<>>
  <2> DEFINE q == Tail(c.stacks[s])
  <2>1. q \in Seq(Word)
    BY <1>1, <1>3
  <2>2. Pop(c, s) = [c EXCEPT !.stacks[s] = q]
    BY <1>3 DEF Pop, IsEmpty
  <2> HIDE DEF q
  <2> QED
    BY <2>1, <2>2, StackTyped
<1> QED
  BY <1>2, <1>3

LEMMA PushTyped ==
  ASSUME NEW c, IsContext(c), NEW s \in Stacks, NEW v \in Word
  PROVE  Still(c, Push(c, s, v))
<1> DEFINE q == <<v>> \o c.stacks[s]
           d == [c EXCEPT !.stacks[s] = q]
<1>1. c.stacks[s] \in Seq(Word)
  BY DEF IsContext
<1>2. q \in Seq(Word)
  BY <1>1
<1>3. Push(c, s, v) = IF Len(d.stacks[s]) = StackSize[s]
                        THEN Stop(d, "overflow") ELSE d
  BY DEF Push
<1> HIDE DEF q
<1>4. Still(c, d)
  BY <1>2, StackTyped
<1> HIDE DEF d
<1>5. Still(d, Stop(d, "overflow"))
  BY <1>4, StillAlike, StopTyped DEF Status
<1> QED
  BY <1>3, <1>4, <1>5, StillTrans

\* Where cells are kept.
LEMMA TopWord == TopOfData \in Int /\ TopOfData <= 65516
<1>1. /\ StackSize["data"] \in Int /\ StackSize["data"] >= 2
      /\ StackSize["control"] \in Int /\ StackSize["control"] >= 2
      /\ StackSize["return"] \in Int /\ StackSize["return"] >= 2
  BY StackSizeAssumption DEF Stacks
<1> QED
  BY <1>1 DEF TopOfData

LEMMA KeptWord ==
  ASSUME NEW c, IsContext(c), NEW a \in Word, KeptCell(c, a)
  PROVE  a + 1 \in Word /\ CellAt(c, a) \in Word
<1>1. a + 1 \in Word
  BY TopWord, WordInt DEF KeptCell, IsKept
<1> QED
  BY <1>1, CellWord

LEMMA WriteTyped ==
  ASSUME NEW m, IsMemory(m), NEW a \in Word, a + 1 \in Word, NEW v \in Word
  PROVE  IsMemory(Write(m, a, v))
<1>1. v % 256 \in Byte /\ v \div 256 \in Byte
  BY ByteInt, WordInt
<1> QED
  BY <1>1 DEF IsMemory, Write

LEMMA StoreTyped ==
  ASSUME NEW c, IsContext(c), NEW a \in Word, NEW v \in Word
  PROVE  Alike(c, Store(c, a, v))
<1>1. CASE KeptCell(c, a)
  <2>1. a + 1 \in Word
    BY <1>1, KeptWord
  <2>2. IsMemory(c.mem)
    BY DEF IsContext, IsMemory
  <2>4. IsMemory(Write(c.mem, a, v))
    BY <2>1, <2>2, WriteTyped
  <2>3. Store(c, a, v) = [c EXCEPT !.mem = Write(c.mem, a, v)]
    BY <1>1 DEF Store
  <2> QED
    BY <2>3, <2>4, MemTyped
<1>2. CASE ~ KeptCell(c, a)
  BY <1>2, StopTyped, StillAlike DEF Store, Status
<1> QED
  BY <1>1, <1>2

LEMMA CompileTyped ==
  ASSUME NEW c, IsContext(c), NEW cells \in Seq(Word), Len(cells) \in {1, 2}
  PROVE  Alike(c, Compile(c, cells))
<1> DEFINE next  == Wrap(Here(c) + 2)
           first == Store(c, Here(c), cells[1])
           all   == IF Len(cells) = 1 THEN first
                    ELSE Store(first, next, cells[2])
           last  == Wrap(Here(c) + 2 * Len(cells))
<1>1. Compile(c, cells) = Store(all, FF_LOC_HERE, last)
  BY DEF Compile
<1>0. Here(c) \in Word /\ Here(c) \in Int
  BY SystemCells, WordInt
<1>8. Here(c) + 2 \in Int /\ Here(c) + 2 * Len(cells) \in Int
  BY <1>0
<1>9. FF_LOC_HERE \in Word
  BY WordInt DEF FF_LOC_HERE
<1>2. Here(c) \in Word /\ next \in Word /\ last \in Word
  BY <1>0, <1>8, WrapWord
<1>3. cells[1] \in Word /\ (Len(cells) # 1 => cells[2] \in Word)
  OBVIOUS
<1> HIDE DEF next, last
<1>4. Alike(c, first)
  BY <1>2, <1>3, StoreTyped
<1> HIDE DEF first
<1>5. Len(cells) # 1 => Alike(first, Store(first, next, cells[2]))
  BY <1>2, <1>3, <1>4, StoreTyped DEF Alike
<1>6. Alike(c, all)
  BY <1>4, <1>5, AlikeTrans
<1> HIDE DEF all
<1>7. Alike(all, Store(all, FF_LOC_HERE, last))
  BY <1>2, <1>6, <1>9, StoreTyped DEF Alike
<1> QED
  BY <1>1, <1>6, <1>7, AlikeTrans

-----------------------------------------------------------------------------
(* The dictionary as a list of words.                                      *)

Entries     == [name : Token, open : BOOLEAN, immediate : BOOLEAN]
EntryOf(h)  == [name |-> h.name, open |-> "DIRTY" \in h.flags,
                immediate |-> "IMMEDIATE" \in h.flags]
Listing(c)  == [k \in 1 .. Len(c.chain) |-> EntryOf(c.dict[c.chain[k]])]

Sound(c) == IsContext(c) /\ Rooted(c)

\* One move of WordList, or none.
Declares(c, d, x) ==
  Listing(d) = <<x>> \o Listing(c) /\ ~x.open /\ State(d) = State(c)
Opens(c, d, x) ==
  /\ Listing(d) = <<x>> \o Listing(c)
  /\ x.open /\ ~x.immediate /\ State(d) = 1
Closes(c, d) ==
  /\ c.chain # <<>> /\ State(d) # 1
  /\ Listing(d) = [Listing(c) EXCEPT ![1].open = FALSE]
Marks(c, d) ==
  /\ c.chain # <<>> /\ State(d) = State(c)
  /\ Listing(d) = [Listing(c) EXCEPT ![1].immediate = TRUE]
Forgets(c, d) ==
  /\ State(c) = 1 /\ c.chain # <<>> /\ State(d) # 1
  /\ Listing(d) = Tail(Listing(c))
Moved(c, d) ==
  \/ Listing(d) = Listing(c)
  \/ \E x \in Entries : Declares(c, d, x) \/ Opens(c, d, x)
  \/ Closes(c, d) \/ Marks(c, d) \/ Forgets(c, d)

Changed(c, d) == Sound(d) /\ Moved(c, d)

LEMMA CountNat ==
  ASSUME NEW w \in Token
  PROVE  Count[w] \in Nat /\ Count[w] <= 126
<1>1. Spelling[w] \in Seq(Byte) /\ Len(Spelling[w]) + 2 <= 128
  BY SpellingAssumption DEF FF_WORD_BUFFER_SIZE
<1>2. Count[w] = Len(Spelling[w])
  BY DEF Count
<1> QED
  BY <1>1, <1>2

LEMMA CountWord == \A w \in Token : Count[w] \in Word
<1> SUFFICES ASSUME NEW w \in Token PROVE Count[w] \in Word
  OBVIOUS
<1> DEFINE k == Count[w]
<1>1. k \in Nat /\ k <= 126
  BY CountNat
<1> HIDE DEF k
<1>2. k \in Word
  BY <1>1, WordInt
<1> QED
  BY <1>2 DEF k

LEMMA ChainTyped ==
  ASSUME NEW c, IsContext(c)
  PROVE  /\ Len(c.chain) \in Nat /\ DOMAIN c.chain = 1 .. Len(c.chain)
         /\ \A k \in 1 .. Len(c.chain) :
              /\ c.chain[k] \in DOMAIN c.dict
              /\ c.dict[c.chain[k]] \in Headers
<1>1. c.chain \in Seq(DOMAIN c.dict) /\ c.dict \in [DOMAIN c.dict -> Headers]
  BY DEF IsContext
<1> QED
  BY <1>1

LEMMA EntryTyped ==
  ASSUME NEW h \in Headers
  PROVE  EntryOf(h) \in Entries
<1>1. h.name \in Token
  BY DEF Headers
<1>2. ("DIRTY" \in h.flags) \in BOOLEAN /\ ("IMMEDIATE" \in h.flags) \in BOOLEAN
  OBVIOUS
<1> QED
  BY <1>1, <1>2, Zenon DEF EntryOf, Entries

LEMMA ListingSeq ==
  ASSUME NEW c, IsContext(c)
  PROVE  /\ Listing(c) \in Seq(Entries) /\ Len(Listing(c)) = Len(c.chain)
         /\ Listing(c) = <<>> <=> c.chain = <<>>
         /\ \A k \in 1 .. Len(c.chain) :
              Listing(c)[k] = EntryOf(c.dict[c.chain[k]])
<1> DEFINE n == Len(c.chain)
<1>1. n \in Nat /\ \A k \in 1 .. n : c.dict[c.chain[k]] \in Headers
  BY ChainTyped
<1>2. \A h \in Headers : EntryOf(h) \in Entries
  BY EntryTyped
<1>3. Listing(c) \in [1 .. n -> Entries]
  BY <1>1, <1>2 DEF Listing
<1>4. c.chain = <<>> <=> n = 0
  <2>1. c.chain \in Seq(DOMAIN c.dict)
    BY DEF IsContext
  <2> QED
    BY <2>1, EmptySeq
<1>5. \A k \in 1 .. n : Listing(c)[k] = EntryOf(c.dict[c.chain[k]])
  BY DEF Listing
<1> HIDE DEF n
<1>6. Listing(c) \in Seq(Entries) /\ Len(Listing(c)) = n
  BY <1>1, <1>3
<1> QED
  BY <1>4, <1>5, <1>6 DEF n

LEMMA AlikeSound ==
  ASSUME NEW c, NEW d, Sound(c), Alike(c, d)
  PROVE  Changed(c, d) /\ Sound(d) /\ Listing(d) = Listing(c)
<1>1. Listing(d) = Listing(c)
  BY DEF Alike, Listing
<1>2. Rooted(d)
  BY DEF Sound, Alike, Rooted, ParameterField
<1> QED
  BY <1>1, <1>2 DEF Sound, Alike, Changed, Moved

\* What is still before or after a move does not change it.
LEMMA StillMoves ==
  ASSUME NEW c, NEW d, NEW e, Sound(c), Still(c, d), Changed(d, e)
  PROVE  Changed(c, e)
<1>1. Listing(d) = Listing(c) /\ State(d) = State(c) /\ d.chain = c.chain
  BY SameCells DEF Still, Alike, Listing, State
<1> QED
  BY <1>1 DEF Changed, Moved, Declares, Opens, Closes, Marks, Forgets

LEMMA MovesStill ==
  ASSUME NEW c, NEW d, NEW e, Changed(c, d), Still(d, e)
  PROVE  Changed(c, e)
<1>1. Listing(e) = Listing(d) /\ State(e) = State(d)
  BY SameCells DEF Still, Alike, Listing, State
<1>2. Sound(e)
  BY AlikeSound DEF Changed, Still
<1> QED
  BY <1>1, <1>2 DEF Changed, Moved, Declares, Opens, Closes, Marks, Forgets

\* A variable of the system that is not written keeps its value.
LEMMA WriteAt ==
  ASSUME NEW m, IsMemory(m), NEW a \in Word, NEW v \in Word
  PROVE  /\ Write(m, a, v)[a] = v % 256 /\ Write(m, a, v)[a + 1] = v \div 256
         /\ {a, a + 1} \subseteq DOMAIN Write(m, a, v)
         /\ \A b : b \notin {a, a + 1} =>
              /\ b \in DOMAIN Write(m, a, v) <=> b \in DOMAIN m
              /\ b \in DOMAIN m => Write(m, a, v)[b] = m[b]
<1>1. a + 1 # a
  BY WordInt
<1> QED
  BY <1>1 DEF Write

LEMMA StoreVariable ==
  ASSUME NEW c, IsContext(c), NEW v \in Word
  PROVE  /\ State(Store(c, FF_LOC_HERE, v)) = State(c)
         /\ State(Store(c, FF_LOC_STATE, v)) = v
<1>1. IsMemory(c.mem) /\ DOMAIN c = ContextField
  BY DEF IsContext, IsMemory
<1>2. \A a \in {FF_LOC_HERE, FF_LOC_STATE} :
        Store(c, a, v) = [c EXCEPT !.mem = Write(c.mem, a, v)]
  BY DEF Store, KeptCell, IsKept, FF_LOC_HERE, FF_LOC_STATE
<1>3. \A a \in {FF_LOC_HERE, FF_LOC_STATE} :
        Store(c, a, v).mem = Write(c.mem, a, v)
  BY <1>1, <1>2 DEF ContextField
<1>4. FF_LOC_HERE = 2 /\ FF_LOC_STATE = 4 /\ 2 \in Word /\ 4 \in Word
  BY WordInt DEF FF_LOC_HERE, FF_LOC_STATE
<1>5. State(Store(c, FF_LOC_HERE, v)) = State(c)
  <2>1. \A b \in {4, 5} :
          /\ b \in DOMAIN Write(c.mem, 2, v) <=> b \in DOMAIN c.mem
          /\ b \in DOMAIN c.mem => Write(c.mem, 2, v)[b] = c.mem[b]
    BY <1>1, <1>4, WriteAt
  <2>2. \A b \in {4, 5} : ByteAt(Store(c, 2, v), b) = ByteAt(c, b)
    BY <1>3, <1>4, <2>1 DEF ByteAt
  <2> QED
    BY <1>4, <2>2 DEF State, CellAt
<1>6. State(Store(c, FF_LOC_STATE, v)) = v
  <2>1. /\ Write(c.mem, 4, v)[4] = v % 256 /\ Write(c.mem, 4, v)[5] = v \div 256
        /\ {4, 5} \subseteq DOMAIN Write(c.mem, 4, v)
    BY <1>1, <1>4, WriteAt
  <2>2. /\ ByteAt(Store(c, 4, v), 4) = v % 256
        /\ ByteAt(Store(c, 4, v), 5) = v \div 256
    BY <1>3, <1>4, <2>1 DEF ByteAt
  <2>3. (v % 256) + 256 * (v \div 256) = v
    BY WordInt
  <2> QED
    BY <1>4, <2>2, <2>3 DEF State, CellAt
<1> QED
  BY <1>5, <1>6

LEMMA WrapOnce ==
  ASSUME NEW m \in Int, 0 <= m
  PROVE  /\ m <= 65535 => Wrap(m) = m
         /\ 65536 <= m /\ m <= 131071 => Wrap(m) = m - 65536
BY DEF Wrap

LEMMA AlignUp ==
  ASSUME NEW x \in Int, 0 <= x, x <= 65535
  PROVE  /\ Align(x) \in Int /\ 0 <= Align(x) /\ Align(x) <= 65535
         /\ Align(x) <= x + 1 /\ (Align(x) >= x \/ Align(x) = 0)
<1> DEFINE y == x + (x % 2)
<1>1. y \in Int /\ y <= x + 1 /\ y >= x
  OBVIOUS
<1>2. Align(x) = Wrap(y)
  BY DEF Align
<1> HIDE DEF y
<1>3. CASE y <= 65535
  <2>1. Wrap(y) = y
    BY <1>1, <1>3, WrapOnce
  <2> QED
    BY <1>1, <1>2, <1>3, <2>1
<1>4. CASE y > 65535
  <2>1. y = 65536
    BY <1>1, <1>4
  <2>2. Wrap(y) = 0
    BY <2>1 DEF Wrap
  <2> QED
    BY <1>2, <2>2
<1> QED
  BY <1>1, <1>3, <1>4

BehindHeader(new, n) == Align(Wrap(new + 12 + n))

\* If HERE does not wrap around, neither has anything on the way.
LEMMA NextAbove ==
  ASSUME NEW new \in Int, 1166 <= new, new <= 65535,
         NEW n \in Int, 0 <= n, n <= 126,
         new <= BehindHeader(new, n)
  PROVE  /\ new < BehindHeader(new, n) /\ BehindHeader(new, n) \in Word
         /\ BehindHeader(new, n) = Align(new + n + 12)
<1> DEFINE next == BehindHeader(new, n)
           x == new + 12 + n
<1>1. x \in Int /\ x >= 1178 /\ x <= 65673 /\ new < x /\ new + n + 12 = x
  OBVIOUS
<1>2. next = Align(Wrap(x)) /\ new <= next
  BY DEF BehindHeader
<1> HIDE DEF x, next
<1>3. CASE x <= 65535
  <2>1. Wrap(x) = x
    BY <1>1, <1>3, WrapOnce
  <2>2. /\ Align(x) \in Int /\ 0 <= Align(x) /\ Align(x) <= 65535
        /\ Align(x) >= x \/ Align(x) = 0
    BY <1>1, <1>3, AlignUp
  <2>3. next = Align(x)
    BY <1>2, <2>1
  <2>4. new < next
    <3> DEFINE z == Align(x)
    <3>1. next = z /\ z \in Int /\ (z >= x \/ z = 0)
      BY <2>2, <2>3
    <3> HIDE DEF z
    <3>2. new <= z
      BY <1>2, <3>1
    <3>3. z # 0
      BY <3>1, <3>2
    <3> QED
      BY <1>1, <3>1, <3>3
  <2>5. Align(x) \in Word
    BY <2>2, WordInt
  <2>6. Align(new + n + 12) = Align(x)
    BY <1>1
  <2> QED
    BY <2>3, <2>4, <2>5, <2>6 DEF next
<1>4. CASE x > 65535
  <2> DEFINE w == Wrap(x)
  <2>1. w = x - 65536
    BY <1>1, <1>4, WrapOnce
  <2>2. w \in Int /\ 0 <= w /\ w <= 137
    BY <1>1, <1>4, <2>1
  <2> HIDE DEF w
  <2>3. Align(w) \in Int /\ Align(w) <= w + 1
    BY <2>2, AlignUp
  <2>4. next = Align(w)
    BY <1>2 DEF w
  <2> QED
    BY <1>2, <2>2, <2>3, <2>4
<1> QED
  BY <1>1, <1>3, <1>4

LEMMA FieldWord ==
  ASSUME NEW c, IsContext(c), NEW e \in DOMAIN c.dict
  PROVE  ParameterField(c, e) \in Word
<1>0. e \in Word /\ c.dict[e] \in Headers
  BY DEF IsContext
<1>1. e \in Int /\ c.dict[e].name \in Token
  BY <1>0, WordInt DEF Headers
<1>2. Count[c.dict[e].name] \in Nat
  BY <1>1, CountNat
<1> DEFINE x == e + Count[c.dict[e].name] + 12
<1>3. x \in Int
  BY <1>1, <1>2
<1>4. ParameterField(c, e) = Wrap(x + (x % 2))
  BY DEF ParameterField, Align
<1> HIDE DEF x
<1>5. x + (x % 2) \in Int
  BY <1>3
<1> QED
  BY <1>4, <1>5, WrapWord

\* A new entry: it lies where no other does, and is the first of the list.
LEMMA EntryAdded ==
  ASSUME NEW c, Sound(c), NEW header \in Headers
  PROVE  LET d == AddEntry(c, header) IN
         \/ Still(c, d)
         \/ /\ Sound(d) /\ State(d) = State(c)
            /\ Listing(d) = <<EntryOf(header)>> \o Listing(c)
<1> DEFINE new   == Here(c)
           n     == Count[header.name]
           next  == Align(Wrap(new + 12 + n))
           dict  == [e \in DOMAIN c.dict \cup {new} |->
                       IF e = new THEN header ELSE c.dict[e]]
           chain == <<new>> \o c.chain
           e0    == [c EXCEPT !.dict = dict, !.chain = chain]
           d     == Store(e0, FF_LOC_HERE, next)
<1>1. AddEntry(c, header) = IF IsFree(c, new, next) THEN d ELSE Stop(c, "wild")
  BY DEF AddEntry
<1>2. /\ new \in Word /\ new \in Int /\ n \in Nat /\ n <= 126
      /\ header.name \in Token
  BY SystemCells, CountNat, WordInt DEF Headers, Sound
<1>3. /\ DOMAIN c = ContextField /\ c.dict \in [DOMAIN c.dict -> Headers]
      /\ DOMAIN c.dict \subseteq Word /\ c.chain \in Seq(DOMAIN c.dict)
      /\ IsContext(c)
  BY DEF Sound, IsContext
<1>4. Still(c, Stop(c, "wild"))
  BY <1>3, StopTyped DEF Status
<1>5. ASSUME IsFree(c, new, next)
      PROVE  new < next /\ next = Align(new + n + 12) /\ next \in Word
  <2>1. 1166 <= new /\ new <= next
    BY <1>5 DEF IsFree, FF_SYSTEM_VARIABLES_END
  <2>2. new <= 65535 /\ 0 <= n
    BY <1>2, WordInt
  <2>3. next = BehindHeader(new, n)
    BY DEF BehindHeader
  <2> HIDE DEF new, n, next
  <2> QED
    BY <1>2, <2>1, <2>2, <2>3, NextAbove
<1>6. ASSUME IsFree(c, new, next)
      PROVE  /\ Sound(d) /\ State(d) = State(c)
             /\ Listing(d) = <<EntryOf(header)>> \o Listing(c)
  <2>1. new \notin DOMAIN c.dict
    <3>1. SUFFICES ASSUME new \in DOMAIN c.dict PROVE FALSE
      OBVIOUS
    <3>2. next <= new \/ ParameterField(c, new) <= new
      BY <1>6, <3>1 DEF IsFree
    <3>3. new < ParameterField(c, new)
      BY <3>1 DEF Sound, Rooted
    <3>4. ParameterField(c, new) \in Int
      BY <1>3, <3>1, FieldWord, WordInt
    <3>5. next \in Int /\ new < next
      BY <1>5, <1>6, WordInt
    <3> QED
      BY <1>2, <3>2, <3>3, <3>4, <3>5
  <2>2. /\ dict \in [DOMAIN dict -> Headers] /\ DOMAIN dict \subseteq Word
        /\ DOMAIN dict = DOMAIN c.dict \cup {new} /\ dict[new] = header
        /\ \A e \in DOMAIN c.dict : dict[e] = c.dict[e]
    BY <1>2, <1>3, <2>1
  <2>3. /\ chain \in Seq(DOMAIN c.dict \cup {new})
        /\ Len(c.chain) \in Nat /\ Len(chain) = Len(c.chain) + 1
        /\ chain[1] = new
        /\ \A k \in 1 .. Len(c.chain) :
             /\ chain[k + 1] = c.chain[k]
             /\ c.chain[k] \in DOMAIN c.dict
    BY <1>3
  <2>4. /\ e0.dict = dict /\ e0.chain = chain /\ e0.mem = c.mem
        /\ DOMAIN e0 = ContextField /\ e0.stacks = c.stacks
        /\ e0.ip = c.ip /\ e0.recover = c.recover /\ e0.input = c.input
        /\ e0.word = c.word /\ e0.status = c.status
    BY <1>3 DEF ContextField
  <2> HIDE DEF dict, chain, e0, n, next, new
  <2>5. IsContext(e0)
    BY <1>3, <2>2, <2>3, <2>4 DEF IsContext
  <2>6. Alike(e0, d) /\ State(d) = State(e0)
    BY <1>5, <1>6, <2>5, StoreTyped, StoreVariable, WordInt DEF FF_LOC_HERE
  <2>7. State(d) = State(c)
    BY <2>4, <2>6, SameCells DEF State
  <2>8. IsContext(d) /\ d.dict = dict /\ d.chain = chain
    BY <2>4, <2>6 DEF Alike
  <2> HIDE DEF d
  <2>9. Rooted(d)
    <3>1. \A e \in DOMAIN d.dict : e < ParameterField(d, e)
      <4>1. TAKE e \in DOMAIN d.dict
      <4>2. CASE e = new
        BY <1>5, <1>6, <2>2, <2>8, <4>2 DEF ParameterField, n
      <4>3. CASE e # new
        <5>1. e \in DOMAIN c.dict /\ d.dict[e] = c.dict[e]
          BY <2>2, <2>8, <4>1, <4>3
        <5>2. ParameterField(d, e) = ParameterField(c, e)
          BY <5>1 DEF ParameterField
        <5> QED
          BY <5>1, <5>2 DEF Sound, Rooted
      <4> QED
        BY <4>2, <4>3
    <3>2. \A j, k \in DOMAIN d.chain : d.chain[j] = d.chain[k] => j = k
      <4>1. TAKE j, k \in DOMAIN d.chain
      <4>2. j \in 1 .. Len(c.chain) + 1 /\ k \in 1 .. Len(c.chain) + 1
        BY <2>3, <2>8, <4>1
      <4>3. HAVE d.chain[j] = d.chain[k]
      <4>4. ASSUME NEW i \in 1 .. Len(c.chain) + 1, i # 1
            PROVE  /\ i - 1 \in 1 .. Len(c.chain)
                   /\ d.chain[i] = c.chain[i - 1]
                   /\ d.chain[i] \in DOMAIN c.dict
        <5>1. i - 1 \in 1 .. Len(c.chain) /\ (i - 1) + 1 = i
          BY <2>3, <4>4
        <5>2. /\ chain[(i - 1) + 1] = c.chain[i - 1]
              /\ c.chain[i - 1] \in DOMAIN c.dict
          BY <2>3, <5>1
        <5> QED
          BY <2>8, <5>1, <5>2
      <4>5. d.chain[1] = new
        BY <2>3, <2>8
      <4>6. CASE j = 1 \/ k = 1
        BY <2>1, <4>2, <4>3, <4>4, <4>5, <4>6
      <4>7. CASE j # 1 /\ k # 1
        <5>1. DOMAIN c.chain = 1 .. Len(c.chain)
          BY <1>3
        <5>2. j - 1 = k - 1
          BY <4>2, <4>3, <4>4, <4>7, <5>1 DEF Sound, Rooted
        <5> QED
          BY <4>2, <5>2
      <4> QED
        BY <4>6, <4>7
    <3> QED
      BY <3>1, <3>2 DEF Rooted
  <2>10. Listing(d) = <<EntryOf(header)>> \o Listing(c)
    <3> DEFINE L == Listing(c)
    <3>1. /\ Listing(d) \in Seq(Entries) /\ Len(Listing(d)) = Len(c.chain) + 1
          /\ L \in Seq(Entries) /\ Len(L) = Len(c.chain)
      BY <1>3, <2>3, <2>8, ListingSeq
    <3>2. Listing(d)[1] = EntryOf(header)
      BY <2>2, <2>3, <2>8, ListingSeq
    <3>3. \A k \in 1 .. Len(c.chain) : Listing(d)[k + 1] = L[k]
      <4>1. TAKE k \in 1 .. Len(c.chain)
      <4>2. Listing(d)[k + 1] = EntryOf(d.dict[d.chain[k + 1]])
        <5>1. k + 1 \in 1 .. Len(d.chain)
          BY <2>3, <2>8, <4>1
        <5> QED
          BY <2>8, <5>1, ListingSeq
      <4>3. d.dict[d.chain[k + 1]] = c.dict[c.chain[k]]
        BY <2>2, <2>3, <2>8, <4>1
      <4>4. L[k] = EntryOf(c.dict[c.chain[k]])
        BY <1>3, <4>1, ListingSeq
      <4> QED
        BY <4>2, <4>3, <4>4
    <3>4. EntryOf(header) \in Entries
      BY EntryTyped
    <3> HIDE DEF L
    <3> DEFINE x == EntryOf(header)
               M == Listing(d)
    <3> HIDE DEF x, M
    <3>5. M = <<x>> \o L
      <4>1. <<x>> \o L \in Seq(Entries) /\ Len(<<x>> \o L) = Len(L) + 1
        BY <3>1, <3>4 DEF x
      <4>2. \A k \in 1 .. Len(M) : M[k] = (<<x>> \o L)[k]
        <5>1. TAKE k \in 1 .. Len(M)
        <5>2. CASE k = 1
          BY <3>1, <3>2, <5>2 DEF x, M
        <5>3. CASE k # 1
          <6>1. k - 1 \in 1 .. Len(L) /\ k = (k - 1) + 1 /\ Len(L) = Len(c.chain)
            BY <2>3, <3>1, <5>1, <5>3 DEF M
          <6>2. M[k] = L[k - 1]
            BY <3>3, <6>1 DEF M
          <6>3. (<<x>> \o L)[k] = L[k - 1]
            BY <3>1, <6>1
          <6> QED
            BY <6>2, <6>3
        <5> QED
          BY <5>2, <5>3
      <4>3. M \in Seq(Entries) /\ Len(M) = Len(<<x>> \o L)
        BY <3>1, <4>1 DEF M
      <4> QED
        BY <4>1, <4>2, <4>3, SeqEqual
    <3> QED
      BY <3>5 DEF x, M, L
  <2> QED
    BY <2>7, <2>8, <2>9, <2>10 DEF Sound
<1> QED
  BY <1>1, <1>4, <1>6

\* A new header in the place of the newest: the other words stay as they are.
LEMMA HeadChanged ==
  ASSUME NEW c, Sound(c), c.chain # <<>>, NEW header \in Headers,
         header.name = HeadOf(c).name
  PROVE  LET d == SetHead(c, header) IN
         /\ Sound(d) /\ d.mem = c.mem /\ d.chain = c.chain
         /\ Listing(d) = [Listing(c) EXCEPT ![1] = EntryOf(header)]
<1> DEFINE d == SetHead(c, header)
           h == c.chain[1]
<1>1. /\ DOMAIN c = ContextField /\ c.dict \in [DOMAIN c.dict -> Headers]
      /\ c.chain \in Seq(DOMAIN c.dict) /\ IsContext(c)
  BY DEF Sound, IsContext
<1>2. /\ Len(c.chain) \in Nat /\ 1 \in 1 .. Len(c.chain)
      /\ DOMAIN c.chain = 1 .. Len(c.chain) /\ h \in DOMAIN c.dict
  BY <1>1
<1>3. d = [c EXCEPT !.dict[h] = header]
  BY DEF SetHead
<1>4. /\ d.dict = [c.dict EXCEPT ![h] = header] /\ d.chain = c.chain
      /\ d.mem = c.mem /\ DOMAIN d = ContextField /\ d.stacks = c.stacks
      /\ d.ip = c.ip /\ d.recover = c.recover /\ d.input = c.input
      /\ d.word = c.word /\ d.status = c.status
  BY <1>1, <1>3 DEF ContextField
<1> HIDE DEF d
<1>5. /\ d.dict \in [DOMAIN c.dict -> Headers] /\ DOMAIN d.dict = DOMAIN c.dict
      /\ d.dict[h] = header
      /\ \A e \in DOMAIN c.dict : e # h => d.dict[e] = c.dict[e]
  BY <1>1, <1>2, <1>4
<1>6. IsContext(d)
  BY <1>1, <1>4, <1>5 DEF IsContext
<1>7. Rooted(d)
  <2>1. \A e \in DOMAIN c.dict : d.dict[e].name = c.dict[e].name
    BY <1>5 DEF HeadOf
  <2>2. \A e \in DOMAIN c.dict : ParameterField(d, e) = ParameterField(c, e)
    BY <2>1 DEF ParameterField
  <2> QED
    BY <1>4, <1>5, <2>2 DEF Sound, Rooted
<1>8. Listing(d) = [Listing(c) EXCEPT ![1] = EntryOf(header)]
  <2> DEFINE L == Listing(c)
             M == [L EXCEPT ![1] = EntryOf(header)]
  <2>1. /\ L \in Seq(Entries) /\ Len(L) = Len(c.chain)
        /\ Listing(d) \in Seq(Entries) /\ Len(Listing(d)) = Len(c.chain)
        /\ \A k \in 1 .. Len(c.chain) :
             /\ Listing(d)[k] = EntryOf(d.dict[c.chain[k]])
             /\ L[k] = EntryOf(c.dict[c.chain[k]])
    BY <1>1, <1>4, <1>6, ListingSeq
  <2>2. EntryOf(header) \in Entries
    BY EntryTyped
  <2> HIDE DEF L
  <2>3. /\ M \in Seq(Entries) /\ Len(M) = Len(L)
        /\ \A k \in 1 .. Len(L) :
             M[k] = IF k = 1 THEN EntryOf(header) ELSE L[k]
    BY <1>2, <2>1, <2>2, ExceptSeq
  <2>4. \A k \in 1 .. Len(c.chain) : k # 1 => c.chain[k] # h
    BY <1>2 DEF Sound, Rooted
  <2> HIDE DEF M
  <2>5. \A k \in 1 .. Len(c.chain) : Listing(d)[k] = M[k]
    <3>1. TAKE k \in 1 .. Len(c.chain)
    <3>2. CASE k = 1
      BY <1>2, <1>5, <2>1, <2>3, <3>2
    <3>3. CASE k # 1
      <4>1. c.chain[k] \in DOMAIN c.dict /\ c.chain[k] # h
        BY <1>1, <2>4, <3>1, <3>3
      <4>2. d.dict[c.chain[k]] = c.dict[c.chain[k]]
        BY <1>5, <4>1
      <4> QED
        BY <2>1, <2>3, <3>1, <3>3, <4>2
    <3> QED
      BY <3>2, <3>3
  <2>6. Listing(d) = M
    BY <2>1, <2>3, <2>5, SeqEqual
  <2> QED
    BY <2>6 DEF M, L
<1> QED
  BY <1>4, <1>6, <1>7, <1>8 DEF Sound, d

\* A header that differs in what the list does not show.
LEMMA HeadAlike ==
  ASSUME NEW c, Sound(c), c.chain # <<>>, NEW header \in Headers,
         header.name = HeadOf(c).name, EntryOf(header) = EntryOf(HeadOf(c))
  PROVE  Changed(c, SetHead(c, header))
<1> DEFINE d == SetHead(c, header)
           L == Listing(c)
<1>1. Sound(d) /\ Listing(d) = [L EXCEPT ![1] = EntryOf(header)]
  BY HeadChanged
<1>2. L \in Seq(Entries) /\ 1 \in 1 .. Len(L) /\ L[1] = EntryOf(HeadOf(c))
  <2>0. c.chain \in Seq(DOMAIN c.dict) /\ IsContext(c)
    BY DEF Sound, IsContext
  <2>1. IsContext(c) /\ Len(c.chain) \in Nat /\ 1 \in 1 .. Len(c.chain)
    BY <2>0
  <2> QED
    BY <2>1, ListingSeq DEF HeadOf
<1> HIDE DEF d, L
<1>3. [L EXCEPT ![1] = L[1]] = L
  BY <1>2
<1> QED
  BY <1>1, <1>2, <1>3 DEF Changed, Moved, d, L

\* ABORT forgets the newest word if STATE is 1, and otherwise nothing.
Ended(c, d) ==
  /\ Changed(c, d) /\ d.stacks["data"] = <<>>
  /\ State(d) # 1 \/ d.chain = <<>>

LEMMA AbortEnds ==
  ASSUME NEW c, Sound(c)
  PROVE  /\ Ended(c, Abort(c))
         /\ State(c) # 1 \/ c.chain = <<>> => Still(c, Abort(c))
<1> DEFINE none == [s \in Stacks |-> <<>>]
           d == [c EXCEPT !.input = <<>>, !.ip = c.recover, !.stacks = none]
           q == Tail(d.chain)
           e == [d EXCEPT !.chain = q]
           f == Store(e, FF_LOC_STATE, 0)
<1>1. /\ DOMAIN c = ContextField /\ c.chain \in Seq(DOMAIN c.dict)
      /\ IsContext(c)
  BY DEF Sound, IsContext
<1>2. Abort(c) = IF State(c) # 1 THEN d
                 ELSE IF c.chain = <<>> THEN Stop(d, "wild") ELSE f
  BY <1>1 DEF Abort, ContextField
<1>3. none \in [Stacks -> Seq(Word)] /\ none["data"] = <<>>
  BY DEF Stacks
<1> HIDE DEF none
<1>4. /\ DOMAIN d = ContextField /\ d.stacks = none /\ d.input = <<>>
      /\ d.ip = c.recover /\ d.recover = c.recover /\ d.mem = c.mem
      /\ d.dict = c.dict /\ d.chain = c.chain /\ d.word = c.word
      /\ d.status = c.status
  BY <1>1 DEF ContextField
<1> HIDE DEF d
<1>5. Still(c, d)
  <2>1. <<>> \in Seq(Token)
    OBVIOUS
  <2>2. IsContext(d)
    BY <1>1, <1>3, <1>4, <2>1 DEF IsContext
  <2> QED
    BY <1>4, <2>2 DEF Still, Alike
<1>6. Still(d, Stop(d, "wild")) /\ Stop(d, "wild").stacks = none
  BY <1>4, <1>5, StopTyped, StillAlike DEF Status, Stop, ContextField
<1>7. State(d) = State(c)
  BY <1>4, SameCells DEF State
<1>8. CASE State(c) # 1
  <2>1. Changed(c, d)
    BY <1>5, AlikeSound, StillAlike
  <2> QED
    BY <1>2, <1>3, <1>4, <1>5, <1>7, <1>8, <2>1 DEF Ended
<1>9. CASE State(c) = 1 /\ c.chain = <<>>
  <2>1. Abort(c) = Stop(d, "wild")
    BY <1>2, <1>9
  <2>2. Still(c, Stop(d, "wild"))
    BY <1>5, <1>6, StillTrans
  <2>3. Changed(c, Stop(d, "wild"))
    BY <2>2, AlikeSound, StillAlike
  <2>4. Stop(d, "wild").chain = <<>>
    BY <1>9, <2>2 DEF Still, Alike
  <2> QED
    BY <1>3, <1>6, <2>1, <2>2, <2>3, <2>4 DEF Ended
<1>10. CASE State(c) = 1 /\ c.chain # <<>>
  <2>1. /\ q = Tail(c.chain) /\ q \in Seq(DOMAIN c.dict)
        /\ Len(c.chain) \in Nat /\ Len(q) = Len(c.chain) - 1
        /\ DOMAIN q = 1 .. Len(q) /\ Len(q) \in Nat
        /\ DOMAIN c.chain = 1 .. Len(c.chain)
        /\ \A k \in 1 .. Len(q) : q[k] = c.chain[k + 1]
    <3>1. q = Tail(c.chain) /\ c.chain # <<>>
      BY <1>4, <1>10
    <3> HIDE DEF q
    <3>2. /\ q \in Seq(DOMAIN c.dict) /\ Len(q) = Len(c.chain) - 1
          /\ \A k \in 1 .. Len(q) : q[k] = c.chain[k + 1]
      BY <1>1, <3>1, HeadTailProperties
    <3>3. /\ Len(c.chain) \in Nat /\ DOMAIN c.chain = 1 .. Len(c.chain)
          /\ DOMAIN q = 1 .. Len(q) /\ Len(q) \in Nat
      BY <1>1, <3>2
    <3> QED
      BY <3>1, <3>2, <3>3
  <2> HIDE DEF q
  <2>2. /\ DOMAIN e = ContextField /\ e.chain = q /\ e.stacks = none
        /\ e.mem = c.mem /\ e.dict = c.dict /\ e.ip = d.ip
        /\ e.recover = d.recover /\ e.input = d.input /\ e.word = d.word
        /\ e.status = d.status
    BY <1>4 DEF ContextField
  <2> HIDE DEF e
  <2>3. IsContext(e)
    BY <1>5, <2>1, <2>2, <1>4 DEF IsContext, Still, Alike
  <2>4. Rooted(e)
    <3>1. \A x \in DOMAIN e.dict : ParameterField(e, x) = ParameterField(c, x)
      BY <2>2 DEF ParameterField
    <3>2. \A j, k \in DOMAIN e.chain : e.chain[j] = e.chain[k] => j = k
      <4>1. TAKE j, k \in DOMAIN e.chain
      <4>2. /\ j \in 1 .. Len(q) /\ k \in 1 .. Len(q)
            /\ j + 1 \in DOMAIN c.chain /\ k + 1 \in DOMAIN c.chain
        BY <2>1, <2>2, <4>1
      <4>3. HAVE e.chain[j] = e.chain[k]
      <4>4. c.chain[j + 1] = c.chain[k + 1]
        BY <2>1, <2>2, <4>2, <4>3
      <4>5. j + 1 = k + 1
        BY <4>2, <4>4 DEF Sound, Rooted
      <4> QED
        BY <4>2, <4>5
    <3> QED
      BY <2>2, <3>1, <3>2 DEF Sound, Rooted
  <2>5. Alike(e, f) /\ State(f) = 0
    BY <2>3, StoreTyped, StoreVariable, WordInt DEF FF_LOC_STATE
  <2>6. f.stacks = none
    BY <2>2 DEF Store, Stop, ContextField
  <2> HIDE DEF f
  <2>7. Sound(f) /\ Listing(f) = Listing(e)
    BY <2>3, <2>4, <2>5, AlikeSound DEF Sound
  <2>8. Listing(e) = Tail(Listing(c))
    <3> DEFINE L == Listing(c)
               M == Listing(e)
    <3>1. /\ L \in Seq(Entries) /\ Len(L) = Len(c.chain)
          /\ M \in Seq(Entries) /\ Len(M) = Len(q)
          /\ \A k \in 1 .. Len(c.chain) : L[k] = EntryOf(c.dict[c.chain[k]])
          /\ \A k \in 1 .. Len(q) : M[k] = EntryOf(c.dict[q[k]])
      BY <1>1, <2>2, <2>3, ListingSeq
    <3> HIDE DEF L, M
    <3>2. \A k \in 1 .. Len(q) : M[k] = L[k + 1]
      <4>1. TAKE k \in 1 .. Len(q)
      <4>2. k + 1 \in 1 .. Len(c.chain) /\ q[k] = c.chain[k + 1]
        BY <2>1, <4>1
      <4>3. L[k + 1] = EntryOf(c.dict[c.chain[k + 1]])
        BY <3>1, <4>2
      <4> QED
        BY <3>1, <4>1, <4>2, <4>3
    <3>3. /\ Tail(L) \in Seq(Entries) /\ Len(Tail(L)) = Len(q)
          /\ \A k \in 1 .. Len(q) : Tail(L)[k] = L[k + 1]
      <4>1. L # <<>>
        BY <2>1, <3>1
      <4> QED
        BY <2>1, <3>1, <4>1, HeadTailProperties
    <3>4. M = Tail(L)
      BY <3>1, <3>2, <3>3, SeqEqual
    <3> QED
      BY <3>4 DEF L, M
  <2>9. Forgets(c, f)
    BY <1>10, <2>5, <2>7, <2>8 DEF Forgets
  <2>10. Abort(c) = f
    BY <1>2, <1>10
  <2> QED
    BY <1>3, <1>10, <2>5, <2>6, <2>7, <2>9, <2>10 DEF Ended, Changed, Moved
<1> QED
  BY <1>8, <1>9, <1>10

-----------------------------------------------------------------------------
(* What each word does to the list.                                        *)

LEMMA ContinueAlike ==
  ASSUME NEW c, NEW d, Alike(c, d) PROVE Alike(c, Continue(d))
<1>1. IsContext(d)
  BY DEF Alike
<1>2. Still(d, Continue(d))
  BY <1>1, ContinueTyped
<1> QED
  BY <1>2, StillAlike, AlikeTrans

LEMMA ContinueStill ==
  ASSUME NEW c, NEW d, Still(c, d) PROVE Still(c, Continue(d))
<1>1. Still(d, Continue(d))
  BY StillAlike, ContinueTyped
<1> QED
  BY <1>1, StillTrans

LEMMA ContinueChanged ==
  ASSUME NEW c, NEW d, Changed(c, d) PROVE Changed(c, Continue(d))
<1>1. Still(d, Continue(d))
  BY ContinueTyped DEF Changed, Sound
<1> QED
  BY <1>1, MovesStill

LEMMA AlikeChanged ==
  ASSUME NEW c, NEW d, Sound(c), Alike(c, d) PROVE Changed(c, d)
BY AlikeSound

LEMMA StillChanged ==
  ASSUME NEW c, NEW d, Sound(c), Still(c, d)
  PROVE  Changed(c, d) /\ Sound(d) /\ IsContext(d) /\ d.chain = c.chain
<1>1. Alike(c, d)
  BY StillAlike
<1> QED
  BY <1>1, AlikeSound DEF Alike

LEMMA AbortChanged ==
  ASSUME NEW c, NEW d, Sound(c), Still(c, d) PROVE Changed(c, Abort(d))
<1>1. Changed(d, Abort(d))
  BY StillChanged, AbortEnds DEF Ended
<1> QED
  BY <1>1, StillMoves

\* What leaves the list and the data space as they are, or gives up.
Idle(c, d) == Still(c, d) \/ \E e : Still(c, e) /\ d = Abort(e)

LEMMA IdleChanged ==
  ASSUME NEW c, NEW d, Sound(c), Idle(c, d) PROVE Changed(c, d)
BY StillChanged, AbortChanged DEF Idle

LEMMA StillIdle ==
  ASSUME NEW c, NEW d, Still(c, d) PROVE Idle(c, d)
BY DEF Idle

LEMMA AbortIdle == ASSUME NEW c, IsContext(c) PROVE Idle(c, Abort(c))
<1>1. Still(c, c)
  BY StillSelf
<1> QED
  BY <1>1 DEF Idle

LEMMA IdleAfter ==
  ASSUME NEW c, NEW d, NEW e, Still(c, d), Idle(d, e) PROVE Idle(c, e)
BY StillTrans DEF Idle

LEMMA TakingIdle ==
  ASSUME NEW c, Sound(c), NEW n, NEW d, Idle(c, d)
  PROVE  Idle(c, Taking(c, n, d))
BY AbortIdle DEF Taking, Sound

LEMMA PushingIdle ==
  ASSUME NEW c, Sound(c), NEW s, NEW d, Idle(c, d)
  PROVE  Idle(c, Pushing(c, s, d))
BY AbortIdle DEF Pushing, Sound

LEMMA StopStill ==
  ASSUME NEW c, IsContext(c)
  PROVE  /\ Still(c, Stop(c, "wild")) /\ Still(c, Stop(c, "assert"))
         /\ Still(c, Stop(c, "underflow")) /\ Still(c, Stop(c, "bye"))
         /\ Still(c, Stop(c, "illegal"))
BY StopTyped DEF Status

LEMMA TakingChanged ==
  ASSUME NEW c, Sound(c), NEW n, NEW d, Changed(c, d)
  PROVE  Changed(c, Taking(c, n, d))
<1>1. Changed(c, Abort(c))
  BY AbortEnds DEF Ended
<1> QED
  BY <1>1 DEF Taking

LEMMA PushingChanged ==
  ASSUME NEW c, Sound(c), NEW s, NEW d, Changed(c, d)
  PROVE  Changed(c, Pushing(c, s, d))
<1>1. Changed(c, Abort(c))
  BY AbortEnds DEF Ended
<1> QED
  BY <1>1 DEF Pushing

LEMMA LessStill ==
  ASSUME NEW c, IsContext(c)
  PROVE  /\ Still(c, Less(c)) /\ Still(c, LessTwo(c))
         /\ First(c) \in Word /\ Second(c) \in Word
<1>0. "data" \in Stacks
  BY DEF Stacks
<1>1. Still(c, Less(c))
  BY <1>0, PopTyped DEF Less
<1>2. IsContext(Less(c))
  BY <1>1, StillAlike
<1>3. Still(Less(c), Less(Less(c)))
  BY <1>0, <1>2, PopTyped DEF Less
<1>4. First(c) \in Word
  BY <1>0, PoppedWord DEF First
<1>5. Second(c) \in Word
  BY <1>0, <1>2, PoppedWord DEF Second, Less
<1> QED
  BY <1>1, <1>3, <1>4, <1>5, StillTrans DEF LessTwo

LEMMA PutStill ==
  ASSUME NEW c, NEW d, Still(c, d), NEW v \in Word
  PROVE  Still(c, Put(d, v)) /\ Still(c, Continue(Put(d, v)))
<1>1. Still(d, Put(d, v))
  BY StillAlike, PushTyped DEF Put, Stacks
<1>2. Still(c, Put(d, v))
  BY <1>1, StillTrans
<1> QED
  BY <1>2, ContinueStill

LEMMA ZeroOne == 0 \in Word /\ 1 \in Word
BY WordInt

LEMMA SumWord == \A a, b \in Word : Wrap(a + b) \in Word
<1>1. \A a, b \in Word : a + b \in Int
  BY WordInt
<1> QED
  BY <1>1, WrapWord

LEMMA NextWord ==
  \A a \in Word : Wrap(a + 2) \in Word /\ Wrap(a + 4) \in Word
<1>1. \A a \in Word : a + 2 \in Int /\ a + 4 \in Int
  BY WordInt
<1> QED
  BY <1>1, WrapWord

LEMMA DropIdle == ASSUME NEW c, Sound(c) PROVE Idle(c, Drop(c))
<1>1. Still(c, Continue(Less(c)))
  BY LessStill, ContinueStill DEF Sound
<1> QED
  BY <1>1, StillIdle, TakingIdle DEF Drop

LEMMA EmitIdle == ASSUME NEW c, Sound(c) PROVE Idle(c, Emit(c))
<1>1. Still(c, Continue(Less(c)))
  BY LessStill, ContinueStill DEF Sound
<1> QED
  BY <1>1, StillIdle, TakingIdle DEF Emit

LEMMA VariableIdle ==
  ASSUME NEW c, Sound(c), NEW a \in Word PROVE Idle(c, Variable(c, a))
<1>1. Still(c, Continue(Put(c, a)))
  BY StillSelf, PutStill DEF Sound
<1> QED
  BY <1>1, StillIdle, PushingIdle DEF Variable

LEMMA DupIdle == ASSUME NEW c, Sound(c) PROVE Idle(c, Dup(c))
<1>1. First(c) \in Word /\ Still(c, c)
  BY LessStill, StillSelf DEF Sound
<1>2. Idle(c, Continue(Put(c, First(c))))
  BY <1>1, PutStill, StillIdle
<1> QED
  BY <1>2, PushingIdle, TakingIdle DEF Dup

LEMMA TwoForOneIdle ==
  ASSUME NEW c, Sound(c), NEW v \in Word
  PROVE  Idle(c, Taking(c, 2, Continue(Put(LessTwo(c), v))))
<1>1. Still(c, LessTwo(c))
  BY LessStill DEF Sound
<1>2. Idle(c, Continue(Put(LessTwo(c), v)))
  BY <1>1, PutStill, StillIdle
<1> QED
  BY <1>2, TakingIdle

LEMMA AddIdle == ASSUME NEW c, Sound(c) PROVE Idle(c, Add(c))
<1>1. Wrap(First(c) + Second(c)) \in Word
  BY LessStill, SumWord DEF Sound
<1> QED
  BY <1>1, TwoForOneIdle DEF Add

LEMMA EqualIdle == ASSUME NEW c, Sound(c) PROVE Idle(c, Equal(c))
<1>1. (IF First(c) = Second(c) THEN 1 ELSE 0) \in Word
  BY ZeroOne
<1> QED
  BY <1>1, TwoForOneIdle DEF Equal

\* A word that reads the cell behind it.
LEMMA OperandWord ==
  ASSUME NEW c, IsContext(c), KeptCell(c, Wrap(c.ip + 2))
  PROVE  Operand(c) \in Word
<1>1. Wrap(c.ip + 2) \in Word
  BY NextWord DEF IsContext
<1> QED
  BY <1>1, KeptWord DEF Operand

LEMMA ReadingStill ==
  ASSUME NEW c, IsContext(c), NEW d, Operand(c) \in Word => Still(c, d)
  PROVE  Still(c, Reading(c, d))
BY OperandWord, StopStill DEF Reading

LEMMA LiteralIdle == ASSUME NEW c, Sound(c) PROVE Idle(c, Literal(c))
<1> DEFINE v == Operand(c)
           d == Put(c, v)
           a == Wrap(c.ip + 4)
           e == [d EXCEPT !.ip = a]
<1>1. a \in Word /\ IsContext(c)
  BY NextWord DEF Sound, IsContext
<1>2. Literal(c) = Pushing(c, "data", Reading(c, e))
  BY DEF Literal
<1> HIDE DEF a
<1>3. ASSUME v \in Word PROVE Still(c, e)
  <2>1. Still(c, d)
    BY <1>1, <1>3, StillSelf, PutStill
  <2> HIDE DEF d
  <2> QED
    BY <1>1, <2>1, StillAlike, IpTyped, StillTrans
<1> HIDE DEF e
<1>4. Still(c, Reading(c, e))
  BY <1>1, <1>3, ReadingStill
<1> QED
  BY <1>2, <1>4, StillIdle, PushingIdle

LEMMA DotIdle == ASSUME NEW c, Sound(c) PROVE Idle(c, Dot(c))
<1> DEFINE d == Less(c)
<1>1. Still(c, d) /\ IsContext(c) /\ IsContext(d)
  BY LessStill, StillAlike DEF Sound
<1>2. Dot(c) \in {Stop(c, "underflow"), Stop(d, "wild"), Stop(d, "assert"),
                  Continue(d)}
  BY DotOutcomes
<1> HIDE DEF d
<1>3. \A x \in {Stop(c, "underflow"), Stop(d, "wild"), Stop(d, "assert"),
                Continue(d)} : Still(c, x)
  <2>1. Still(c, Stop(c, "underflow")) /\ Still(c, Continue(d))
    BY <1>1, StopStill, ContinueStill
  <2>2. Still(d, Stop(d, "wild")) /\ Still(d, Stop(d, "assert"))
    BY <1>1, StopStill
  <2>3. Still(c, Stop(d, "wild")) /\ Still(c, Stop(d, "assert"))
    BY <1>1, <2>2, StillTrans
  <2> QED
    BY <2>1, <2>3
<1> QED
  BY <1>2, <1>3, StillIdle

LEMMA AtIdle == ASSUME NEW c, Sound(c) PROVE Idle(c, At(c))
<1> DEFINE a == First(c)
           x == Continue(Put(Less(c), CellAt(c, a)))
           r == IF IsEmpty(c, "data") THEN Stop(c, "underflow")
                ELSE IF KeptCell(c, a) THEN x
                ELSE Stop(c, "wild")
<1>1. At(c) = Pushing(c, "data", r)
  BY DEF At
<1>2. Still(c, Less(c)) /\ a \in Word
  BY LessStill DEF Sound
<1>3. KeptCell(c, a) => Still(c, x)
  BY <1>2, KeptWord, PutStill DEF Sound
<1> HIDE DEF x
<1>4. Still(c, r)
  BY <1>3, StopStill DEF Sound
<1> QED
  BY <1>1, <1>4, StillIdle, PushingIdle

LEMMA CAtIdle == ASSUME NEW c, Sound(c) PROVE Idle(c, CAt(c))
<1> DEFINE a == First(c)
           n == IF c.word = "" THEN 0 ELSE Count[c.word]
           b == Extended(ByteAt(c, a))
           x == Continue(Put(Less(c), n))
           y == Continue(Put(Less(c), b))
           r == CASE a = FF_LOC_WORD_BUFFER -> x
                  [] IsKept(c, a) -> y
                  [] OTHER        -> Stop(c, "wild")
<1>1. CAt(c) = Taking(c, 1, r)
  BY DEF CAt
<1>2. n \in Word
  <2>1. c.word = "" \/ c.word \in Token
    BY DEF Sound, IsContext
  <2> QED
    BY <2>1, CountWord, ZeroOne
<1>3. b \in Word
  <2> DEFINE k == ByteAt(c, a)
  <2>1. k \in Byte
    BY LessStill, ByteWord DEF Sound
  <2> HIDE DEF k
  <2>2. k \in Int /\ 0 <= k /\ k <= 255
    BY <2>1, ByteInt
  <2>3. Extended(k) \in Word
    BY <2>2, WordInt DEF Extended
  <2> QED
    BY <2>3 DEF k
<1> HIDE DEF n, b
<1>4. Still(c, x) /\ Still(c, y)
  BY <1>2, <1>3, LessStill, PutStill DEF Sound
<1>5. r \in {x, y, Stop(c, "wild")}
  OBVIOUS
<1> HIDE DEF x, y, r
<1>6. Still(c, r)
  BY <1>4, <1>5, StopStill DEF Sound
<1> QED
  BY <1>1, <1>6, StillIdle, TakingIdle

\* Storing and compiling leave the list as it is.
LEMMA StoreAlike ==
  ASSUME NEW c, NEW d, Alike(c, d), NEW a \in Word, NEW v \in Word
  PROVE  Alike(c, Store(d, a, v)) /\ Alike(c, Continue(Store(d, a, v)))
<1>1. Alike(d, Store(d, a, v))
  BY StoreTyped DEF Alike
<1> QED
  BY <1>1, AlikeTrans, ContinueAlike

LEMMA CompileAlike ==
  ASSUME NEW c, NEW d, Alike(c, d), NEW cells \in Seq(Word),
         Len(cells) \in {1, 2}
  PROVE  Alike(c, Compile(d, cells)) /\ Alike(c, Continue(Compile(d, cells)))
<1>1. Alike(d, Compile(d, cells))
  BY CompileTyped DEF Alike
<1> QED
  BY <1>1, AlikeTrans, ContinueAlike

LEMMA StoreWordMoves == ASSUME NEW c, Sound(c) PROVE Changed(c, StoreWord(c))
<1>1. /\ Alike(c, LessTwo(c)) /\ First(c) \in Word /\ Second(c) \in Word
  BY LessStill, StillAlike DEF Sound
<1>2. Alike(c, Continue(Store(LessTwo(c), First(c), Second(c))))
  BY <1>1, StoreAlike
<1> QED
  BY <1>2, AlikeChanged, TakingChanged DEF StoreWord

LEMMA AllotMoves == ASSUME NEW c, Sound(c) PROVE Changed(c, Allot(c))
<1> DEFINE v == Wrap(Here(c) + First(c))
<1>1. Alike(c, Less(c)) /\ v \in Word
  BY LessStill, StillAlike, SystemCells, SumWord DEF Sound
<1>2. FF_LOC_HERE \in Word
  BY WordInt DEF FF_LOC_HERE
<1> HIDE DEF v
<1>3. Alike(c, Continue(Store(Less(c), FF_LOC_HERE, v)))
  BY <1>1, <1>2, StoreAlike
<1> QED
  BY <1>3, AlikeChanged, TakingChanged DEF Allot, v

LEMMA OneCell ==
  ASSUME NEW v \in Word
  PROVE  <<v>> \in Seq(Word) /\ Len(<<v>>) \in {1, 2}
OBVIOUS

LEMMA TwoCells ==
  ASSUME NEW v \in Word, NEW w \in Word
  PROVE  <<v, w>> \in Seq(Word) /\ Len(<<v, w>>) \in {1, 2}
OBVIOUS

LEMMA CommaMoves == ASSUME NEW c, Sound(c) PROVE Changed(c, Comma(c))
<1>1. Alike(c, Less(c)) /\ First(c) \in Word
  BY LessStill, StillAlike DEF Sound
<1>2. Alike(c, Continue(Compile(Less(c), <<First(c)>>)))
  BY <1>1, OneCell, CompileAlike
<1> QED
  BY <1>2, AlikeChanged, TakingChanged DEF Comma

\* Going on elsewhere.
LEMMA GoStill ==
  ASSUME NEW c, NEW d, Still(c, d), NEW a \in Word
  PROVE  Still(c, [d EXCEPT !.ip = a])
<1>1. Still(d, [d EXCEPT !.ip = a])
  BY StillAlike, IpTyped
<1> QED
  BY <1>1, StillTrans

LEMMA EnterIdle ==
  ASSUME NEW c, Sound(c), NEW w \in DOMAIN c.dict
  PROVE  Idle(c, Enter(c, w))
<1> DEFINE a == Wrap(c.ip + 2)
           d == Push(c, "return", a)
<1>1. a \in Word /\ ParameterField(c, w) \in Word
  BY FieldWord, NextWord DEF Sound, IsContext
<1> HIDE DEF a
<1>2. Still(c, d)
  BY <1>1, PushTyped DEF Sound, Stacks
<1>3. Enter(c, w) = Pushing(c, "return",
                            [d EXCEPT !.ip = ParameterField(c, w)])
  BY DEF Enter, a
<1> HIDE DEF d
<1>4. Still(c, [d EXCEPT !.ip = ParameterField(c, w)])
  BY <1>1, <1>2, GoStill
<1> QED
  BY <1>3, <1>4, StillIdle, PushingIdle

LEMMA ExitIdle == ASSUME NEW c, Sound(c) PROVE Idle(c, Exit(c))
<1> DEFINE d == Pop(c, "return")
           a == Popped(c, "return")
<1>1. Still(c, d) /\ a \in Word
  BY PopTyped, PoppedWord DEF Sound, Stacks
<1>2. Exit(c) = IF IsEmpty(c, "return") THEN Abort(c) ELSE [d EXCEPT !.ip = a]
  BY DEF Exit
<1> HIDE DEF d, a
<1>3. Idle(c, [d EXCEPT !.ip = a]) /\ Idle(c, Abort(c))
  BY <1>1, GoStill, StillIdle, AbortIdle DEF Sound
<1> QED
  BY <1>2, <1>3

LEMMA JumpIdle == ASSUME NEW c, Sound(c) PROVE Idle(c, Jump(c))
<1> DEFINE d == [c EXCEPT !.ip = Operand(c)]
<1>1. IsContext(c) /\ Still(c, c)
  BY StillSelf DEF Sound
<1>2. Operand(c) \in Word => Still(c, d)
  BY <1>1, GoStill
<1> HIDE DEF d
<1>3. Still(c, Reading(c, d))
  BY <1>1, <1>2, ReadingStill
<1> QED
  BY <1>3, StillIdle DEF Jump, d

LEMMA JumpIfFalseIdle ==
  ASSUME NEW c, Sound(c) PROVE Idle(c, JumpIfFalse(c))
<1> DEFINE d == Less(c)
           x == [d EXCEPT !.ip = Operand(c)]
           y == [d EXCEPT !.ip = Wrap(c.ip + 4)]
<1>1. JumpIfFalse(c) = Taking(c, 1, IF First(c) = 0 THEN Reading(c, x) ELSE y)
  BY DEF JumpIfFalse
<1>2. Wrap(c.ip + 4) \in Word /\ IsContext(c) /\ Still(c, d)
  BY NextWord, LessStill DEF Sound, IsContext
<1> HIDE DEF d
<1>3. Still(c, y) /\ (Operand(c) \in Word => Still(c, x))
  BY <1>2, GoStill
<1> HIDE DEF x, y
<1>4. Still(c, Reading(c, x))
  BY <1>2, <1>3, ReadingStill
<1>5. Still(c, IF First(c) = 0 THEN Reading(c, x) ELSE y)
  BY <1>3, <1>4
<1> QED
  BY <1>1, <1>5, StillIdle, TakingIdle

LEMMA CreateEnterIdle ==
  ASSUME NEW c, Sound(c), NEW w \in DOMAIN c.dict
  PROVE  Idle(c, CreateEnter(c, w))
<1>1. ParameterField(c, w) \in Word
  BY FieldWord DEF Sound
<1> QED
  BY <1>1, VariableIdle DEF CreateEnter

LEMMA DoesEnterIdle ==
  ASSUME NEW c, Sound(c), NEW w \in DOMAIN c.dict
  PROVE  Idle(c, DoesEnter(c, w))
<1> DEFINE d == Put(c, ParameterField(c, w))
           a == Wrap(c.ip + 2)
           e == Push(d, "return", a)
           f == [e EXCEPT !.ip = c.dict[w].does]
<1>1. ParameterField(c, w) \in Word /\ a \in Word
  BY FieldWord, NextWord DEF Sound, IsContext
<1>2. c.dict[w].does \in Word
  BY DEF Sound, IsContext, Headers
<1>3. Still(c, d)
  BY <1>1, StillSelf, PutStill DEF Sound
<1>4. DoesEnter(c, w) = Pushing(c, "data", Pushing(d, "return", f))
  BY DEF DoesEnter
<1> HIDE DEF d, a
<1>5. Still(d, e)
  BY <1>1, <1>3, StillAlike, PushTyped DEF Stacks
<1> HIDE DEF e
<1>6. Still(d, f)
  BY <1>2, <1>5, GoStill
<1> HIDE DEF f
<1>7. Sound(d)
  BY <1>3, StillChanged
<1>8. Idle(d, Pushing(d, "return", f))
  BY <1>6, <1>7, StillIdle, PushingIdle
<1>9. Idle(c, Pushing(d, "return", f))
  BY <1>3, <1>8, IdleAfter
<1> QED
  BY <1>4, <1>9, PushingIdle

-----------------------------------------------------------------------------
(* Words that read, look up or compile.                                    *)

LEMMA ParseTyped ==
  ASSUME NEW c, IsContext(c)
  PROVE  /\ Still(c, Parse(c))
         /\ Parse(c).word = "" \/ Parse(c).word \in Token
<1>1. DOMAIN c = ContextField /\ c.input \in Seq(Token)
  BY DEF IsContext
<1>2. ASSUME NEW w \in Token \cup {""}, NEW q \in Seq(Token)
      PROVE  Still(c, [c EXCEPT !.word = w, !.input = q])
  <2> DEFINE d == [c EXCEPT !.word = w, !.input = q]
  <2>1. /\ DOMAIN d = ContextField /\ d.mem = c.mem /\ d.dict = c.dict
        /\ d.chain = c.chain /\ d.stacks = c.stacks /\ d.ip = c.ip
        /\ d.recover = c.recover /\ d.input = q /\ d.word = w
        /\ d.status = c.status
    BY <1>1 DEF ContextField
  <2> HIDE DEF d
  <2>2. IsContext(d)
    BY <2>1 DEF IsContext
  <2> QED
    BY <2>1, <2>2 DEF Still, Alike, d
<1>3. CASE c.input = <<>>
  <2>1. Parse(c) = [c EXCEPT !.word = ""]
    BY <1>3 DEF Parse
  <2>2. [c EXCEPT !.word = ""] = [c EXCEPT !.word = "", !.input = c.input]
    BY <1>1 DEF ContextField
  <2>3. Parse(c).word = ""
    BY <1>1, <2>1 DEF ContextField
  <2>4. "" \in Token \cup {""}
    OBVIOUS
  <2>5. Still(c, [c EXCEPT !.word = "", !.input = c.input])
    BY <1>1, <1>2, <2>4
  <2>6. Still(c, Parse(c))
    BY <2>1, <2>2, <2>5
  <2> QED
    BY <2>3, <2>6
<1>4. CASE c.input # <<>>
  <2> DEFINE w == Head(c.input)
             q == Tail(c.input)
  <2>1. w \in Token /\ q \in Seq(Token)
    BY <1>1, <1>4, HeadTailProperties
  <2>2. Parse(c) = [c EXCEPT !.word = w, !.input = q]
    BY <1>4 DEF Parse
  <2> HIDE DEF w, q
  <2>3. Parse(c).word = w
    BY <1>1, <2>2 DEF ContextField
  <2>4. w \in Token \cup {""}
    BY <2>1
  <2>5. Still(c, [c EXCEPT !.word = w, !.input = q])
    BY <1>2, <2>1, <2>4
  <2>6. Still(c, Parse(c))
    BY <2>2, <2>5
  <2> QED
    BY <2>1, <2>3, <2>6
<1> QED
  BY <1>3, <1>4

\* The newest of some entries of the list.
LEMMA NewestTyped ==
  ASSUME NEW c, IsContext(c), NEW T, T \subseteq 1 .. Len(c.chain),
         NEW i, i = IF T = {} THEN 0
                    ELSE c.chain[CHOOSE k \in T : \A j \in T : k <= j]
  PROVE  i \in Word /\ (i = 0 \/ (i \in DOMAIN c.dict /\ c.chain # <<>>))
<1>1. c.chain \in Seq(DOMAIN c.dict) /\ DOMAIN c.dict \subseteq Word
  BY DEF IsContext
<1>2. CASE T = {}
  BY <1>2, ZeroOne
<1>3. CASE T # {}
  <2> DEFINE k == CHOOSE k \in T : \A j \in T : k <= j
  <2>1. Len(c.chain) \in Nat
    BY <1>1
  <2>2. T \subseteq Nat
    BY <2>1
  <2>3. \E n \in T : \A m \in T : n <= m
    BY <1>3, <2>2, Least
  <2>4. k \in T
    BY <2>3
  <2>5. i = c.chain[k]
    BY <1>3
  <2> HIDE DEF k
  <2>6. k \in 1 .. Len(c.chain)
    BY <2>4
  <2>7. i \in DOMAIN c.dict /\ c.chain # <<>>
    BY <1>1, <2>1, <2>5, <2>6
  <2> QED
    BY <1>1, <2>7
<1> QED
  BY <1>2, <1>3

LEMMA LookupTyped ==
  ASSUME NEW c, IsContext(c), NEW name
  PROVE  /\ Lookup(c, name) \in Word
         /\ Lookup(c, name) = 0 \/ Lookup(c, name) \in DOMAIN c.dict
<1> DEFINE T == {k \in 1 .. Len(c.chain) : c.dict[c.chain[k]].name = name}
<1>1. Lookup(c, name) = IF T = {} THEN 0
                        ELSE c.chain[CHOOSE k \in T : \A j \in T : k <= j]
  BY DEF Lookup, Newest
<1>2. T \subseteq 1 .. Len(c.chain)
  OBVIOUS
<1> HIDE DEF T
<1> QED
  BY <1>1, <1>2, NewestTyped

LEMMA ViaOpcodeTyped ==
  ASSUME NEW c, IsContext(c), NEW code
  PROVE  /\ ViaOpcode(c, code) \in Word
         /\ ViaOpcode(c, code) # 0 => c.chain # <<>>
<1> DEFINE T == {k \in 1 .. Len(c.chain) : c.dict[c.chain[k]].code = code}
<1>1. ViaOpcode(c, code) = IF T = {} THEN 0
                        ELSE c.chain[CHOOSE k \in T : \A j \in T : k <= j]
  BY DEF ViaOpcode, Newest
<1>2. T \subseteq 1 .. Len(c.chain)
  OBVIOUS
<1> HIDE DEF T
<1> QED
  BY <1>1, <1>2, NewestTyped

\* What leaves the list, or has given up what was begun, and with it the data.
Quits(c, d) == Still(c, d) \/ Ended(c, d)

LEMMA QuitsChanged ==
  ASSUME NEW c, NEW d, Sound(c), Quits(c, d) PROVE Changed(c, d) /\ Sound(d)
BY StillChanged DEF Quits, Ended, Changed

LEMMA AbortQuits ==
  ASSUME NEW c, NEW d, Sound(c), Still(c, d) PROVE Ended(c, Abort(d))
<1>1. Ended(d, Abort(d))
  BY StillChanged, AbortEnds
<1> QED
  BY <1>1, StillMoves DEF Ended

LEMMA IdleQuits ==
  ASSUME NEW c, NEW d, Sound(c), Idle(c, d) PROVE Quits(c, d)
BY AbortQuits DEF Idle, Quits

LEMMA FindIdle ==
  ASSUME NEW c, Sound(c)
  PROVE  /\ Idle(c, Find(c))
         /\ ~IsEmpty(Find(c), "data") => Still(c, Find(c))
<1> DEFINE p == Parse(c)
           v == IF p.word = "" THEN 0 ELSE Lookup(p, p.word)
<1>1. Still(c, p)
  BY ParseTyped DEF Sound
<1>2. v \in Word
  BY <1>1, StillAlike, LookupTyped, ZeroOne
<1>3. Find(c) = Pushing(c, "data", Continue(Put(p, v)))
  BY DEF Find
<1> HIDE DEF p, v
<1>4. Still(c, Continue(Put(p, v)))
  BY <1>1, <1>2, PutStill
<1>5. Idle(c, Abort(c)) /\ Abort(c).stacks["data"] = <<>>
  BY AbortIdle, AbortEnds DEF Sound, Ended
<1>6. Find(c) = Abort(c) \/ Find(c) = Continue(Put(p, v))
  BY <1>3 DEF Pushing
<1> QED
  BY <1>4, <1>5, <1>6, StillIdle DEF IsEmpty

LEMMA NumberIdle ==
  ASSUME NEW c, Sound(c) PROVE Idle(c, Number(c))
<1> DEFINE n == PNumber(Spelling[c.word], Base(c))
           u == IF n = Wrong THEN First(c) ELSE n
           v == IF n = Wrong THEN 0 ELSE 1
           d == Put(Less(c), u)
           x == Pushing(d, "data", Continue(Put(d, v)))
<1>1. Number(c) = Taking(c, 1,
                    IF First(c) # FF_LOC_WORD_BUFFER \/ c.word = ""
                      THEN Stop(c, "wild") ELSE x)
  BY DEF Number
<1>2. ASSUME c.word # "" PROVE Idle(c, x)
  <2>1. Spelling[c.word] \in Seq(Byte) /\ Spelling[c.word] # <<>>
    <3>1. c.word \in Token
      BY <1>2 DEF Sound, IsContext
    <3> QED
      BY <3>1, SpellingAssumption
  <2>2. n \in Word \cup {Wrong}
    BY <2>1, SystemCells, PNumberWord DEF Sound
  <2> HIDE DEF n
  <2>3. u \in Word /\ v \in Word
    BY <2>2, LessStill, ZeroOne DEF Sound
  <2> HIDE DEF u, v
  <2>4. Still(c, d)
    BY <2>3, LessStill, PutStill DEF Sound
  <2>5. Still(c, Continue(Put(d, v)))
    BY <2>3, <2>4, PutStill
  <2> HIDE DEF d
  <2>6. Pushing(d, "data", Continue(Put(d, v)))
          \in {Abort(d), Continue(Put(d, v))}
    BY DEF Pushing
  <2> QED
    BY <2>4, <2>5, <2>6 DEF Idle
<1>3. Idle(c, Abort(c)) /\ Still(c, Stop(c, "wild"))
  BY AbortIdle, StopStill DEF Sound
<1> HIDE DEF x
<1> QED
  BY <1>1, <1>2, <1>3, StillIdle DEF Taking

LEMMA IsImmediateIdle ==
  ASSUME NEW c, Sound(c) PROVE Idle(c, IsImmediate(c))
<1> DEFINE v == IF "IMMEDIATE" \in c.dict[First(c)].flags THEN 1 ELSE 0
           x == Continue(Put(Less(c), v))
<1>1. IsImmediate(c) = Taking(c, 1, IF First(c) \notin DOMAIN c.dict
                                      THEN Stop(c, "wild") ELSE x)
  BY DEF IsImmediate
<1>2. v \in Word
  BY ZeroOne
<1> HIDE DEF v
<1>3. Still(c, x) /\ Still(c, Stop(c, "wild"))
  BY <1>2, LessStill, PutStill, StopStill DEF Sound
<1> HIDE DEF x
<1> QED
  BY <1>1, <1>3, StillIdle, TakingIdle

LEMMA CompileLiteralMoves ==
  ASSUME NEW c, Sound(c) PROVE Changed(c, CompileLiteral(c))
<1> DEFINE push == ViaOpcode(c, "PUSH")
           x == Continue(Compile(Less(c), <<push, First(c)>>))
<1>1. CompileLiteral(c) = Taking(c, 1, IF push = 0 THEN Stop(c, "assert")
                                                   ELSE x)
  BY DEF CompileLiteral
<1>2. push \in Word /\ First(c) \in Word /\ Alike(c, Less(c))
  BY ViaOpcodeTyped, LessStill, StillAlike DEF Sound
<1> HIDE DEF push
<1>3. Alike(c, x)
  BY <1>2, TwoCells, CompileAlike
<1>4. Alike(c, Stop(c, "assert"))
  BY StopStill, StillAlike DEF Sound
<1> HIDE DEF x
<1> QED
  BY <1>1, <1>3, <1>4, AlikeChanged, TakingChanged

LEMMA ParenIdle == ASSUME NEW c, Sound(c) PROVE Idle(c, Paren(c))
<1> DEFINE T == {k \in 1 .. Len(c.input) : Parens(c.input[k]) # {}}
           i == CHOOSE k \in T : \A j \in T : k <= j
           q == SubSeq(c.input, i + 1, Len(c.input))
<1>0. c.input \in Seq(Token)
  BY DEF Sound, IsContext
<1>1. c.input \in Seq(Token) /\ Len(c.input) \in Nat
  BY <1>0
<1>2. Paren(c) = IF T = {} THEN Abort(c)
                 ELSE IF Parens(c.input[i]) = {Count[c.input[i]]}
                   THEN Continue([c EXCEPT !.input = q])
                   ELSE Stop(c, "wild")
  BY DEF Paren
<1>3. Idle(c, Abort(c)) /\ Idle(c, Stop(c, "wild"))
  BY AbortIdle, StopStill, StillIdle DEF Sound
<1>4. ASSUME T # {} PROVE Idle(c, Continue([c EXCEPT !.input = q]))
  <2>1. T \subseteq Nat /\ T \subseteq 1 .. Len(c.input)
    BY <1>1
  <2>2. \E n \in T : \A m \in T : n <= m
    <3> HIDE DEF T
    <3> QED
      BY <1>4, <2>1, Least
  <2>3. i \in T
    <3> HIDE DEF T
    <3> QED
      BY <2>2
  <2>4. i \in 1 .. Len(c.input)
    BY <2>1, <2>3
  <2> HIDE DEF i, T
  <2>5. q \in Seq(Token)
    <3>1. i + 1 \in Int /\ \A j \in i + 1 .. Len(c.input) : c.input[j] \in Token
      BY <1>1, <2>4
    <3> QED
      BY <1>1, <3>1, SubSeqProperties
  <2> HIDE DEF q
  <2>6. Still(c, [c EXCEPT !.input = q])
    BY <2>5, InputTyped DEF Sound
  <2> QED
    BY <2>6, ContinueStill, StillIdle
<1> HIDE DEF T, i, q
<1> QED
  BY <1>2, <1>3, <1>4

LEMMA QueryIdle ==
  ASSUME NEW c, Sound(c), NEW line \in Seq(Token)
  PROVE  Idle(c, Query(c, line))
<1>1. Still(c, [c EXCEPT !.input = line])
  BY InputTyped DEF Sound
<1> QED
  BY <1>1, ContinueStill, StillIdle DEF Query

LEMMA DecompileIdle ==
  ASSUME NEW c, Sound(c) PROVE Idle(c, Decompile(c))
<1> DEFINE x == IF First(c) \in DOMAIN c.dict THEN Continue(Less(c))
                ELSE Stop(c, "wild")
<1>1. Decompile(c) = Taking(c, 1, x)
  BY DEF Decompile
<1>2. Still(c, Continue(Less(c))) /\ Still(c, Stop(c, "wild"))
  BY LessStill, ContinueStill, StopStill DEF Sound
<1>3. Idle(c, x)
  BY <1>2, StillIdle
<1> HIDE DEF x
<1> QED
  BY <1>1, <1>3, TakingIdle

-----------------------------------------------------------------------------
(* IF ELSE THEN BEGIN AGAIN.                                               *)

LEMMA PushAlike ==
  ASSUME NEW c, NEW d, Alike(c, d), NEW s \in Stacks, NEW v \in Word
  PROVE  Alike(c, Push(d, s, v)) /\ Alike(c, Continue(Push(d, s, v)))
<1>1. IsContext(d)
  BY DEF Alike
<1>2. Alike(d, Push(d, s, v))
  BY <1>1, PushTyped, StillAlike
<1> QED
  BY <1>2, AlikeTrans, ContinueAlike

LEMMA BeginIdle == ASSUME NEW c, Sound(c) PROVE Idle(c, Begin(c))
<1>1. Still(c, Push(c, "control", Here(c)))
  BY SystemCells, PushTyped DEF Sound, Stacks
<1>2. Still(c, Continue(Push(c, "control", Here(c))))
  BY <1>1, ContinueStill
<1> QED
  BY <1>2, StillIdle, PushingIdle DEF Begin

LEMMA IfMoves == ASSUME NEW c, Sound(c) PROVE Changed(c, If(c))
<1> DEFINE jump == ViaOpcode(c, "JUMP_IF")
           a == Wrap(Here(c) + 2)
           d == Compile(c, <<jump, 0>>)
           x == Continue(Push(d, "control", a))
<1>1. If(c) = Pushing(c, "control", IF jump = 0 THEN Stop(c, "assert") ELSE x)
  BY DEF If
<1>2. jump \in Word /\ a \in Word /\ Alike(c, c)
  BY ViaOpcodeTyped, SystemCells, NextWord, StillSelf, StillAlike DEF Sound
<1> HIDE DEF jump, a
<1>3. Alike(c, d)
  BY <1>2, ZeroOne, TwoCells, CompileAlike
<1> HIDE DEF d
<1>4. Alike(c, x)
  BY <1>2, <1>3, PushAlike DEF Stacks
<1>5. Alike(c, Stop(c, "assert"))
  BY StopStill, StillAlike DEF Sound
<1> HIDE DEF x
<1> QED
  BY <1>1, <1>4, <1>5, AlikeChanged, PushingChanged

LEMMA ControlTyped ==
  ASSUME NEW c, Sound(c)
  PROVE  /\ Alike(c, Pop(c, "control")) /\ Control(c) \in Word
         /\ Changed(c, Abort(c)) /\ Changed(c, Stop(c, "assert"))
<1>1. Still(c, Pop(c, "control")) /\ Control(c) \in Word
  BY PopTyped, PoppedWord DEF Control, Sound, Stacks
<1>2. Changed(c, Abort(c))
  BY AbortEnds DEF Ended
<1>3. Changed(c, Stop(c, "assert"))
  BY StopStill, StillChanged DEF Sound
<1> QED
  BY <1>1, <1>2, <1>3, StillAlike

LEMMA ThenMoves == ASSUME NEW c, Sound(c) PROVE Changed(c, Then(c))
<1> DEFINE x == Continue(Store(Pop(c, "control"), Control(c), Here(c)))
<1>1. Then(c) = IF IsEmpty(c, "control") THEN Abort(c) ELSE x
  BY DEF Then
<1>2. Alike(c, x)
  BY ControlTyped, SystemCells, StoreAlike DEF Sound
<1> HIDE DEF x
<1> QED
  BY <1>1, <1>2, AlikeChanged, ControlTyped

LEMMA ElseMoves == ASSUME NEW c, Sound(c) PROVE Changed(c, Else(c))
<1> DEFINE jump == ViaOpcode(c, "JUMP")
           here == Here(c)
           next == Wrap(here + 4)
           back == Wrap(here + 2)
           d == Store(Pop(c, "control"), here, jump)
           e == Store(d, Control(c), next)
           f == Push(e, "control", back)
           x == Continue(Store(f, FF_LOC_HERE, next))
<1>1. Else(c) = IF IsEmpty(c, "control") THEN Abort(c)
                ELSE IF jump = 0 THEN Stop(c, "assert") ELSE x
  BY DEF Else
<1>2. /\ jump \in Word /\ here \in Word /\ next \in Word /\ back \in Word
      /\ FF_LOC_HERE \in Word
  BY ViaOpcodeTyped, SystemCells, NextWord, WordInt DEF Sound, FF_LOC_HERE
<1> HIDE DEF jump, here, next, back
<1>3. Alike(c, d)
  BY <1>2, ControlTyped, StoreAlike
<1> HIDE DEF d
<1>4. Alike(c, e)
  BY <1>2, <1>3, ControlTyped, StoreAlike
<1> HIDE DEF e
<1>5. Alike(c, f)
  BY <1>2, <1>4, PushAlike DEF Stacks
<1> HIDE DEF f
<1>6. Alike(c, x)
  BY <1>2, <1>5, StoreAlike
<1> HIDE DEF x
<1> QED
  BY <1>1, <1>6, AlikeChanged, ControlTyped

LEMMA AgainMoves == ASSUME NEW c, Sound(c) PROVE Changed(c, Again(c))
<1> DEFINE jump == ViaOpcode(c, "JUMP")
           x == Continue(Compile(Pop(c, "control"), <<jump, Control(c)>>))
<1>1. Again(c) = IF IsEmpty(c, "control") THEN Abort(c)
                 ELSE IF jump = 0 THEN Stop(c, "assert") ELSE x
  BY DEF Again
<1>2. jump \in Word
  BY ViaOpcodeTyped DEF Sound
<1> HIDE DEF jump
<1>3. Alike(c, x)
  BY <1>2, ControlTyped, TwoCells, CompileAlike
<1> HIDE DEF x
<1> QED
  BY <1>1, <1>3, AlikeChanged, ControlTyped

-----------------------------------------------------------------------------
(* Words that define words.                                                *)

LEMMA HeaderTyped ==
  ASSUME NEW name \in Token, NEW code \in OpCode, NEW flags \in SUBSET Flag,
         NEW does \in Word
  PROVE  /\ Header(name, code, flags, does) \in Headers
         /\ Header(name, code, flags, does).flags = flags
         /\ Header(name, code, flags, does).name = name
BY DEF Header, Headers

LEMMA HeadTyped ==
  ASSUME NEW c, IsContext(c), c.chain # <<>>
  PROVE  HeadOf(c) \in Headers
<1>1. c.chain \in Seq(DOMAIN c.dict) /\ c.dict \in [DOMAIN c.dict -> Headers]
  BY DEF IsContext
<1> QED
  BY <1>1 DEF HeadOf

LEMMA HeadWild ==
  ASSUME NEW c, Sound(c), c.chain = <<>>, NEW h
  PROVE  Changed(c, SetHead(c, h))
<1>1. SetHead(c, h) = Stop(c, "wild")
  BY DEF SetHead
<1> QED
  BY <1>1, StopStill, StillChanged DEF Sound

LEMMA FirstOfList ==
  ASSUME NEW c, Sound(c), c.chain # <<>>
  PROVE  /\ Listing(c) \in Seq(Entries) /\ 1 \in 1 .. Len(Listing(c))
         /\ Listing(c)[1] = EntryOf(HeadOf(c))
<1>0. c.chain \in Seq(DOMAIN c.dict) /\ IsContext(c)
  BY DEF Sound, IsContext
<1>1. 1 \in 1 .. Len(c.chain)
  BY <1>0
<1> QED
  BY <1>0, <1>1, ListingSeq DEF HeadOf

LEMMA FieldChanged ==
  ASSUME NEW n, NEW o, NEW i, NEW v, NEW x,
         x = [name |-> n, open |-> o, immediate |-> i]
  PROVE  /\ [x EXCEPT !.open = v]
              = [name |-> n, open |-> v, immediate |-> i]
         /\ [x EXCEPT !.immediate = v]
              = [name |-> n, open |-> o, immediate |-> v]
OBVIOUS

LEMMA ClosedEntry ==
  ASSUME NEW h \in Headers
  PROVE  LET g == [h EXCEPT !.flags = @ \ {"DIRTY"}] IN
         /\ g \in Headers /\ g.name = h.name
         /\ EntryOf(g) = [EntryOf(h) EXCEPT !.open = FALSE]
<1> DEFINE g == [h EXCEPT !.flags = @ \ {"DIRTY"}]
<1>1. g \in Headers /\ g.name = h.name /\ g.flags = h.flags \ {"DIRTY"}
  BY DEF Headers
<1> HIDE DEF g
<1>2. ~ ("DIRTY" \in g.flags)
  BY <1>1
<1>3. ("IMMEDIATE" \in g.flags) <=> ("IMMEDIATE" \in h.flags)
  BY <1>1
<1>4. ("DIRTY" \in g.flags) = FALSE
  BY <1>2
<1>5. ("IMMEDIATE" \in g.flags) = ("IMMEDIATE" \in h.flags)
  BY <1>3
<1>6. EntryOf(g) = [name |-> h.name, open |-> FALSE,
                    immediate |-> "IMMEDIATE" \in h.flags]
  BY <1>1, <1>4, <1>5, Zenon DEF EntryOf
<1> DEFINE i == "IMMEDIATE" \in h.flags
           o == "DIRTY" \in h.flags
<1>7. EntryOf(h) = [name |-> h.name, open |-> o, immediate |-> i]
  BY DEF EntryOf
<1> HIDE DEF i, o
<1> DEFINE v == FALSE
<1> HIDE DEF v
<1>8. [EntryOf(h) EXCEPT !.open = v]
        = [name |-> h.name, open |-> v, immediate |-> i]
  BY <1>7, FieldChanged
<1>9. EntryOf(g) = [EntryOf(h) EXCEPT !.open = FALSE]
  BY <1>6, <1>8, Zenon DEF i, v
<1> QED
  BY <1>1, <1>9 DEF g

LEMMA MarkedEntry ==
  ASSUME NEW h \in Headers
  PROVE  LET g == [h EXCEPT !.flags = @ \cup {"IMMEDIATE"}] IN
         /\ g \in Headers /\ g.name = h.name
         /\ EntryOf(g) = [EntryOf(h) EXCEPT !.immediate = TRUE]
<1> DEFINE g == [h EXCEPT !.flags = @ \cup {"IMMEDIATE"}]
<1>1. /\ g \in Headers /\ g.name = h.name
      /\ g.flags = h.flags \cup {"IMMEDIATE"}
  BY DEF Headers, Flag
<1> HIDE DEF g
<1>2. "IMMEDIATE" \in g.flags
  BY <1>1
<1>3. ("DIRTY" \in g.flags) <=> ("DIRTY" \in h.flags)
  BY <1>1
<1>4. ("IMMEDIATE" \in g.flags) = TRUE
  BY <1>2
<1>5. ("DIRTY" \in g.flags) = ("DIRTY" \in h.flags)
  BY <1>3
<1>6. EntryOf(g) = [name |-> h.name, open |-> "DIRTY" \in h.flags,
                    immediate |-> TRUE]
  BY <1>1, <1>4, <1>5, Zenon DEF EntryOf
<1> DEFINE i == "IMMEDIATE" \in h.flags
           o == "DIRTY" \in h.flags
<1>7. EntryOf(h) = [name |-> h.name, open |-> o, immediate |-> i]
  BY DEF EntryOf
<1> HIDE DEF i, o
<1> DEFINE v == TRUE
<1> HIDE DEF v
<1>8. [EntryOf(h) EXCEPT !.immediate = v]
        = [name |-> h.name, open |-> o, immediate |-> v]
  BY <1>7, FieldChanged
<1>9. EntryOf(g) = [EntryOf(h) EXCEPT !.immediate = TRUE]
  BY <1>6, <1>8, Zenon DEF o, v
<1> QED
  BY <1>1, <1>9 DEF g

LEMMA ImmediateMoves == ASSUME NEW c, Sound(c) PROVE Changed(c, Immediate(c))
<1> DEFINE g == [HeadOf(c) EXCEPT !.flags = @ \cup {"IMMEDIATE"}]
           d == SetHead(c, g)
<1>1. Immediate(c) = Continue(d)
  BY DEF Immediate
<1>2. CASE c.chain = <<>>
  BY <1>1, <1>2, HeadWild, ContinueChanged
<1>3. CASE c.chain # <<>>
  <2>1. HeadOf(c) \in Headers
    BY <1>3, HeadTyped DEF Sound
  <2>2. /\ g \in Headers /\ g.name = HeadOf(c).name
        /\ EntryOf(g) = [EntryOf(HeadOf(c)) EXCEPT !.immediate = TRUE]
    BY <2>1, MarkedEntry
  <2> HIDE DEF g
  <2>3. /\ Sound(d) /\ d.mem = c.mem
        /\ Listing(d) = [Listing(c) EXCEPT ![1] = EntryOf(g)]
    BY <1>3, <2>2, HeadChanged
  <2> HIDE DEF d
  <2>4. State(d) = State(c)
    BY <2>3, SameCells DEF State
  <2>5. Listing(d) = [Listing(c) EXCEPT ![1].immediate = TRUE]
    BY <1>3, <2>2, <2>3, FirstOfList
  <2>6. Marks(c, d)
    BY <1>3, <2>4, <2>5 DEF Marks
  <2>7. Changed(c, d)
    BY <2>3, <2>6 DEF Changed, Moved
  <2> QED
    BY <1>1, <2>7, ContinueChanged
<1> QED
  BY <1>2, <1>3

LEMMA SemicolonMoves == ASSUME NEW c, Sound(c) PROVE Changed(c, Semicolon(c))
<1> DEFINE exit == ViaOpcode(c, "EXIT")
           b == Compile(c, <<exit>>)
           d == Store(b, FF_LOC_STATE, 0)
           g == [HeadOf(d) EXCEPT !.flags = @ \ {"DIRTY"}]
           e == SetHead(d, g)
<1>1. Semicolon(c) = IF exit = 0 THEN Stop(c, "assert") ELSE Continue(e)
  BY DEF Semicolon
<1>2. exit \in Word /\ (exit # 0 => c.chain # <<>>) /\ Alike(c, c)
  BY ViaOpcodeTyped, StillSelf, StillAlike DEF Sound
<1> HIDE DEF exit
<1>3. Alike(c, b)
  BY <1>2, OneCell, CompileAlike
<1> HIDE DEF b
<1>4. Alike(c, d) /\ State(d) = 0
  <2>1. IsContext(b) /\ FF_LOC_STATE \in Word /\ 0 \in Word
    BY <1>3, WordInt DEF Alike, FF_LOC_STATE
  <2> QED
    BY <1>3, <2>1, StoreAlike, StoreVariable
<1> HIDE DEF d
<1>5. Sound(d) /\ Listing(d) = Listing(c) /\ d.chain = c.chain
  BY <1>4, AlikeSound DEF Alike
<1>6. ASSUME exit # 0 PROVE Changed(c, e)
  <2>0. d.chain # <<>>
    BY <1>2, <1>5, <1>6
  <2>1. HeadOf(d) \in Headers
    BY <1>5, <2>0, HeadTyped DEF Sound
  <2>2. /\ g \in Headers /\ g.name = HeadOf(d).name
        /\ EntryOf(g) = [EntryOf(HeadOf(d)) EXCEPT !.open = FALSE]
    BY <2>1, ClosedEntry
  <2> HIDE DEF g
  <2>3. /\ Sound(e) /\ e.mem = d.mem
        /\ Listing(e) = [Listing(d) EXCEPT ![1] = EntryOf(g)]
    BY <1>5, <2>0, <2>2, HeadChanged
  <2> HIDE DEF e
  <2>4. State(e) # 1
    BY <1>4, <2>3, SameCells DEF State
  <2>5. Listing(e) = [Listing(d) EXCEPT ![1].open = FALSE]
    BY <1>5, <2>0, <2>2, <2>3, FirstOfList
  <2>6. Closes(c, e)
    BY <1>5, <2>0, <2>4, <2>5 DEF Closes
  <2> QED
    BY <2>3, <2>6 DEF Changed, Moved
<1>7. Changed(c, Stop(c, "assert"))
  BY ControlTyped
<1> HIDE DEF e
<1> QED
  BY <1>1, <1>6, <1>7, ContinueChanged

\* A new entry, whose fields in the list are x.
LEMMA AddedEntry ==
  ASSUME NEW c, Sound(c), NEW p, Still(c, p), NEW header \in Headers
  PROVE  LET d == AddEntry(p, header) IN
         \/ Still(c, d)
         \/ /\ Sound(d) /\ State(d) = State(c)
            /\ Listing(d) = <<EntryOf(header)>> \o Listing(c)
<1> DEFINE d == AddEntry(p, header)
<1>1. Sound(p) /\ Listing(p) = Listing(c)
  BY StillAlike, AlikeSound
<1>2. State(p) = State(c)
  BY SameCells DEF Still, State
<1>3. \/ Still(p, d)
      \/ /\ Sound(d) /\ State(d) = State(p)
         /\ Listing(d) = <<EntryOf(header)>> \o Listing(p)
  BY <1>1, EntryAdded
<1> HIDE DEF d
<1>4. Still(p, d) => Still(c, d)
  BY StillTrans
<1> QED
  BY <1>1, <1>2, <1>3, <1>4 DEF d

LEMMA PlainEntry ==
  ASSUME NEW h \in Headers, "DIRTY" \notin h.flags
  PROVE  EntryOf(h) \in Entries /\ ~EntryOf(h).open
<1>1. ~ ("DIRTY" \in h.flags)
  OBVIOUS
<1> DEFINE i == "IMMEDIATE" \in h.flags
           o == "DIRTY" \in h.flags
<1>2. EntryOf(h) = [name |-> h.name, open |-> o, immediate |-> i]
  BY DEF EntryOf
<1> HIDE DEF i, o
<1>3. EntryOf(h).open = o
  BY <1>2
<1>4. ~EntryOf(h).open
  BY <1>1, <1>3, Zenon DEF o
<1> QED
  BY <1>4, EntryTyped

LEMMA DirtyEntry ==
  ASSUME NEW h \in Headers, h.flags = {"MACHINE_CODE", "DIRTY"}
  PROVE  EntryOf(h) \in Entries /\ EntryOf(h).open /\ ~EntryOf(h).immediate
<1>1. "DIRTY" \in h.flags /\ ~ ("IMMEDIATE" \in h.flags)
  OBVIOUS
<1> DEFINE i == "IMMEDIATE" \in h.flags
           o == "DIRTY" \in h.flags
<1>2. EntryOf(h) = [name |-> h.name, open |-> o, immediate |-> i]
  BY DEF EntryOf
<1> HIDE DEF i, o
<1>3. EntryOf(h).open = o /\ EntryOf(h).immediate = i
  BY <1>2
<1>4. EntryOf(h).open /\ ~EntryOf(h).immediate
  BY <1>1, <1>3, Zenon DEF o, i
<1> QED
  BY <1>4, EntryTyped

LEMMA OpenHeader ==
  ASSUME NEW name \in Token
  PROVE  LET h == Header(name, "ENTER", {"MACHINE_CODE", "DIRTY"}, 0) IN
         h \in Headers /\ h.flags = {"MACHINE_CODE", "DIRTY"}
<1> DEFINE flags == {"MACHINE_CODE", "DIRTY"}
<1>1. flags \in SUBSET Flag
  BY DEF Flag
<1>2. "ENTER" \in OpCode
  BY DEF OpCode
<1> HIDE DEF flags
<1>3. Header(name, "ENTER", flags, 0) \in Headers
  BY <1>1, <1>2, ZeroOne, HeaderTyped
<1>4. Header(name, "ENTER", flags, 0).flags = flags
  BY <1>1, <1>2, ZeroOne, HeaderTyped
<1> QED
  BY <1>3, <1>4 DEF flags

LEMMA CreateHeader ==
  ASSUME NEW name \in Token, NEW does \in Word
  PROVE  LET h == Header(name, "CREATE_ENTER", {"MACHINE_CODE"}, does) IN
         h \in Headers /\ h.flags = {"MACHINE_CODE"}
<1> DEFINE flags == {"MACHINE_CODE"}
<1>1. flags \in SUBSET Flag
  BY DEF Flag
<1>2. "CREATE_ENTER" \in OpCode
  BY DEF OpCode
<1> HIDE DEF flags
<1>3. Header(name, "CREATE_ENTER", flags, does) \in Headers
  BY <1>1, <1>2, HeaderTyped
<1>4. Header(name, "CREATE_ENTER", flags, does).flags = flags
  BY <1>1, <1>2, HeaderTyped
<1> QED
  BY <1>3, <1>4 DEF flags

LEMMA ColonMoves == ASSUME NEW c, Sound(c) PROVE Changed(c, Colon(c))
<1> DEFINE p == Parse(c)
           h == Header(p.word, "ENTER", {"MACHINE_CODE", "DIRTY"}, 0)
           b == AddEntry(p, h)
           d == Store(b, FF_LOC_STATE, 1)
<1>1. Colon(c) = Pushing(c, "data", IF p.word = "" THEN Abort(p)
                                    ELSE Continue(d))
  BY DEF Colon
<1>2. Still(c, p) /\ (p.word = "" \/ p.word \in Token)
  BY ParseTyped DEF Sound
<1>3. Changed(c, Abort(p))
  BY <1>2, AbortChanged
<1>4. ASSUME p.word # "" PROVE Changed(c, d)
  <2>1. p.word \in Token
    BY <1>2, <1>4
  <2> HIDE DEF p
  <2>2. h \in Headers /\ h.flags = {"MACHINE_CODE", "DIRTY"}
    BY <2>1, OpenHeader
  <2>3. /\ EntryOf(h) \in Entries /\ EntryOf(h).open
        /\ ~EntryOf(h).immediate
    BY <2>2, DirtyEntry
  <2> HIDE DEF h
  <2>4. \/ Still(c, b)
        \/ Sound(b) /\ Listing(b) = <<EntryOf(h)>> \o Listing(c)
    BY <1>2, <2>2, AddedEntry
  <2> HIDE DEF b
  <2>5. Sound(b)
    BY <2>4, StillChanged
  <2>6. Alike(b, d) /\ State(d) = 1
    <3>1. IsContext(b) /\ FF_LOC_STATE \in Word /\ 1 \in Word
      BY <2>5, WordInt DEF Sound, FF_LOC_STATE
    <3> QED
      BY <3>1, StoreTyped, StoreVariable
  <2> HIDE DEF d
  <2>7. Sound(d) /\ Listing(d) = Listing(b)
    BY <2>5, <2>6, AlikeSound
  <2>8. CASE Still(c, b)
    <3>1. Listing(b) = Listing(c)
      BY <2>8, StillAlike, AlikeSound
    <3> QED
      BY <2>7, <3>1 DEF Changed, Moved
  <2>9. CASE Listing(b) = <<EntryOf(h)>> \o Listing(c)
    <3>1. Opens(c, d, EntryOf(h))
      BY <2>3, <2>6, <2>7, <2>9 DEF Opens
    <3> QED
      BY <2>3, <2>7, <3>1 DEF Changed, Moved
  <2> QED
    BY <2>4, <2>8, <2>9
<1> HIDE DEF d
<1>5. p.word # "" => Changed(c, Continue(d))
  BY <1>4, ContinueChanged
<1> QED
  BY <1>1, <1>3, <1>5, PushingChanged

\* A word that is not open is declared.
LEMMA Declared ==
  ASSUME NEW c, Sound(c), NEW p, Still(c, p), NEW h \in Headers,
         EntryOf(h) \in Entries, ~EntryOf(h).open
  PROVE  Changed(c, AddEntry(p, h))
<1> DEFINE d == AddEntry(p, h)
<1>1. \/ Still(c, d)
      \/ /\ Sound(d) /\ State(d) = State(c)
         /\ Listing(d) = <<EntryOf(h)>> \o Listing(c)
  BY AddedEntry
<1> SUFFICES Changed(c, d)
  OBVIOUS
<1> HIDE DEF d
<1>2. CASE Still(c, d)
  BY <1>2, StillChanged
<1>3. CASE /\ Sound(d) /\ State(d) = State(c)
           /\ Listing(d) = <<EntryOf(h)>> \o Listing(c)
  <2>1. Declares(c, d, EntryOf(h))
    BY <1>3 DEF Declares
  <2> QED
    BY <1>3, <2>1 DEF Changed, Moved
<1> QED
  BY <1>1, <1>2, <1>3

LEMMA CreateMoves ==
  ASSUME NEW c, Sound(c), NEW w \in DOMAIN c.dict
  PROVE  Changed(c, Create(c, w))
<1> DEFINE p == Parse(c)
           h == Header(p.word, "CREATE_ENTER", {"MACHINE_CODE"},
                       c.dict[w].does)
           b == AddEntry(p, h)
<1>1. Create(c, w) = Pushing(c, "data", IF p.word = "" THEN Abort(p)
                                        ELSE Continue(b))
  BY DEF Create
<1>2. Still(c, p) /\ (p.word = "" \/ p.word \in Token)
  BY ParseTyped DEF Sound
<1>3. Changed(c, Abort(p))
  BY <1>2, AbortChanged
<1>4. c.dict[w].does \in Word
  BY DEF Sound, IsContext, Headers
<1>5. ASSUME p.word # "" PROVE Changed(c, b)
  <2>1. p.word \in Token
    BY <1>2, <1>5
  <2> HIDE DEF p
  <2>2. h \in Headers /\ h.flags = {"MACHINE_CODE"}
    <3> DEFINE does == c.dict[w].does
    <3>1. does \in Word
      BY <1>4
    <3> HIDE DEF does
    <3>2. LET g == Header(p.word, "CREATE_ENTER", {"MACHINE_CODE"}, does) IN
          g \in Headers /\ g.flags = {"MACHINE_CODE"}
      BY <2>1, <3>1, CreateHeader
    <3> QED
      BY <3>2 DEF does
  <2> HIDE DEF h
  <2>3. EntryOf(h) \in Entries /\ ~EntryOf(h).open
    <3>1. "DIRTY" \notin h.flags
      BY <2>2
    <3> QED
      BY <2>2, <3>1, PlainEntry
  <2> QED
    BY <1>2, <2>2, <2>3, Declared
<1> HIDE DEF b
<1>6. p.word # "" => Changed(c, Continue(b))
  BY <1>5, ContinueChanged
<1> QED
  BY <1>1, <1>3, <1>6, PushingChanged

\* DOES> and what it compiles write into the newest header.
LEMMA DoesHeader ==
  ASSUME NEW h \in Headers, NEW a \in Word
  PROVE  /\ [h EXCEPT !.does = a] \in Headers
         /\ [h EXCEPT !.does = a].name = h.name
         /\ EntryOf([h EXCEPT !.does = a]) = EntryOf(h)
         /\ [h EXCEPT !.code = "DOES_ENTER", !.does = a] \in Headers
         /\ [h EXCEPT !.code = "DOES_ENTER", !.does = a].name = h.name
         /\ EntryOf([h EXCEPT !.code = "DOES_ENTER", !.does = a]) = EntryOf(h)
<1> DEFINE f == [h EXCEPT !.does = a]
           g == [h EXCEPT !.code = "DOES_ENTER", !.does = a]
<1>0. "DOES_ENTER" \in OpCode
  BY DEF OpCode
<1>1. /\ f \in Headers /\ f.name = h.name /\ f.flags = h.flags
      /\ g \in Headers /\ g.name = h.name /\ g.flags = h.flags
  <2>1. f \in Headers /\ f.name = h.name /\ f.flags = h.flags
    BY DEF Headers
  <2>2. g \in Headers /\ g.name = h.name /\ g.flags = h.flags
    BY <1>0 DEF Headers
  <2> QED
    BY <2>1, <2>2
<1> HIDE DEF f, g
<1>2. EntryOf(f) = EntryOf(h) /\ EntryOf(g) = EntryOf(h)
  BY <1>1, Zenon DEF EntryOf
<1> QED
  BY <1>1, <1>2 DEF f, g

LEMMA DoesMoves == ASSUME NEW c, Sound(c) PROVE Changed(c, Does(c))
<1> DEFINE rt   == ViaOpcode(c, "DOES_RT")
           exit == ViaOpcode(c, "EXIT")
           d    == Compile(c, <<rt, exit>>)
           g    == [HeadOf(d) EXCEPT !.does = Here(d)]
           e    == SetHead(d, g)
<1>1. Does(c) = IF rt = 0 \/ exit = 0 THEN Stop(c, "assert") ELSE Continue(e)
  BY DEF Does
<1>2. /\ rt \in Word /\ exit \in Word /\ Alike(c, c)
      /\ rt # 0 => c.chain # <<>>
  BY ViaOpcodeTyped, StillSelf, StillAlike DEF Sound
<1> HIDE DEF rt, exit
<1>3. Alike(c, d)
  BY <1>2, TwoCells, CompileAlike
<1> HIDE DEF d
<1>4. Sound(d) /\ Listing(d) = Listing(c) /\ d.chain = c.chain /\ IsContext(d)
  BY <1>3, AlikeSound DEF Alike
<1>5. ASSUME rt # 0 PROVE Changed(c, e)
  <2>0. d.chain # <<>>
    BY <1>2, <1>4, <1>5
  <2>1. HeadOf(d) \in Headers /\ Here(d) \in Word
    BY <1>4, <2>0, HeadTyped, SystemCells
  <2>2. /\ g \in Headers /\ g.name = HeadOf(d).name
        /\ EntryOf(g) = EntryOf(HeadOf(d))
    BY <2>1, DoesHeader
  <2> HIDE DEF g
  <2>3. /\ Sound(e)
        /\ Listing(e) = [Listing(d) EXCEPT ![1] = EntryOf(g)]
    BY <1>4, <2>0, <2>2, HeadChanged
  <2> HIDE DEF e
  <2>4. Listing(e) = Listing(d)
    BY <1>4, <2>0, <2>2, <2>3, FirstOfList
  <2> QED
    BY <1>4, <2>3, <2>4 DEF Changed, Moved
<1>6. Changed(c, Stop(c, "assert"))
  BY ControlTyped
<1> HIDE DEF e
<1> QED
  BY <1>1, <1>5, <1>6, ContinueChanged

LEMMA DoesRunTimeMoves ==
  ASSUME NEW c, Sound(c) PROVE Changed(c, DoesRunTime(c))
<1> DEFINE a == Wrap(c.ip + 4)
           g == [HeadOf(c) EXCEPT !.code = "DOES_ENTER", !.does = a]
           e == SetHead(c, g)
<1>1. DoesRunTime(c) \in {Stop(c, "wild"), Stop(c, "assert")}
        \/ (c.chain # <<>> /\ DoesRunTime(c) = Continue(e))
  BY DEF DoesRunTime
<1>2. a \in Word
  BY NextWord DEF Sound, IsContext
<1> HIDE DEF a
<1>3. ASSUME c.chain # <<>> PROVE Changed(c, e)
  <2>1. HeadOf(c) \in Headers
    BY <1>3, HeadTyped DEF Sound
  <2>2. /\ g \in Headers /\ g.name = HeadOf(c).name
        /\ EntryOf(g) = EntryOf(HeadOf(c))
    BY <1>2, <2>1, DoesHeader
  <2> HIDE DEF g
  <2> QED
    BY <1>3, <2>2, HeadAlike
<1>4. Changed(c, Stop(c, "wild")) /\ Changed(c, Stop(c, "assert"))
  BY StopStill, StillChanged DEF Sound
<1> HIDE DEF e
<1> QED
  BY <1>1, <1>3, <1>4, ContinueChanged

-----------------------------------------------------------------------------
(* The inner interpreter.                                                  *)

\* The words that build the dictionary or store into the data space.
Building == {"STORE", "ALLOT", "COMMA", "COLON", "SEMICOLON", "CREATE",
             "IMMEDIATE", "LITERAL", "PLITERAL", "DOES", "DOES_RT", "IF",
             "THEN", "ELSE", "AGAIN"}

\* The other words leave both alone.
LEMMA InstructionIdle ==
  ASSUME NEW c, Sound(c), NEW w \in DOMAIN c.dict, NEW line \in Seq(Token),
         c.dict[w].code \notin Building
  PROVE  Idle(c, Instruction(c, w, line))
<1> DEFINE code == c.dict[w].code
           r == Instruction(c, w, line)
<1>1. CASE code \in {"DROP", "DUP", "ADD", "EQUAL", "STATE", "BASE",
                    "WORDBUFFER", "PUSH", "EMIT", "DOT", "AT", "C_AT"}
  <2>1. r \in {Drop(c), Dup(c), Add(c), Equal(c), Variable(c, FF_LOC_STATE),
               Variable(c, FF_LOC_BASE), Variable(c, FF_LOC_WORD_BUFFER),
               Literal(c), Emit(c), Dot(c), At(c), CAt(c)}
    BY <1>1 DEF Instruction
  <2> HIDE DEF r, code
  <2>2. FF_LOC_STATE \in Word /\ FF_LOC_BASE \in Word
          /\ FF_LOC_WORD_BUFFER \in Word
    BY WordInt DEF FF_LOC_STATE, FF_LOC_BASE, FF_LOC_WORD_BUFFER
  <2>3. \A x \in {Drop(c), Dup(c), Add(c), Equal(c),
                  Variable(c, FF_LOC_STATE), Variable(c, FF_LOC_BASE),
                  Variable(c, FF_LOC_WORD_BUFFER), Literal(c), Emit(c),
                  Dot(c), At(c), CAt(c)} : Idle(c, x)
    BY <2>2, DropIdle, DupIdle, AddIdle, EqualIdle, VariableIdle,
       LiteralIdle, EmitIdle, DotIdle, AtIdle, CAtIdle
  <2> QED
    BY <2>1, <2>3 DEF r
<1>2. CASE code \in {"ENTER", "EXIT", "JUMP", "JUMP_IF", "CREATE_ENTER",
                    "DOES_ENTER", "FIND", "BNUMBER", "QIMMEDIATE"}
  <2>1. r \in {Enter(c, w), Exit(c), Jump(c), JumpIfFalse(c),
               CreateEnter(c, w), DoesEnter(c, w), Find(c), Number(c),
               IsImmediate(c)}
    BY <1>2 DEF Instruction
  <2> HIDE DEF r, code
  <2>2. \A x \in {Enter(c, w), Exit(c), Jump(c), JumpIfFalse(c),
                  CreateEnter(c, w), DoesEnter(c, w), Find(c), Number(c),
                  IsImmediate(c)} : Idle(c, x)
    BY EnterIdle, ExitIdle, JumpIdle, JumpIfFalseIdle, CreateEnterIdle,
       DoesEnterIdle, FindIdle, NumberIdle, IsImmediateIdle
  <2> QED
    BY <2>1, <2>2 DEF r
<1>3. CASE code \in {"PAREN", "QUERY", "DECOMPILE", "BEGIN", "ABORT", "PASS",
                    "BYE"}
  <2>1. r \in {Paren(c), Query(c, line), Decompile(c), Begin(c), Abort(c),
               Continue(c), Stop(Continue(c), "bye")}
    BY <1>3 DEF Instruction
  <2> HIDE DEF r, code
  <2>2. Still(c, Continue(c)) /\ Still(c, Stop(Continue(c), "bye"))
    <3>1. Still(c, Continue(c))
      BY ContinueTyped DEF Sound
    <3>2. Still(Continue(c), Stop(Continue(c), "bye"))
      BY <3>1, StillAlike, StopStill
    <3> QED
      BY <3>1, <3>2, StillTrans
  <2>3. /\ Idle(c, Abort(c)) /\ Idle(c, Continue(c))
        /\ Idle(c, Stop(Continue(c), "bye"))
    BY <2>2, StillIdle, AbortIdle DEF Sound
  <2>4. \A x \in {Paren(c), Query(c, line), Decompile(c), Begin(c), Abort(c),
                  Continue(c), Stop(Continue(c), "bye")} : Idle(c, x)
    BY <2>3, ParenIdle, QueryIdle, DecompileIdle, BeginIdle
  <2> QED
    BY <2>1, <2>4 DEF r
<1>4. CASE code \notin {"AT", "DOT", "DROP", "DUP", "ADD", "EQUAL", "STATE",
                       "BASE", "WORDBUFFER", "PUSH", "EMIT", "C_AT",
                       "STORE", "ALLOT", "COMMA", "ENTER", "EXIT", "JUMP",
                       "JUMP_IF", "CREATE_ENTER", "DOES_ENTER", "FIND",
                       "BNUMBER", "COLON", "SEMICOLON", "CREATE",
                       "IMMEDIATE", "QIMMEDIATE", "LITERAL", "PLITERAL",
                       "DOES", "DOES_RT", "PAREN", "QUERY", "DECOMPILE",
                       "BEGIN", "IF", "THEN", "ELSE", "AGAIN", "ABORT",
                       "PASS", "BYE"}
  <2>1. r = Stop(c, "illegal")
    BY <1>4 DEF Instruction
  <2> QED
    BY <2>1, StopStill, StillIdle DEF Sound
<1> QED
  BY <1>1, <1>2, <1>3, <1>4 DEF Building

LEMMA InstructionMoves ==
  ASSUME NEW c, Sound(c), NEW w \in DOMAIN c.dict, NEW line \in Seq(Token)
  PROVE  Changed(c, Instruction(c, w, line))
<1> DEFINE code == c.dict[w].code
           r == Instruction(c, w, line)
<1>1. CASE code \notin Building
  BY <1>1, InstructionIdle, IdleChanged
<1>2. CASE code \in Building
  <2>1. r \in {StoreWord(c), Allot(c), Comma(c), Colon(c), Semicolon(c),
               Create(c, w), Immediate(c), CompileLiteral(c), Does(c),
               DoesRunTime(c), If(c), Then(c), Else(c), Again(c)}
    <3>1. CASE code \in {"STORE", "ALLOT", "COMMA", "COLON", "SEMICOLON",
                        "CREATE", "IMMEDIATE", "LITERAL"}
      BY <3>1 DEF Instruction
    <3>2. CASE code \in {"PLITERAL", "DOES", "DOES_RT", "IF", "THEN", "ELSE",
                        "AGAIN"}
      BY <3>2 DEF Instruction
    <3> QED
      BY <1>2, <3>1, <3>2 DEF Building
  <2> HIDE DEF r, code
  <2>2. \A x \in {StoreWord(c), Allot(c), Comma(c), Colon(c), Semicolon(c),
                  Create(c, w), Immediate(c), CompileLiteral(c), Does(c),
                  DoesRunTime(c), If(c), Then(c), Else(c), Again(c)} :
          Changed(c, x)
    BY StoreWordMoves, AllotMoves, CommaMoves, ColonMoves, SemicolonMoves,
       CreateMoves, ImmediateMoves, CompileLiteralMoves, DoesMoves,
       DoesRunTimeMoves, IfMoves, ThenMoves, ElseMoves, AgainMoves
  <2> QED
    BY <2>1, <2>2 DEF r
<1> QED
  BY <1>1, <1>2

LEMMA ExecuteMoves ==
  ASSUME NEW c, Sound(c), NEW line \in Seq(Token)
  PROVE  Changed(c, Execute(c, line))
<1> DEFINE k == Depth(c)
           w == Data(c)[k]
           q == SubSeq(Data(c), k + 1, Len(Data(c)))
           d == [c EXCEPT !.stacks["data"] = q]
           r == Instruction(d, w, line)
           a == Wrap(c.ip + 2)
<1>1. Data(c) \in Seq(Word) /\ Len(Data(c)) \in Nat
  <2>1. Data(c) \in Seq(Word)
    BY DEF Sound, IsContext, Data, Stacks
  <2> QED
    BY <2>1
<1>2. k \in 1 .. Len(Data(c)) + 1
  BY <1>1, DepthExists
<1>3. CASE k > Len(Data(c))
  <2>1. Execute(c, line) = Abort(c)
    BY <1>3 DEF Execute
  <2> QED
    BY <2>1, ControlTyped
<1>4. CASE k \in 1 .. Len(Data(c)) /\ w \notin DOMAIN c.dict
  <2>1. Execute(c, line) = Stop(c, "wild")
    BY <1>1, <1>4 DEF Execute
  <2> QED
    BY <2>1, StopStill, StillChanged DEF Sound
<1>5. CASE k \in 1 .. Len(Data(c)) /\ w \in DOMAIN c.dict
  <2>1. \/ Execute(c, line) = r
        \/ Execute(c, line) = [r EXCEPT !.ip = a]
    <3>1. ~ (k > Len(Data(c)))
      BY <1>1, <1>5
    <3>2. CASE r.ip = c.recover
      <4>1. Execute(c, line) = r
        BY <1>5, <3>1, <3>2 DEF Execute, Data
      <4> QED
        BY <4>1
    <3>3. CASE r.ip # c.recover
      <4>1. Execute(c, line) =
              IF k = 1 /\ c.dict[w].code \in {"ENTER", "DOES_ENTER"} THEN r
              ELSE [r EXCEPT !.ip = a]
        BY <1>5, <3>1, <3>3 DEF Execute, Data
      <4> QED
        BY <4>1
    <3> QED
      BY <3>2, <3>3
  <2>2. q \in Seq(Word)
    <3>1. k + 1 \in Int /\ \A j \in k + 1 .. Len(Data(c)) : Data(c)[j] \in Word
      BY <1>1, <1>2
    <3> QED
      BY <1>1, <3>1, SubSeqProperties
  <2> HIDE DEF q
  <2>3. Still(c, d)
    BY <2>2, StackTyped DEF Sound, Stacks
  <2>4. a \in Word
    BY NextWord DEF Sound, IsContext
  <2>5. Sound(d) /\ w \in DOMAIN d.dict
    BY <1>5, <2>3, StillChanged DEF Still, Alike
  <2> HIDE DEF d, w, a
  <2>6. Changed(d, r)
    BY <2>5, InstructionMoves
  <2> HIDE DEF r
  <2>7. Changed(c, r)
    BY <2>3, <2>6, StillMoves
  <2>8. Still(r, [r EXCEPT !.ip = a])
    BY <2>4, <2>7, IpTyped DEF Changed, Sound
  <2> QED
    BY <2>1, <2>7, <2>8, MovesStill
<1> QED
  BY <1>1, <1>2, <1>3, <1>4, <1>5

LEMMA TurnMoves ==
  ASSUME NEW c, Sound(c), NEW line \in Seq(Token)
  PROVE  Changed(c, Turn(c, line))
<1> DEFINE w == CellAt(c, c.ip)
<1>1. CASE Opcode(c) = "none"
  <2>1. Turn(c, line) = Stop(c, "wild")
    BY <1>1 DEF Turn
  <2> QED
    BY <2>1, StopStill, StillChanged DEF Sound
<1>2. CASE Opcode(c) = "EXECUTE"
  <2>1. Turn(c, line) = Execute(c, line)
    BY <1>2 DEF Turn
  <2> QED
    BY <2>1, ExecuteMoves
<1>3. CASE Opcode(c) \notin {"none", "EXECUTE"}
  <2>1. Turn(c, line) = Instruction(c, w, line)
    BY <1>3 DEF Turn
  <2>2. w \in DOMAIN c.dict
    BY <1>3, OpcodeWord
  <2> HIDE DEF w
  <2> QED
    BY <2>1, <2>2, InstructionMoves
<1> QED
  BY <1>1, <1>2, <1>3

\* Once everything is given up, a word that takes a cell gives up again.
LEMMA EndedAgain ==
  ASSUME NEW c, NEW d, Ended(c, d) PROVE Ended(c, Abort(d))
<1>1. Sound(d)
  BY DEF Ended, Changed
<1>2. Still(d, Abort(d)) /\ Abort(d).stacks["data"] = <<>>
  BY <1>1, AbortEnds DEF Ended
<1>3. Changed(c, Abort(d))
  BY <1>2, MovesStill DEF Ended
<1>4. State(Abort(d)) = State(d) /\ Abort(d).chain = d.chain
  BY <1>2, SameCells DEF State, Still, Alike
<1> QED
  BY <1>2, <1>3, <1>4 DEF Ended

LEMMA NothingTaken ==
  ASSUME NEW c, NEW d, Ended(c, d), NEW x
  PROVE  Taking(d, 1, x) = Abort(d)
<1>1. Len(Data(d)) = 0
  BY DEF Ended, Data
<1> QED
  BY <1>1 DEF Taking

LEMMA DropQuits ==
  ASSUME NEW c, NEW d, Sound(c), Quits(c, d) PROVE Quits(c, Drop(d))
<1>1. CASE Still(c, d)
  <2>1. Sound(d)
    BY <1>1, StillChanged
  <2>2. Still(d, Continue(Less(d)))
    BY <2>1, LessStill, ContinueStill DEF Sound
  <2>3. Still(c, Continue(Less(d)))
    BY <1>1, <2>2, StillTrans
  <2>4. Ended(c, Abort(d))
    BY <1>1, AbortQuits
  <2> QED
    BY <2>3, <2>4 DEF Drop, Taking, Quits
<1>2. CASE Ended(c, d)
  <2>1. Drop(d) = Abort(d)
    BY <1>2, NothingTaken DEF Drop
  <2> QED
    BY <1>2, <2>1, EndedAgain DEF Quits
<1> QED
  BY <1>1, <1>2 DEF Quits

LEMMA LiteralQuits ==
  ASSUME NEW c, NEW d, Sound(c), Quits(c, d)
  PROVE  Changed(c, CompileLiteral(d))
<1>1. CASE Still(c, d)
  <2>1. Changed(d, CompileLiteral(d))
    BY <1>1, StillChanged, CompileLiteralMoves
  <2> QED
    BY <1>1, <2>1, StillMoves
<1>2. CASE Ended(c, d)
  <2>1. CompileLiteral(d) = Abort(d)
    BY <1>2, NothingTaken DEF CompileLiteral
  <2> QED
    BY <1>2, <2>1, EndedAgain DEF Ended
<1> QED
  BY <1>1, <1>2 DEF Quits

\* A round of mini_interpret does what one of the words does.
LEMMA MiniRoundMoves ==
  ASSUME NEW c, Sound(c) PROVE Changed(c, MiniRound(c))
<1> DEFINE compiling == State(c) = 1
           found     == Find(c)
           w         == First(found)
           rest      == Less(found)
           asks      == Put(rest, FF_LOC_WORD_BUFFER)
           number    == Drop(Number(asks))
           back      == Put(rest, w)
<1>1. MiniRound(c) =
        IF rest.word = "" \/ IsEmpty(found, "data") THEN rest
        ELSE IF w = 0
          THEN IF compiling THEN CompileLiteral(number) ELSE Stop(c, "assert")
        ELSE IF compiling /\ "IMMEDIATE" \notin back.dict[w].flags
          THEN Comma(back)
        ELSE Execute(back, <<>>)
  BY DEF MiniRound
<1>2. /\ Quits(c, found) /\ Changed(c, found) /\ Sound(found)
      /\ ~IsEmpty(found, "data") => Still(c, found)
  BY FindIdle, IdleQuits, QuitsChanged
<1> HIDE DEF found
<1>3. Still(found, rest) /\ w \in Word
  BY <1>2, LessStill DEF Sound
<1>4. Changed(c, rest)
  BY <1>2, <1>3, MovesStill
<1> HIDE DEF rest, w
<1>5. ASSUME ~IsEmpty(found, "data")
      PROVE  /\ Changed(c, CompileLiteral(number))
             /\ Changed(c, Comma(back)) /\ Changed(c, Execute(back, <<>>))
  <2>1. Still(c, rest)
    BY <1>2, <1>3, <1>5, StillTrans
  <2>2. FF_LOC_WORD_BUFFER \in Word
    BY WordInt DEF FF_LOC_WORD_BUFFER
  <2>3. Still(c, asks) /\ Still(c, back)
    BY <1>3, <2>1, <2>2, PutStill
  <2> HIDE DEF asks, back
  <2>4. Sound(asks) /\ Sound(back)
    BY <2>3, StillChanged
  <2>5. <<>> \in Seq(Token)
    OBVIOUS
  <2>6. Changed(back, Comma(back)) /\ Changed(back, Execute(back, <<>>))
    BY <2>4, <2>5, CommaMoves, ExecuteMoves
  <2>7. Changed(c, Comma(back)) /\ Changed(c, Execute(back, <<>>))
    BY <2>3, <2>6, StillMoves
  <2>8. Changed(c, CompileLiteral(number))
    <3> DEFINE n == Number(asks)
    <3>1. Quits(asks, n) /\ Sound(n)
      BY <2>4, NumberIdle, IdleQuits, QuitsChanged
    <3> HIDE DEF n
    <3>2. Quits(asks, Drop(n))
      BY <2>4, <3>1, DropQuits
    <3>3. number = Drop(n)
      BY DEF n
    <3> HIDE DEF number
    <3>4. Changed(asks, CompileLiteral(number))
      BY <2>4, <3>2, <3>3, LiteralQuits
    <3> QED
      BY <2>3, <3>4, StillMoves
  <2> QED
    BY <2>7, <2>8
<1>6. Changed(c, Stop(c, "assert"))
  BY ControlTyped
<1> HIDE DEF number, back
<1> QED
  BY <1>1, <1>4, <1>5, <1>6

-----------------------------------------------------------------------------
(* bootstrap().                                                            *)

LEMMA CoreWordTyped ==
  ASSUME NEW n \in Nat, n < Len(CoreWords \o MoreWords)
  PROVE  LET w == (CoreWords \o MoreWords)[n + 1] IN
         /\ w[1] \in Token /\ w[2] \in OpCode
         /\ w[3] \in SUBSET Flag /\ "DIRTY" \notin w[3]
<1> DEFINE all == CoreWords \o MoreWords
           w == all[n + 1]
<1>1. CoreWords \in Seq(CoreWord) /\ MoreWords \in Seq(CoreWord)
  BY VocabularyAssumption
<1>2. all \in Seq(CoreWord)
  BY <1>1, ConcatProperties
<1> HIDE DEF all
<1>3. n + 1 \in 1 .. Len(all)
  BY <1>2 DEF all
<1>4. w \in CoreWord
  BY <1>2, <1>3
<1> HIDE DEF w
<1>5. /\ w[1] \in Token /\ w[2] \in OpCode
      /\ w[3] \in SUBSET Flag /\ "DIRTY" \notin w[3]
  BY <1>4 DEF CoreWord
<1> QED
  BY <1>5 DEF w, all

IInvB == BootTypeOK /\ Rooted(context)

LEMMA AddCoreWordMoves ==
  ASSUME IInvB, AddCoreWord PROVE Changed(context, context')
<1> DEFINE w == (CoreWords \o MoreWords)[added + 1]
           h == Header(w[1], w[2], w[3], 0)
<1>1. added \in Nat /\ added < Len(CoreWords \o MoreWords)
  BY DEF IInvB, BootTypeOK, AddCoreWord
<1>2. /\ w[1] \in Token /\ w[2] \in OpCode
      /\ w[3] \in SUBSET Flag /\ "DIRTY" \notin w[3]
  BY <1>1, CoreWordTyped
<1>3. context' = AddEntry(context, h)
  BY DEF AddCoreWord
<1>4. IsContext(context) /\ Rooted(context)
  BY DEF IInvB, BootTypeOK
<1> HIDE DEF w
<1>5. h \in Headers /\ h.flags = w[3]
  BY <1>2, ZeroOne, HeaderTyped
<1>6. EntryOf(h) \in Entries /\ ~EntryOf(h).open
  BY <1>2, <1>5, PlainEntry
<1> HIDE DEF h
<1>7. Sound(context) /\ Still(context, context)
  BY <1>4, StillSelf DEF Sound
<1> QED
  BY <1>3, <1>5, <1>6, <1>7, Declared

LEMMA InterpretTyped == "INTERPRET" \in Token
<1>1. InterpretCode \in Seq(Token)
  BY VocabularyAssumption
<1>2. 2 \in DOMAIN InterpretCode /\ InterpretCode[2] = "INTERPRET"
  BY DEF InterpretCode
<1> QED
  BY <1>1, <1>2

LEMMA StartMoves == ASSUME IInvB, Start PROVE Changed(context, context')
<1> DEFINE word  == Lookup(context, "INTERPRET")
           start == ParameterField(context, word)
           d     == [context EXCEPT !.ip = start, !.recover = start,
                       !.word = "INTERPRET", !.input = LibraryCode]
<1>1. context' = IF word = 0 THEN Stop(context, "wild") ELSE d
  BY DEF Start
<1>2. IsContext(context) /\ Sound(context)
  BY DEF IInvB, BootTypeOK, Sound
<1>3. Changed(context, Stop(context, "wild"))
  BY <1>2, StopStill, StillChanged
<1>4. ASSUME word # 0 PROVE Changed(context, d)
  <2>1. start \in Word
    BY <1>2, <1>4, LookupTyped, FieldWord
  <2>2. LibraryCode \in Seq(Token)
    BY VocabularyAssumption
  <2>3. "INTERPRET" \in Token
    BY InterpretTyped
  <2> HIDE DEF start
  <2>4. /\ DOMAIN d = ContextField /\ d.mem = context.mem
        /\ d.dict = context.dict /\ d.chain = context.chain
        /\ d.stacks = context.stacks /\ d.ip = start /\ d.recover = start
        /\ d.input = LibraryCode /\ d.word = "INTERPRET"
        /\ d.status = context.status
    BY <1>2 DEF IsContext, ContextField
  <2> HIDE DEF d
  <2>5. IsContext(d)
    BY <1>2, <2>1, <2>2, <2>3, <2>4 DEF IsContext
  <2>6. Still(context, d)
    BY <2>4, <2>5 DEF Still, Alike
  <2> QED
    BY <1>2, <2>6, StillChanged
<1> HIDE DEF d
<1> QED
  BY <1>1, <1>3, <1>4

LEMMA TurnOfNext ==
  ASSUME Next PROVE \E line \in Seq(Token) : context' = Turn(context, line)
<1>1. CASE Compute
  <2>1. <<>> \in Seq(Token)
    OBVIOUS
  <2> QED
    BY <1>1, <2>1 DEF Compute
<1>2. CASE Terminal
  <2>1. PICK line \in Lines : context' = Turn(context, line)
    BY <1>2 DEF Terminal
  <2>2. line \in Seq(Token)
    BY LinesAssumption
  <2> QED
    BY <2>1, <2>2
<1> QED
  BY <1>1, <1>2 DEF Next

\* Whatever step is taken, the list makes a move or stays as it is.
LEMMA BootMoves == ASSUME IInvB, BootNext PROVE Changed(context, context')
<1>1. Sound(context) /\ IsContext(context)
  BY DEF IInvB, BootTypeOK, Sound
<1>2. CASE AddCoreWord
  BY <1>2, AddCoreWordMoves
<1>3. CASE PasteInterpret
  <2>1. context' = [context EXCEPT !.input = InterpretCode]
    BY <1>3 DEF PasteInterpret
  <2>2. InterpretCode \in Seq(Token)
    BY VocabularyAssumption
  <2>3. Still(context, context')
    BY <1>1, <2>1, <2>2, InputTyped
  <2> QED
    BY <1>1, <2>3, StillChanged
<1>4. CASE MiniInterpret
  BY <1>1, <1>4, MiniRoundMoves DEF MiniInterpret
<1>5. CASE Start
  BY <1>5, StartMoves
<1>6. CASE Run
  <2>1. \E line \in Seq(Token) : context' = Turn(context, line)
    BY <1>6, TurnOfNext DEF Run
  <2> QED
    BY <1>1, <2>1, TurnMoves
<1> QED
  BY <1>2, <1>3, <1>4, <1>5, <1>6 DEF BootNext

LEMMA StepB == IInvB /\ [BootNext]_bootVars => IInvB'
<1> SUFFICES ASSUME IInvB, [BootNext]_bootVars PROVE IInvB'
  OBVIOUS
<1> DEFINE n == Len(CoreWords \o MoreWords)
<1>1. n \in Nat
  <2>1. CoreWords \o MoreWords \in Seq(CoreWord)
    BY VocabularyAssumption, ConcatProperties
  <2> QED
    BY <2>1
<1>2. /\ typed \in 0 .. MaxLines /\ added \in 0 .. n
      /\ stage \in {"core", "mini", "more", "run"}
  BY DEF IInvB, BootTypeOK
<1>3. CASE BootNext
  <2>1. IsContext(context') /\ Rooted(context')
    BY <1>3, BootMoves DEF Changed, Sound
  <2>2. typed' \in 0 .. MaxLines
    <3>1. typed' = typed \/ (typed < MaxLines /\ typed' = typed + 1)
      BY <1>3
      DEF BootNext, AddCoreWord, PasteInterpret, MiniInterpret, Start, Run,
          Next, Compute, Terminal
    <3> QED
      BY <1>2, <3>1, MaxLinesAssumption
  <2>3. stage' \in {"core", "mini", "more", "run"}
    BY <1>2, <1>3
    DEF BootNext, AddCoreWord, PasteInterpret, MiniInterpret, Start, Run
  <2>4. added' \in 0 .. n
    <3>1. added' = added \/ (added < n /\ added' = added + 1)
      BY <1>3
      DEF BootNext, AddCoreWord, PasteInterpret, MiniInterpret, Start, Run
    <3> HIDE DEF n
    <3> QED
      BY <1>1, <1>2, <3>1
  <2> QED
    BY <2>1, <2>2, <2>3, <2>4 DEF IInvB, BootTypeOK
<1>4. CASE UNCHANGED bootVars
  BY <1>4 DEF bootVars, vars, IInvB, BootTypeOK
<1> QED
  BY <1>3, <1>4

LEMMA InitB == BootInit => IInvB
<1> SUFFICES ASSUME BootInit PROVE IInvB
  OBVIOUS
<1>1. IsContext(context) /\ Rooted(context)
  <2> DEFINE none == [a \in {} |-> 0]
  <2>a. PICK left \in Unset : context = Reset(left)
    BY DEF BootInit
  <2> DEFINE m0 == Write(none, FF_LOC_STATE, left)
             m1 == Write(m0, FF_LOC_HERE, FF_SYSTEM_VARIABLES_END)
             m2 == Write(m1, FF_LOC_BASE, 10)
  <2>1. IsMemory(m2)
    <3>1. IsMemory(none)
      BY DEF IsMemory
    <3>2. /\ FF_LOC_STATE \in Word /\ FF_LOC_STATE + 1 \in Word
          /\ left \in Word
          /\ FF_LOC_HERE \in Word /\ FF_LOC_HERE + 1 \in Word
          /\ FF_LOC_BASE \in Word /\ FF_LOC_BASE + 1 \in Word
          /\ FF_SYSTEM_VARIABLES_END \in Word /\ 10 \in Word
      BY WordInt, UnsetAssumption
      DEF FF_LOC_STATE, FF_LOC_HERE, FF_LOC_BASE, FF_SYSTEM_VARIABLES_END
    <3> HIDE DEF none
    <3>3. IsMemory(m0)
      BY <3>1, <3>2, WriteTyped
    <3> HIDE DEF m0
    <3>4. IsMemory(m1)
      BY <3>2, <3>3, WriteTyped
    <3> HIDE DEF m1
    <3> QED
      BY <3>2, <3>4, WriteTyped
  <2>2. /\ DOMAIN context = ContextField /\ context.mem = m2
        /\ context.dict = none /\ context.chain = <<>>
        /\ context.stacks = [s \in Stacks |-> <<>>] /\ context.ip = 0
        /\ context.recover = 0 /\ context.input = <<>> /\ context.word = ""
        /\ context.status = "run"
    BY <2>a DEF Reset, ContextField
  <2> HIDE DEF m2
  <2>3. /\ DOMAIN context.mem \subseteq Word
        /\ context.mem \in [DOMAIN context.mem -> Byte]
    BY <2>1, <2>2 DEF IsMemory
  <2>4. /\ DOMAIN context.dict = {}
        /\ context.dict \in [DOMAIN context.dict -> Headers]
    <3>1. DOMAIN none = {} /\ none \in [{} -> Headers]
      OBVIOUS
    <3> HIDE DEF none
    <3> QED
      BY <2>2, <3>1
  <2> HIDE DEF none
  <2>0. \A S : <<>> \in Seq(S)
    BY EmptySeq
  <2>5. /\ context.chain \in Seq(DOMAIN context.dict)
        /\ DOMAIN context.chain = {}
    <3>1. context.chain = <<>>
      BY <2>2
    <3>2. context.chain \in Seq(DOMAIN context.dict)
      BY <2>0, <3>1, Zenon
    <3>3. DOMAIN <<>> = {}
      OBVIOUS
    <3> QED
      BY <3>1, <3>2, <3>3, Zenon
  <2>6. context.stacks \in [Stacks -> Seq(Word)]
    <3>1. \A s \in Stacks : <<>> \in Seq(Word)
      BY <2>0
    <3> QED
      BY <2>2, <3>1
  <2>7. context.input \in Seq(Token) /\ context.word \in Token \cup {""}
    BY <2>0, <2>2
  <2>8. context.status \in Status
    BY <2>2 DEF Status
  <2>9. context.ip \in Word /\ context.recover \in Word
    BY <2>2, ZeroOne
  <2>10. IsContext(context)
    BY <2>2, <2>3, <2>4, <2>5, <2>6, <2>7, <2>8, <2>9 DEF IsContext
  <2>11. Rooted(context)
    BY <2>4, <2>5 DEF Rooted
  <2> QED
    BY <2>10, <2>11
<1>2. Len(CoreWords \o MoreWords) \in Nat
  <2>1. CoreWords \o MoreWords \in Seq(CoreWord)
    BY VocabularyAssumption, ConcatProperties
  <2> QED
    BY <2>1
<1> QED
  BY <1>1, <1>2, MaxLinesAssumption DEF IInvB, BootTypeOK, BootInit

LEMMA AlwaysB == BootSpec => []IInvB
BY InitB, StepB, PTL DEF BootSpec

\* Whatever is typed: the data space holds bytes, the stacks cells, and the
\* dictionary headers that lie where its links say.
THEOREM BootIsTyped == BootSpec => []BootTypeOK
<1>1. IInvB => BootTypeOK
  BY DEF IInvB
<1> QED
  BY <1>1, AlwaysB, PTL

\* The list makes one of its own moves, or none.
LEMMA ListStep ==
  ASSUME IsContext(context), Moved(context, context')
  PROVE  [List!Next]_(List!listVars)
<1> DEFINE L == Listing(context)
           M == Listing(context')
           k == State(context) = 1
           m == State(context') = 1
<1>1. L \in Seq(Entries) /\ (L = <<>> <=> context.chain = <<>>)
  BY ListingSeq
<1>2. \A x : <<x>> \o L # <<>> /\ Tail(<<x>> \o L) = L
             /\ Head(<<x>> \o L) = x
  BY <1>1
<1>3. CASE M = L
  BY <1>3 DEF List!Next, List!SetState, Listing, EntryOf
<1>4. ASSUME NEW x \in Entries, Declares(context, context', x)
      PROVE  List!Declare
  <2>1. M = <<x>> \o L /\ ~x.open /\ State(context') = State(context)
    BY <1>4 DEF Declares
  <2>2. M # <<>> /\ Tail(M) = L /\ Head(M) = x
    BY <1>2, <2>1
  <2> HIDE DEF L, M
  <2>3. Head(M) \in Entries /\ ~Head(M).open
    BY <2>1, <2>2, Zenon
  <2> QED
    BY <2>1, <2>2, <2>3, Zenon
    DEF List!Declare, List!Grown, List!Word, L, M, Listing, EntryOf, Entries
<1>5. ASSUME NEW x \in Entries, Opens(context, context', x)
      PROVE  List!Open
  <2>1. /\ M = <<x>> \o L /\ x.open /\ ~x.immediate
        /\ State(context') = 1
    BY <1>5 DEF Opens
  <2>2. M # <<>> /\ Tail(M) = L /\ Head(M) = x
    BY <1>2, <2>1
  <2> HIDE DEF L, M
  <2>3. Head(M) \in Entries /\ Head(M).open /\ ~Head(M).immediate
    BY <2>1, <2>2, Zenon
  <2> QED
    BY <2>1, <2>2, <2>3, Zenon
    DEF List!Open, List!Grown, List!Word, L, M, Listing, EntryOf, Entries
<1>6. ASSUME Closes(context, context') PROVE List!Close
  <2>1. /\ M = [L EXCEPT ![1].open = FALSE] /\ State(context') # 1
        /\ L # <<>>
    BY <1>1, <1>6 DEF Closes
  <2> HIDE DEF L, M
  <2>2. m = FALSE
    BY <2>1
  <2> QED
    BY <2>1, <2>2, Zenon DEF List!Close, L, M, Listing, EntryOf
<1>7. ASSUME Marks(context, context') PROVE List!Mark
  <2>1. /\ M = [L EXCEPT ![1].immediate = TRUE]
        /\ State(context') = State(context) /\ L # <<>>
    BY <1>1, <1>7 DEF Marks
  <2> HIDE DEF L, M
  <2> QED
    BY <2>1, Zenon DEF List!Mark, L, M, Listing, EntryOf
<1>8. ASSUME Forgets(context, context') PROVE List!Forget
  <2>1. /\ M = Tail(L) /\ State(context') # 1 /\ State(context) = 1
        /\ L # <<>>
    BY <1>1, <1>8 DEF Forgets
  <2> HIDE DEF L, M
  <2>2. m = FALSE
    BY <2>1
  <2> QED
    BY <2>1, <2>2, Zenon DEF List!Forget, L, M, Listing, EntryOf
<1>9. \/ M = L
      \/ \E x \in Entries : \/ Declares(context, context', x)
                            \/ Opens(context, context', x)
      \/ Closes(context, context') \/ Marks(context, context')
      \/ Forgets(context, context')
  BY DEF Moved
<1> QED
  BY <1>3, <1>4, <1>5, <1>6, <1>7, <1>8, <1>9, Zenon DEF List!Next

\* The dictionary, as headers linked through memory that compiled code shares,
\* is a stack of words of which only the newest is worked on: what a
\* Forth programmer is told of it (WordList), for every text that is typed.
THEOREM DictionaryIsWordList == BootSpec => IsWordList
<1>1. BootInit => List!Init
  <2> SUFFICES ASSUME BootInit PROVE List!Init
    OBVIOUS
  <2>1. IsContext(context) /\ context.chain = <<>>
    <3>1. PICK left \in Unset : context = Reset(left)
      BY DEF BootInit
    <3> QED
      BY <3>1, InitB DEF IInvB, BootTypeOK, Reset
  <2>2. Listing(context) = <<>>
    BY <2>1, ListingSeq
  <2> QED
    BY <2>2, Zenon DEF List!Init, Listing, EntryOf
<1>2. IInvB /\ [BootNext]_bootVars => [List!Next]_(List!listVars)
  <2> SUFFICES ASSUME IInvB, [BootNext]_bootVars
               PROVE  [List!Next]_(List!listVars)
    OBVIOUS
  <2>1. CASE BootNext
    <3>1. Moved(context, context') /\ IsContext(context)
      BY <2>1, BootMoves DEF Changed, IInvB, BootTypeOK
    <3> QED
      BY <3>1, ListStep
  <2>2. CASE UNCHANGED bootVars
    <3>1. context' = context
      BY <2>2 DEF bootVars, vars
    <3> QED
      BY <3>1 DEF List!listVars
  <2> QED
    BY <2>1, <2>2
<1> QED
  BY <1>1, <1>2, AlwaysB, PTL DEF BootSpec, IsWordList, List!Spec

-----------------------------------------------------------------------------
(* What is compiled lies below HERE.                                       *)

\* Nothing that is compiled lies at h or above it.
Below(c, h) ==
  /\ FF_SYSTEM_VARIABLES_END <= h
  /\ DOMAIN c.mem \subseteq 0 .. h - 1
  /\ \A e \in DOMAIN c.dict : ParameterField(c, e) \in 0 .. h

Stays(c, d) == HereIsFree(c) /\ d.status # "wild" => HereIsFree(d)

\* As much of a context as storing needs.
HasMemory(c) == DOMAIN c = ContextField /\ IsMemory(c.mem)

LEMMA ContextMemory == ASSUME NEW c, IsContext(c) PROVE HasMemory(c)
BY DEF IsContext, HasMemory, IsMemory

LEMMA FreeBelow == \A c : HereIsFree(c) <=> Below(c, Here(c))
BY DEF HereIsFree, Below

LEMMA SameFree ==
  ASSUME NEW c, NEW d, d.mem = c.mem, d.dict = c.dict
  PROVE  /\ Here(d) = Here(c) /\ (HereIsFree(d) <=> HereIsFree(c))
         /\ \A h : Below(d, h) <=> Below(c, h)
<1>1. Here(d) = Here(c)
  BY SameCells DEF Here
<1>2. \A h : Below(d, h) <=> Below(c, h)
  BY DEF Below, ParameterField
<1> QED
  BY <1>1, <1>2, FreeBelow

LEMMA StillFree ==
  ASSUME NEW c, NEW d, Still(c, d)
  PROVE  /\ Here(d) = Here(c) /\ (HereIsFree(d) <=> HereIsFree(c))
         /\ \A h : Below(d, h) <=> Below(c, h)
BY SameFree DEF Still, Alike

LEMMA BelowMore ==
  ASSUME NEW c, NEW h \in Int, NEW g \in Int, Below(c, h), h <= g
  PROVE  Below(c, g)
<1>1. FF_SYSTEM_VARIABLES_END <= g
  BY DEF Below, FF_SYSTEM_VARIABLES_END
<1>2. 0 .. h - 1 \subseteq 0 .. g - 1 /\ 0 .. h \subseteq 0 .. g
  OBVIOUS
<1> QED
  BY <1>1, <1>2 DEF Below

\* A store that is not wild.
LEMMA StoredAs ==
  ASSUME NEW c, HasMemory(c), NEW a, NEW v, Store(c, a, v).status # "wild"
  PROVE  /\ c.status # "wild" /\ IsKept(c, a) /\ IsKept(c, a + 1)
         /\ Store(c, a, v).mem = Write(c.mem, a, v)
         /\ Store(c, a, v).dict = c.dict /\ Store(c, a, v).stacks = c.stacks
         /\ Store(c, a, v).chain = c.chain
         /\ Store(c, a, v).status = c.status
         /\ DOMAIN Store(c, a, v) = ContextField
<1> DEFINE k == KeptCell(c, a)
           m == Write(c.mem, a, v)
<1>1. Store(c, a, v) = IF k THEN [c EXCEPT !.mem = m]
                            ELSE [c EXCEPT !.status = "wild"]
  BY DEF Store, Stop
<1> HIDE DEF k, m
<1>2. k
  BY <1>1 DEF HasMemory, ContextField
<1>3. /\ Store(c, a, v).mem = m /\ Store(c, a, v).dict = c.dict
      /\ Store(c, a, v).stacks = c.stacks /\ Store(c, a, v).chain = c.chain
      /\ Store(c, a, v).status = c.status
      /\ DOMAIN Store(c, a, v) = ContextField
  BY <1>1, <1>2 DEF HasMemory, ContextField
<1> QED
  BY <1>2, <1>3 DEF k, m, KeptCell

LEMMA BelowStore ==
  ASSUME NEW c, HasMemory(c), NEW h \in Int, Below(c, h),
         NEW a \in Int, 0 <= a, a + 2 <= h, NEW v,
         Store(c, a, v).status # "wild"
  PROVE  Below(Store(c, a, v), h)
<1> DEFINE d == Store(c, a, v)
<1>1. d.mem = Write(c.mem, a, v) /\ d.dict = c.dict
  BY StoredAs
<1> HIDE DEF d
<1>2. DOMAIN d.mem = DOMAIN c.mem \cup {a, a + 1}
  BY <1>1 DEF Write
<1>3. {a, a + 1} \subseteq 0 .. h - 1
  OBVIOUS
<1>4. Below(d, h)
  BY <1>1, <1>2, <1>3 DEF Below, ParameterField
<1> QED
  BY <1>4 DEF d

\* HERE changes when it is stored, and only then.
LEMMA HereStored ==
  ASSUME NEW c, HasMemory(c), NEW a \in Word, NEW v \in Word,
         Store(c, a, v).status # "wild"
  PROVE  /\ 4 <= a => Here(Store(c, a, v)) = Here(c)
         /\ a = FF_LOC_HERE => Here(Store(c, a, v)) = v
<1> DEFINE d == Store(c, a, v)
           m == Write(c.mem, a, v)
<1>1. d.mem = m
  BY StoredAs
<1>2. IsMemory(c.mem) /\ a \in Int /\ v \in Int /\ 0 <= v /\ v <= 65535
  BY WordInt DEF HasMemory
<1>3. /\ m[a] = v % 256 /\ m[a + 1] = v \div 256
      /\ {a, a + 1} \subseteq DOMAIN m
      /\ \A b : b \notin {a, a + 1} =>
           /\ b \in DOMAIN m <=> b \in DOMAIN c.mem
           /\ b \in DOMAIN c.mem => m[b] = c.mem[b]
  BY <1>2, WriteAt
<1> HIDE DEF d, m
<1>4. ASSUME 4 <= a PROVE Here(d) = Here(c)
  <2>1. \A b \in {2, 3} : b \notin {a, a + 1}
    BY <1>2, <1>4
  <2>2. \A b \in {2, 3} : ByteAt(d, b) = ByteAt(c, b)
    BY <1>1, <1>3, <2>1 DEF ByteAt
  <2> QED
    BY <2>2 DEF Here, CellAt, FF_LOC_HERE
<1>5. ASSUME a = FF_LOC_HERE PROVE Here(d) = v
  <2>1. ByteAt(d, a) = v % 256 /\ ByteAt(d, a + 1) = v \div 256
    BY <1>1, <1>3 DEF ByteAt
  <2>2. (v % 256) + 256 * (v \div 256) = v
    BY <1>2
  <2> QED
    BY <1>5, <2>1, <2>2 DEF Here, CellAt
<1> QED
  BY <1>4, <1>5 DEF d

LEMMA StoredHere ==
  ASSUME NEW c, HasMemory(c), NEW h \in Word, Below(c, h),
         Store(c, FF_LOC_HERE, h).status # "wild"
  PROVE  HereIsFree(Store(c, FF_LOC_HERE, h))
<1> DEFINE d == Store(c, FF_LOC_HERE, h)
<1>1. h \in Int /\ 1166 <= h /\ FF_LOC_HERE = 2 /\ FF_LOC_HERE \in Word
  BY WordInt DEF Below, FF_SYSTEM_VARIABLES_END, FF_LOC_HERE
<1>2. Below(d, h)
  BY <1>1, BelowStore
<1>3. Here(d) = h
  BY <1>1, HereStored
<1> HIDE DEF d
<1>4. HereIsFree(d)
  BY <1>2, <1>3, FreeBelow
<1> QED
  BY <1>4 DEF d

LEMMA StoreStays ==
  ASSUME NEW c, HasMemory(c), HereIsFree(c), Here(c) \in Int,
         NEW a \in Word, 4 <= a, a + 2 <= Here(c), NEW v \in Word,
         Store(c, a, v).status # "wild"
  PROVE  HereIsFree(Store(c, a, v))
<1> DEFINE d == Store(c, a, v)
<1>1. a \in Int /\ 0 <= a
  BY WordInt
<1>2. Below(d, Here(c))
  BY <1>1, BelowStore, FreeBelow
<1>3. Here(d) = Here(c)
  BY HereStored
<1> HIDE DEF d
<1>4. HereIsFree(d)
  BY <1>2, <1>3, FreeBelow
<1> QED
  BY <1>4 DEF d

\* STATE lies below everything that is compiled.
LEMMA StateStays ==
  ASSUME NEW c, IsContext(c), NEW v \in Word
  PROVE  Stays(c, Store(c, FF_LOC_STATE, v))
<1> DEFINE d == Store(c, FF_LOC_STATE, v)
<1> SUFFICES ASSUME HereIsFree(c), d.status # "wild" PROVE HereIsFree(d)
  BY DEF Stays
<1>1. /\ FF_LOC_STATE \in Word /\ 4 <= FF_LOC_STATE
      /\ Here(c) \in Int /\ FF_LOC_STATE + 2 <= Here(c)
  BY SystemCells, WordInt
  DEF HereIsFree, FF_SYSTEM_VARIABLES_END, FF_LOC_STATE
<1>2. HasMemory(c)
  BY ContextMemory
<1> QED
  BY <1>1, <1>2, StoreStays

LEMMA StateKept ==
  ASSUME NEW c, IsContext(c), NEW v,
         Store(c, FF_LOC_STATE, v).status # "wild"
  PROVE  c.status # "wild"
BY ContextMemory, StoredAs

LEMMA KeptRoom ==
  ASSUME NEW c, NEW a \in Int, IsKept(c, a), 8 <= a
  PROVE  a < 65516
BY TopWord DEF IsKept

\* Where the cells at HERE are kept, HERE does not wrap around behind them.
LEMMA CompileStays ==
  ASSUME NEW c, IsContext(c), NEW cells \in Seq(Word), Len(cells) \in {1, 2},
         Compile(c, cells).status # "wild"
  PROVE  /\ c.status # "wild" /\ Compile(c, cells).stacks = c.stacks
         /\ HereIsFree(c) => HereIsFree(Compile(c, cells))
<1> DEFINE h     == Here(c)
           next  == Wrap(h + 2)
           first == Store(c, h, cells[1])
           all   == IF Len(cells) = 1 THEN first
                    ELSE Store(first, next, cells[2])
           last  == Wrap(h + 2 * Len(cells))
           d     == Store(all, FF_LOC_HERE, last)
<1>1. Compile(c, cells) = d
  BY DEF Compile
<1>2. h \in Word /\ h \in Int /\ 0 <= h
  BY SystemCells, WordInt
<1>3. next \in Word /\ last \in Word /\ FF_LOC_HERE \in Word
  <2>1. h + 2 \in Int /\ h + 2 * Len(cells) \in Int
    BY <1>2
  <2> HIDE DEF h
  <2>2. next \in Word /\ last \in Word
    BY <2>1, WrapWord
  <2>3. FF_LOC_HERE \in Word
    BY WordInt DEF FF_LOC_HERE
  <2> QED
    BY <2>2, <2>3
<1>4. cells[1] \in Word /\ (Len(cells) # 1 => cells[2] \in Word)
  OBVIOUS
<1>5. d.status # "wild"
  BY <1>1
<1> HIDE DEF next, last, h
<1>6. IsContext(first) /\ HasMemory(first) /\ HasMemory(c)
  BY <1>2, <1>4, StoreTyped, ContextMemory DEF Alike
<1> HIDE DEF first
<1>7. HasMemory(all)
  BY <1>3, <1>4, <1>6, StoreTyped, ContextMemory DEF Alike
<1> HIDE DEF all
<1>8. all.status # "wild" /\ d.stacks = all.stacks
  BY <1>5, <1>7, StoredAs
<1>9. /\ first.status # "wild" /\ all.stacks = first.stacks
      /\ Len(cells) # 1 => IsKept(first, next + 1)
  BY <1>6, <1>8, StoredAs DEF all
<1>10. c.status # "wild" /\ first.stacks = c.stacks /\ IsKept(c, h + 1)
  BY <1>6, <1>9, StoredAs DEF first
<1>11. ASSUME HereIsFree(c) PROVE HereIsFree(d)
  <2>1. Below(c, h) /\ 1166 <= h
    BY <1>11, FreeBelow DEF Below, FF_SYSTEM_VARIABLES_END, h
  <2>2. h + 1 < 65516
    BY <1>2, <1>10, <2>1, KeptRoom
  <2>3. next = h + 2
    BY <1>2, <2>2, WrapOnce DEF next
  <2>4. Below(first, h + 2)
    <3>1. Below(c, h + 2)
      BY <1>2, <2>1, BelowMore
    <3> QED
      BY <1>2, <1>6, <1>9, <3>1, BelowStore DEF first
  <2>5. Below(all, last)
    <3>1. CASE Len(cells) = 1
      <4>1. last = h + 2
        BY <1>2, <2>2, <3>1, WrapOnce DEF last
      <4>2. all = first
        BY <3>1 DEF all
      <4> QED
        BY <2>4, <4>1, <4>2
    <3>2. CASE Len(cells) # 1
      <4>1. h + 3 < 65516
        <5>1. IsKept(first, h + 3) /\ h + 3 \in Int /\ 8 <= h + 3
          BY <1>2, <1>9, <2>1, <2>3, <3>2
        <5> QED
          BY <5>1, KeptRoom
      <4>2. last = h + 4
        <5>1. Len(cells) = 2
          BY <3>2
        <5>2. last = Wrap(h + 4)
          BY <1>2, <5>1 DEF last
        <5> QED
          BY <1>2, <4>1, <5>2, WrapOnce
      <4>3. Below(first, h + 4)
        BY <1>2, <2>4, BelowMore
      <4>4. all = Store(first, h + 2, cells[2])
        BY <2>3, <3>2 DEF all
      <4> QED
        BY <1>2, <1>6, <1>8, <4>2, <4>3, <4>4, BelowStore
    <3> QED
      BY <3>1, <3>2
  <2> QED
    BY <1>3, <1>5, <1>7, <2>5, StoredHere
<1> HIDE DEF d
<1> QED
  BY <1>1, <1>8, <1>9, <1>10, <1>11

\* What comes before and after.
LEMMA StillStays == ASSUME NEW c, NEW d, Still(c, d) PROVE Stays(c, d)
BY StillFree DEF Stays

LEMMA StillThen ==
  ASSUME NEW c, NEW d, NEW e, Still(c, d), Stays(d, e) PROVE Stays(c, e)
BY StillFree DEF Stays

LEMMA GoStays ==
  ASSUME NEW c, NEW d, IsContext(d), NEW a, Stays(c, d)
  PROVE  Stays(c, [d EXCEPT !.ip = a]) /\ Stays(c, Continue(d))
<1>1. \A b : /\ [d EXCEPT !.ip = b].mem = d.mem
             /\ [d EXCEPT !.ip = b].dict = d.dict
             /\ [d EXCEPT !.ip = b].status = d.status
  BY DEF IsContext, ContextField
<1>2. \A b : Stays(c, [d EXCEPT !.ip = b])
  <2>1. TAKE b
  <2> DEFINE e == [d EXCEPT !.ip = b]
  <2>2. e.mem = d.mem /\ e.dict = d.dict /\ e.status = d.status
    BY <1>1
  <2> HIDE DEF e
  <2>3. Stays(c, e)
    BY <2>2, SameFree DEF Stays
  <2> QED
    BY <2>3 DEF e
<1> QED
  BY <1>2 DEF Continue

LEMMA AbortStays == ASSUME NEW c, IsContext(c) PROVE Stays(c, Abort(c))
<1> DEFINE none == [s \in Stacks |-> <<>>]
           d == [c EXCEPT !.input = <<>>, !.ip = c.recover, !.stacks = none]
           e == [d EXCEPT !.chain = Tail(d.chain)]
           f == Store(e, FF_LOC_STATE, 0)
<1>1. DOMAIN c = ContextField /\ IsMemory(c.mem)
  BY ContextMemory DEF HasMemory
<1>2. Abort(c) = IF State(c) # 1 THEN d
                 ELSE IF c.chain = <<>> THEN Stop(d, "wild") ELSE f
  BY <1>1 DEF Abort, ContextField
<1>3. d.mem = c.mem /\ d.dict = c.dict /\ DOMAIN d = ContextField
  BY <1>1 DEF ContextField
<1> HIDE DEF none, d
<1>4. Stays(c, d)
  BY <1>3, SameFree DEF Stays
<1>5. Stays(c, Stop(d, "wild"))
  BY <1>3 DEF Stays, Stop, ContextField
<1>6. e.mem = c.mem /\ e.dict = c.dict /\ DOMAIN e = ContextField
  BY <1>3 DEF ContextField
<1> HIDE DEF e
<1>7. Stays(c, f)
  <2> SUFFICES ASSUME HereIsFree(c), f.status # "wild" PROVE HereIsFree(f)
    BY DEF Stays
  <2>1. HasMemory(e) /\ HereIsFree(e) /\ Here(e) = Here(c)
    BY <1>1, <1>6, SameFree DEF HasMemory
  <2>2. /\ FF_LOC_STATE \in Word /\ 4 <= FF_LOC_STATE
        /\ Here(c) \in Int /\ FF_LOC_STATE + 2 <= Here(c)
    BY SystemCells, WordInt
    DEF HereIsFree, FF_SYSTEM_VARIABLES_END, FF_LOC_STATE
  <2> QED
    BY <2>1, <2>2, ZeroOne, StoreStays
<1> HIDE DEF f
<1> QED
  BY <1>2, <1>4, <1>5, <1>7

LEMMA IdleStays ==
  ASSUME NEW c, NEW d, IsContext(c), Idle(c, d) PROVE Stays(c, d)
<1>1. ASSUME NEW e, Still(c, e) PROVE Stays(c, Abort(e))
  BY <1>1, StillAlike, AbortStays, StillThen
<1> QED
  BY <1>1, StillStays DEF Idle

LEMMA TakingStays ==
  ASSUME NEW c, IsContext(c), NEW n, NEW d, Stays(c, d)
  PROVE  Stays(c, Taking(c, n, d))
BY AbortStays DEF Taking

LEMMA PushingStays ==
  ASSUME NEW c, IsContext(c), NEW s, NEW d, ~WillOverflow(c, s) => Stays(c, d)
  PROVE  Stays(c, Pushing(c, s, d))
BY AbortStays DEF Pushing

LEMMA CompiledStill ==
  ASSUME NEW c, NEW d, Still(c, d), NEW cells \in Seq(Word),
         Len(cells) \in {1, 2}
  PROVE  /\ Stays(c, Compile(d, cells)) /\ Stays(c, Continue(Compile(d, cells)))
         /\ IsContext(Compile(d, cells))
<1> DEFINE e == Compile(d, cells)
<1>1. IsContext(d)
  BY StillAlike
<1>2. IsContext(e)
  BY <1>1, CompileTyped DEF Alike
<1>3. Stays(d, e)
  BY <1>1, CompileStays DEF Stays
<1> HIDE DEF e
<1>4. Stays(c, e)
  BY <1>3, StillThen
<1>5. Stays(c, Continue(e))
  BY <1>2, <1>4, GoStays
<1> QED
  BY <1>2, <1>4, <1>5 DEF e

\* The words that define words.
LEMMA EntryStays ==
  ASSUME NEW c, Sound(c), NEW header \in Headers
  PROVE  /\ Stays(c, AddEntry(c, header)) /\ Sound(AddEntry(c, header))
<1> DEFINE new  == Here(c)
           n    == Count[header.name]
           next == Align(Wrap(new + 12 + n))
           dict == [e \in DOMAIN c.dict \cup {new} |->
                      IF e = new THEN header ELSE c.dict[e]]
           e0   == [c EXCEPT !.dict = dict, !.chain = <<new>> \o c.chain]
           d    == Store(e0, FF_LOC_HERE, next)
<1>1. AddEntry(c, header) = IF IsFree(c, new, next) THEN d ELSE Stop(c, "wild")
  BY DEF AddEntry
<1>2. /\ new \in Word /\ new \in Int /\ n \in Int /\ 0 <= n /\ n <= 126
      /\ 0 <= new /\ new <= 65535
  <2>1. new \in Word /\ header.name \in Token
    BY SystemCells DEF Headers, Sound
  <2>2. n \in Nat /\ n <= 126
    BY <2>1, CountNat
  <2> HIDE DEF new, n
  <2> QED
    BY <2>1, <2>2, WordInt
<1>3. HasMemory(c)
  BY ContextMemory DEF Sound
<1>4. ASSUME IsFree(c, new, next), HereIsFree(c), d.status # "wild"
      PROVE  HereIsFree(d)
  <2>1. new < next /\ next \in Word /\ next = Align(new + n + 12)
    <3>1. 1166 <= new /\ new <= next
      BY <1>4 DEF IsFree, FF_SYSTEM_VARIABLES_END
    <3>2. next = BehindHeader(new, n)
      BY DEF BehindHeader
    <3> HIDE DEF new, n, next
    <3> QED
      BY <1>2, <3>1, <3>2, NextAbove
  <2>2. next \in Int
    BY <2>1, WordInt
  <2>3. /\ e0.mem = c.mem /\ e0.dict = dict /\ DOMAIN e0 = ContextField
        /\ HasMemory(e0)
    BY <1>3 DEF HasMemory, ContextField
  <2>4. Below(c, new)
    BY <1>4, FreeBelow
  <2> HIDE DEF e0, new, n, next
  <2>5. Below(c, next)
    BY <1>2, <2>1, <2>2, <2>4, BelowMore
  <2>6. \A e \in DOMAIN dict : ParameterField(e0, e) \in 0 .. next
    <3>1. TAKE e \in DOMAIN dict
    <3>2. CASE e = new
      <4>1. e0.dict[e] = header
        BY <2>3, <3>1, <3>2
      <4>2. ParameterField(e0, e) = next
        BY <2>1, <3>2, <4>1 DEF ParameterField, n
      <4> QED
        BY <1>2, <2>1, <2>2, <4>2
    <3>3. CASE e # new
      <4>1. e \in DOMAIN c.dict /\ e0.dict[e] = c.dict[e]
        BY <2>3, <3>1, <3>3
      <4>2. ParameterField(e0, e) = ParameterField(c, e)
        BY <4>1 DEF ParameterField
      <4> QED
        BY <2>5, <4>1, <4>2 DEF Below
    <3> QED
      BY <3>2, <3>3
  <2> HIDE DEF dict
  <2>7. Below(e0, next)
    BY <2>3, <2>5, <2>6 DEF Below
  <2> QED
    BY <1>4, <2>1, <2>3, <2>7, StoredHere
<1>5. Stop(c, "wild").status = "wild"
  BY <1>3 DEF Stop, HasMemory, ContextField
<1>6. Sound(AddEntry(c, header))
  BY EntryAdded, StillChanged
<1> HIDE DEF d, next, new
<1> QED
  BY <1>1, <1>4, <1>5, <1>6 DEF Stays

\* A header that is replaced keeps its name, and with it its length.
LEMMA HeadStays ==
  ASSUME NEW c, IsContext(c), NEW d, IsContext(d), Stays(c, d),
         d.chain # <<>>, NEW header, header.name = HeadOf(d).name
  PROVE  Stays(c, SetHead(d, header))
<1> DEFINE h == d.chain[1]
           e == SetHead(d, header)
<1>1. DOMAIN d = ContextField /\ d.chain \in Seq(DOMAIN d.dict)
  BY DEF IsContext
<1>2. e = [d EXCEPT !.dict[h] = header]
  BY DEF SetHead
<1>3. h \in DOMAIN d.dict
  BY <1>1
<1>4. /\ e.dict = [d.dict EXCEPT ![h] = header] /\ e.mem = d.mem
      /\ e.status = d.status
  BY <1>1, <1>2 DEF ContextField
<1> HIDE DEF e
<1>5. /\ DOMAIN e.dict = DOMAIN d.dict
      /\ \A a \in DOMAIN d.dict : e.dict[a].name = d.dict[a].name
  BY <1>3, <1>4 DEF HeadOf
<1>6. \A a \in DOMAIN d.dict : ParameterField(e, a) = ParameterField(d, a)
  BY <1>5 DEF ParameterField
<1>7. Here(e) = Here(d)
  BY <1>4, SameCells DEF Here
<1>8. HereIsFree(d) => HereIsFree(e)
  BY <1>4, <1>5, <1>6, <1>7, FreeBelow DEF Below
<1>9. Stays(c, e)
  BY <1>4, <1>8 DEF Stays
<1> QED
  BY <1>9 DEF e

LEMMA CommaStays == ASSUME NEW c, Sound(c) PROVE Stays(c, Comma(c))
<1>1. Still(c, Less(c)) /\ First(c) \in Word
  BY LessStill DEF Sound
<1>2. Stays(c, Continue(Compile(Less(c), <<First(c)>>)))
  BY <1>1, OneCell, CompiledStill
<1> QED
  BY <1>2, TakingStays DEF Comma, Sound

LEMMA StopStays ==
  ASSUME NEW c, IsContext(c)
  PROVE  Stays(c, Stop(c, "wild")) /\ Stays(c, Stop(c, "assert"))
BY StopStill, StillStays

LEMMA CompileLiteralStays ==
  ASSUME NEW c, Sound(c) PROVE Stays(c, CompileLiteral(c))
<1> DEFINE push == ViaOpcode(c, "PUSH")
           x == Continue(Compile(Less(c), <<push, First(c)>>))
<1>1. CompileLiteral(c) =
        Taking(c, 1, IF push = 0 THEN Stop(c, "assert") ELSE x)
  BY DEF CompileLiteral
<1>2. push \in Word /\ Still(c, Less(c)) /\ First(c) \in Word
  BY ViaOpcodeTyped, LessStill DEF Sound
<1> HIDE DEF push
<1>3. Stays(c, x) /\ Stays(c, Stop(c, "assert"))
  BY <1>2, TwoCells, CompiledStill, StopStays DEF Sound
<1> HIDE DEF x
<1> QED
  BY <1>1, <1>3, TakingStays DEF Sound

LEMMA ImmediateStays == ASSUME NEW c, Sound(c) PROVE Stays(c, Immediate(c))
<1> DEFINE g == [HeadOf(c) EXCEPT !.flags = @ \cup {"IMMEDIATE"}]
           d == SetHead(c, g)
<1>1. Immediate(c) = Continue(d) /\ IsContext(c) /\ Stays(c, c)
  BY DEF Immediate, Sound, Stays
<1>2. CASE c.chain = <<>>
  <2>1. d = Stop(c, "wild")
    BY <1>2 DEF SetHead
  <2> HIDE DEF d
  <2>2. Stays(c, d) /\ IsContext(d)
    BY <1>1, <2>1, StopStays, StopStill, StillAlike
  <2> QED
    BY <1>1, <2>2, GoStays
<1>3. CASE c.chain # <<>>
  <2>1. HeadOf(c) \in Headers
    BY <1>1, <1>3, HeadTyped
  <2>2. g \in Headers /\ g.name = HeadOf(c).name
    BY <2>1, MarkedEntry
  <2> HIDE DEF g
  <2>3. Stays(c, d) /\ IsContext(d)
    BY <1>1, <1>3, <2>2, HeadStays, HeadChanged DEF Sound
  <2> HIDE DEF d
  <2> QED
    BY <1>1, <2>3, GoStays
<1> QED
  BY <1>2, <1>3

LEMMA SemicolonStays == ASSUME NEW c, Sound(c) PROVE Stays(c, Semicolon(c))
<1> DEFINE exit == ViaOpcode(c, "EXIT")
           b == Compile(c, <<exit>>)
           d == Store(b, FF_LOC_STATE, 0)
           g == [HeadOf(d) EXCEPT !.flags = @ \ {"DIRTY"}]
           e == SetHead(d, g)
<1>1. Semicolon(c) = IF exit = 0 THEN Stop(c, "assert") ELSE Continue(e)
  BY DEF Semicolon
<1>2. /\ exit \in Word /\ (exit # 0 => c.chain # <<>>)
      /\ Still(c, c) /\ Alike(c, c)
  BY ViaOpcodeTyped, StillSelf, StillAlike DEF Sound
<1> HIDE DEF exit
<1>3. Stays(c, b) /\ Alike(c, b)
  BY <1>2, OneCell, CompiledStill, CompileAlike
<1> HIDE DEF b
<1>4. Stays(c, d) /\ Sound(d) /\ IsContext(d) /\ d.chain = c.chain
  <2>1. IsContext(b) /\ FF_LOC_STATE \in Word
    BY <1>3, WordInt DEF Alike, FF_LOC_STATE
  <2>2. Stays(b, d) /\ (d.status # "wild" => b.status # "wild")
    BY <2>1, ZeroOne, StateStays, StateKept
  <2>3. Alike(c, d)
    BY <1>3, <2>1, ZeroOne, StoreAlike
  <2> HIDE DEF d
  <2> QED
    BY <1>3, <2>2, <2>3, AlikeSound DEF Stays, Alike
<1> HIDE DEF d
<1>5. ASSUME exit # 0 PROVE Stays(c, e) /\ IsContext(e)
  <2>0. d.chain # <<>>
    BY <1>2, <1>4, <1>5
  <2>1. HeadOf(d) \in Headers
    BY <1>4, <2>0, HeadTyped
  <2>2. g \in Headers /\ g.name = HeadOf(d).name
    BY <2>1, ClosedEntry
  <2> HIDE DEF g
  <2> QED
    BY <1>4, <2>0, <2>2, HeadStays, HeadChanged DEF Sound
<1>6. Stays(c, Stop(c, "assert"))
  BY StopStays DEF Sound
<1> HIDE DEF e
<1> QED
  BY <1>1, <1>5, <1>6, GoStays

LEMMA DoesStays == ASSUME NEW c, Sound(c) PROVE Stays(c, Does(c))
<1> DEFINE rt   == ViaOpcode(c, "DOES_RT")
           exit == ViaOpcode(c, "EXIT")
           d    == Compile(c, <<rt, exit>>)
           g    == [HeadOf(d) EXCEPT !.does = Here(d)]
           e    == SetHead(d, g)
<1>1. Does(c) = IF rt = 0 \/ exit = 0 THEN Stop(c, "assert") ELSE Continue(e)
  BY DEF Does
<1>2. /\ rt \in Word /\ exit \in Word /\ Still(c, c) /\ Alike(c, c)
      /\ rt # 0 => c.chain # <<>>
  BY ViaOpcodeTyped, StillSelf, StillAlike DEF Sound
<1> HIDE DEF rt, exit
<1>3. Stays(c, d) /\ Alike(c, d)
  BY <1>2, TwoCells, CompiledStill, CompileAlike
<1> HIDE DEF d
<1>4. Sound(d) /\ d.chain = c.chain /\ IsContext(d)
  BY <1>3, AlikeSound DEF Alike
<1>5. ASSUME rt # 0 PROVE Stays(c, e) /\ IsContext(e)
  <2>0. d.chain # <<>>
    BY <1>2, <1>4, <1>5
  <2>1. HeadOf(d) \in Headers /\ Here(d) \in Word
    BY <1>4, <2>0, HeadTyped, SystemCells
  <2>2. g \in Headers /\ g.name = HeadOf(d).name
    BY <2>1, DoesHeader
  <2> HIDE DEF g
  <2> QED
    BY <1>3, <1>4, <2>0, <2>2, HeadStays, HeadChanged DEF Sound
<1>6. Stays(c, Stop(c, "assert"))
  BY StopStays DEF Sound
<1> HIDE DEF e
<1> QED
  BY <1>1, <1>5, <1>6, GoStays

LEMMA DoesRunTimeStays ==
  ASSUME NEW c, Sound(c) PROVE Stays(c, DoesRunTime(c))
<1> DEFINE a == Wrap(c.ip + 4)
           g == [HeadOf(c) EXCEPT !.code = "DOES_ENTER", !.does = a]
           e == SetHead(c, g)
<1>1. DoesRunTime(c) \in {Stop(c, "wild"), Stop(c, "assert")}
        \/ (c.chain # <<>> /\ DoesRunTime(c) = Continue(e))
  BY DEF DoesRunTime
<1>2. a \in Word
  BY NextWord DEF Sound, IsContext
<1> HIDE DEF a
<1>3. ASSUME c.chain # <<>> PROVE Stays(c, e) /\ IsContext(e)
  <2>1. HeadOf(c) \in Headers /\ IsContext(c) /\ Stays(c, c)
    BY <1>3, HeadTyped DEF Sound, Stays
  <2>2. g \in Headers /\ g.name = HeadOf(c).name
    BY <1>2, <2>1, DoesHeader
  <2> HIDE DEF g
  <2> QED
    BY <1>3, <2>1, <2>2, HeadStays, HeadChanged DEF Sound
<1>4. Stays(c, Stop(c, "wild")) /\ Stays(c, Stop(c, "assert"))
  BY StopStays DEF Sound
<1> HIDE DEF e
<1> QED
  BY <1>1, <1>3, <1>4, GoStays

LEMMA ColonStays == ASSUME NEW c, Sound(c) PROVE Stays(c, Colon(c))
<1> DEFINE p == Parse(c)
           h == Header(p.word, "ENTER", {"MACHINE_CODE", "DIRTY"}, 0)
           b == AddEntry(p, h)
           d == Store(b, FF_LOC_STATE, 1)
<1>1. Colon(c) = Pushing(c, "data", IF p.word = "" THEN Abort(p)
                                    ELSE Continue(d))
  BY DEF Colon
<1>2. Still(c, p) /\ (p.word = "" \/ p.word \in Token)
  BY ParseTyped DEF Sound
<1>3. IsContext(p) /\ Sound(p)
  BY <1>2, StillChanged
<1>4. Stays(c, Abort(p))
  BY <1>2, <1>3, AbortStays, StillThen
<1> HIDE DEF p
<1>5. ASSUME p.word # "" PROVE Stays(c, d) /\ IsContext(d)
  <2>1. h \in Headers
    BY <1>2, <1>5, OpenHeader
  <2> HIDE DEF h
  <2>2. Stays(p, b) /\ Sound(b)
    BY <1>3, <2>1, EntryStays
  <2> HIDE DEF b
  <2>3. IsContext(b) /\ FF_LOC_STATE \in Word
    BY <2>2, WordInt DEF Sound, FF_LOC_STATE
  <2>4. Stays(b, d) /\ (d.status # "wild" => b.status # "wild")
    BY <2>3, ZeroOne, StateStays, StateKept
  <2>5. IsContext(d)
    BY <2>3, ZeroOne, StoreTyped DEF Alike
  <2> HIDE DEF d
  <2>6. Stays(p, d)
    BY <2>2, <2>4 DEF Stays
  <2> QED
    BY <1>2, <2>5, <2>6, StillThen
<1> HIDE DEF d
<1>6. p.word # "" => Stays(c, Continue(d))
  BY <1>5, GoStays
<1>7. IsContext(c)
  BY DEF Sound
<1> DEFINE x == IF p.word = "" THEN Abort(p) ELSE Continue(d)
<1>8. Stays(c, x)
  BY <1>4, <1>6
<1> HIDE DEF x
<1>9. Stays(c, Pushing(c, "data", x))
  BY <1>7, <1>8, PushingStays
<1> QED
  BY <1>1, <1>9 DEF x

LEMMA CreateStays ==
  ASSUME NEW c, Sound(c), NEW w \in DOMAIN c.dict
  PROVE  Stays(c, Create(c, w))
<1> DEFINE p == Parse(c)
           does == c.dict[w].does
           h == Header(p.word, "CREATE_ENTER", {"MACHINE_CODE"}, does)
           b == AddEntry(p, h)
<1>1. Create(c, w) = Pushing(c, "data", IF p.word = "" THEN Abort(p)
                                        ELSE Continue(b))
  BY DEF Create
<1>2. Still(c, p) /\ (p.word = "" \/ p.word \in Token)
  BY ParseTyped DEF Sound
<1>3. IsContext(p) /\ Sound(p)
  BY <1>2, StillChanged
<1>4. Stays(c, Abort(p))
  BY <1>2, <1>3, AbortStays, StillThen
<1>5. does \in Word
  BY DEF Sound, IsContext, Headers
<1> HIDE DEF p, does
<1>6. ASSUME p.word # "" PROVE Stays(c, b) /\ IsContext(b)
  <2>1. h \in Headers
    BY <1>2, <1>5, <1>6, CreateHeader
  <2> HIDE DEF h
  <2>2. Stays(p, b) /\ Sound(b)
    BY <1>3, <2>1, EntryStays
  <2> HIDE DEF b
  <2> QED
    BY <1>2, <2>2, StillThen DEF Sound
<1> HIDE DEF b
<1>7. p.word # "" => Stays(c, Continue(b))
  BY <1>6, GoStays
<1>8. IsContext(c)
  BY DEF Sound
<1> DEFINE x == IF p.word = "" THEN Abort(p) ELSE Continue(b)
<1>9. Stays(c, x)
  BY <1>4, <1>7
<1> HIDE DEF x
<1>10. Stays(c, Pushing(c, "data", x))
  BY <1>8, <1>9, PushingStays
<1> QED
  BY <1>1, <1>10 DEF x

\* IF, THEN, ELSE and AGAIN.
LEMMA PushSame ==
  ASSUME NEW d, IsContext(d), NEW s \in Stacks, NEW v \in Word,
         Len(d.stacks[s]) + 1 # StackSize[s]
  PROVE  /\ Push(d, s, v).mem = d.mem /\ Push(d, s, v).dict = d.dict
         /\ Push(d, s, v).status = d.status
<1> DEFINE q == <<v>> \o d.stacks[s]
           e == [d EXCEPT !.stacks[s] = q]
<1>1. Push(d, s, v) = IF Len(e.stacks[s]) = StackSize[s]
                        THEN Stop(e, "overflow") ELSE e
  BY DEF Push
<1>2. DOMAIN d = ContextField /\ d.stacks \in [Stacks -> Seq(Word)]
  BY DEF IsContext
<1>3. Len(q) = Len(d.stacks[s]) + 1
  BY <1>2
<1> HIDE DEF q
<1>4. /\ e.stacks[s] = q /\ e.mem = d.mem /\ e.dict = d.dict
      /\ e.status = d.status
  BY <1>2 DEF ContextField
<1> HIDE DEF e
<1> QED
  BY <1>1, <1>3, <1>4

LEMMA StoreStacks ==
  ASSUME NEW c, DOMAIN c = ContextField, NEW a, NEW v
  PROVE  /\ Store(c, a, v).stacks = c.stacks
         /\ DOMAIN Store(c, a, v) = ContextField
BY DEF Store, Stop, ContextField

LEMMA CompileStacks ==
  ASSUME NEW c, DOMAIN c = ContextField, NEW cells
  PROVE  Compile(c, cells).stacks = c.stacks
BY StoreStacks DEF Compile

LEMMA IfStays == ASSUME NEW c, Sound(c) PROVE Stays(c, If(c))
<1> DEFINE jump == ViaOpcode(c, "JUMP_IF")
           a == Wrap(Here(c) + 2)
           d == Compile(c, <<jump, 0>>)
           f == Push(d, "control", a)
<1>1. If(c) = Pushing(c, "control",
                IF jump = 0 THEN Stop(c, "assert") ELSE Continue(f))
  BY DEF If
<1>2. /\ jump \in Word /\ a \in Word /\ Still(c, c) /\ IsContext(c)
      /\ "control" \in Stacks
  BY ViaOpcodeTyped, SystemCells, NextWord, StillSelf DEF Sound, Stacks
<1> HIDE DEF jump, a
<1>3. <<jump, 0>> \in Seq(Word) /\ Len(<<jump, 0>>) \in {1, 2}
  BY <1>2, ZeroOne, TwoCells
<1>4. Stays(c, d) /\ IsContext(d) /\ d.stacks = c.stacks
  BY <1>2, <1>3, CompiledStill, CompileStacks DEF IsContext
<1> HIDE DEF d
<1>5. IsContext(f)
  BY <1>2, <1>4, PushTyped, StillAlike
<1>6. ASSUME ~WillOverflow(c, "control") PROVE Stays(c, f)
  <2>1. Len(d.stacks["control"]) + 1 # StackSize["control"]
    BY <1>4, <1>6 DEF WillOverflow
  <2>2. f.mem = d.mem /\ f.dict = d.dict /\ f.status = d.status
    BY <1>2, <1>4, <2>1, PushSame
  <2> QED
    BY <1>4, <2>2, SameFree DEF Stays
<1> HIDE DEF f
<1>7. ~WillOverflow(c, "control") => Stays(c, Continue(f))
  BY <1>5, <1>6, GoStays
<1> QED
  BY <1>1, <1>2, <1>7, StopStays, PushingStays

\* What THEN and ELSE need to be told.
Fills(c) ==
  FF_SYSTEM_VARIABLES_END <= Control(c) /\ Control(c) + 2 <= Here(c)

LEMMA ThenStays ==
  ASSUME NEW c, Sound(c), Fills(c) PROVE Stays(c, Then(c))
<1> DEFINE p == Pop(c, "control")
           a == Control(c)
           d == Store(p, a, Here(c))
<1>1. Then(c) = IF IsEmpty(c, "control") THEN Abort(c) ELSE Continue(d)
  BY DEF Then
<1>2. /\ Still(c, p) /\ a \in Word /\ Here(c) \in Word /\ Here(c) \in Int
      /\ 4 <= a /\ a + 2 <= Here(c)
  <2>1. Still(c, p) /\ a \in Word
    BY PopTyped, PoppedWord DEF Control, Sound, Stacks
  <2>2. Here(c) \in Word
    BY SystemCells DEF Sound
  <2> QED
    BY <2>1, <2>2, WordInt DEF Fills, FF_SYSTEM_VARIABLES_END
<1> HIDE DEF p, a
<1>3. Here(p) = Here(c) /\ HasMemory(p) /\ IsContext(p)
  BY <1>2, StillFree, StillAlike, ContextMemory
<1>4. Stays(p, d)
  BY <1>2, <1>3, StoreStays DEF Stays
<1>5. IsContext(d)
  BY <1>2, <1>3, StoreTyped DEF Alike
<1> HIDE DEF d
<1>6. Stays(c, Continue(d))
  BY <1>2, <1>4, <1>5, StillThen, GoStays
<1> QED
  BY <1>1, <1>6, AbortStays DEF Sound

LEMMA ElseStays ==
  ASSUME NEW c, Sound(c), Fills(c),
         Len(c.stacks["control"]) < StackSize["control"]
  PROVE  Stays(c, Else(c))
<1> DEFINE jump == ViaOpcode(c, "JUMP")
           h == Here(c)
           a == Control(c)
           next == Wrap(h + 4)
           back == Wrap(h + 2)
           p == Pop(c, "control")
           d == Store(p, h, jump)
           e == Store(d, a, next)
           f == Push(e, "control", back)
           g == Store(f, FF_LOC_HERE, next)
<1>1. Else(c) = IF IsEmpty(c, "control") THEN Abort(c)
                ELSE IF jump = 0 THEN Stop(c, "assert") ELSE Continue(g)
  BY DEF Else
<1>2. Still(c, p) /\ a \in Word /\ jump \in Word /\ h \in Word
  BY PopTyped, PoppedWord, ViaOpcodeTyped, SystemCells
  DEF Control, Sound, Stacks
<1>3. next \in Word /\ back \in Word /\ FF_LOC_HERE \in Word
  <2>1. next \in Word /\ back \in Word
    BY <1>2, NextWord
  <2>2. FF_LOC_HERE \in Word
    BY WordInt DEF FF_LOC_HERE
  <2> QED
    BY <2>1, <2>2
<1>4. h \in Int /\ 0 <= h /\ a \in Int /\ 1166 <= a /\ a + 2 <= h
  BY <1>2, WordInt DEF Fills, FF_SYSTEM_VARIABLES_END
<1>5. ~IsEmpty(c, "control") =>
        /\ p.stacks["control"] \in Seq(Word)
        /\ Len(p.stacks["control"]) + 1 # StackSize["control"]
  <2>0. /\ c.stacks \in [Stacks -> Seq(Word)] /\ DOMAIN c = ContextField
        /\ "control" \in Stacks
    BY DEF Sound, IsContext, Stacks
  <2>1. /\ c.stacks["control"] \in Seq(Word) /\ DOMAIN c = ContextField
        /\ StackSize["control"] \in Int /\ "control" \in DOMAIN c.stacks
    <3>1. StackSize["control"] \in Nat
      BY <2>0, StackSizeAssumption
    <3> QED
      BY <2>0, <3>1
  <2> DEFINE q == Tail(c.stacks["control"])
  <2> SUFFICES ASSUME c.stacks["control"] # <<>>
               PROVE  /\ p.stacks["control"] \in Seq(Word)
                      /\ Len(p.stacks["control"]) + 1 # StackSize["control"]
    BY DEF IsEmpty
  <2>2. p.stacks["control"] = q
    BY <2>1 DEF Pop, IsEmpty, ContextField
  <2>3. q \in Seq(Word) /\ Len(q) = Len(c.stacks["control"]) - 1
        /\ Len(c.stacks["control"]) \in Nat
    BY <2>1
  <2> HIDE DEF q
  <2> QED
    BY <2>1, <2>2, <2>3
<1> HIDE DEF jump, h, a, next, back, p
<1>6. IsContext(p) /\ HasMemory(p)
  BY <1>2, StillAlike, ContextMemory
<1>7. IsContext(d) /\ HasMemory(d) /\ d.stacks = p.stacks
  BY <1>2, <1>6, StoreTyped, StoreStacks, ContextMemory
  DEF Alike, HasMemory
<1> HIDE DEF d
<1>8. IsContext(e) /\ HasMemory(e) /\ e.stacks = p.stacks
  <2>1. IsContext(e)
    BY <1>2, <1>3, <1>7, StoreTyped DEF Alike
  <2>2. e.stacks = d.stacks
    BY <1>7, StoreStacks DEF HasMemory
  <2> QED
    BY <1>7, <2>1, <2>2, ContextMemory
<1> HIDE DEF e
<1>9. IsContext(f) /\ HasMemory(f)
  <2>1. IsContext(f)
    BY <1>3, <1>8, PushTyped, StillAlike DEF Stacks
  <2> QED
    BY <2>1, ContextMemory
<1>10. ~IsEmpty(c, "control") =>
         f.mem = e.mem /\ f.dict = e.dict /\ f.status = e.status
  BY <1>3, <1>5, <1>8, PushSame DEF Stacks
<1> HIDE DEF f
<1>11. IsContext(g)
  BY <1>3, <1>9, StoreTyped DEF Alike
<1>12. ASSUME ~IsEmpty(c, "control"), HereIsFree(c), g.status # "wild"
       PROVE  HereIsFree(g)
  <2>1. f.status # "wild"
    BY <1>9, <1>12, StoredAs
  <2>2. e.status # "wild"
    BY <1>10, <1>12, <2>1
  <2>3. d.status # "wild"
    BY <1>7, <2>2, StoredAs DEF e
  <2>4. IsKept(p, h + 1)
    BY <1>6, <2>3, StoredAs DEF d
  <2>5. next = h + 4
    <3>1. h + 1 < 65516
      BY <1>4, <2>4, KeptRoom
    <3> QED
      BY <1>4, <3>1, WrapOnce DEF next
  <2>6. Below(p, h)
    BY <1>2, <1>12, StillFree, FreeBelow DEF h
  <2>7. Below(p, next)
    BY <1>4, <2>5, <2>6, BelowMore
  <2>8. Below(d, next)
    BY <1>4, <1>6, <2>3, <2>5, <2>7, BelowStore DEF d
  <2>9. Below(e, next)
    BY <1>4, <1>7, <2>2, <2>5, <2>8, BelowStore DEF e
  <2>10. Below(f, next)
    BY <1>10, <1>12, <2>9, SameFree
  <2> QED
    BY <1>3, <1>9, <1>12, <2>10, StoredHere
<1> HIDE DEF g
<1>13. ~IsEmpty(c, "control") => Stays(c, Continue(g))
  BY <1>11, <1>12, GoStays DEF Stays
<1>14. Stays(c, Abort(c)) /\ Stays(c, Stop(c, "assert"))
  BY AbortStays, StopStays DEF Sound
<1> QED
  BY <1>1, <1>13, <1>14

LEMMA AgainStays == ASSUME NEW c, Sound(c) PROVE Stays(c, Again(c))
<1> DEFINE jump == ViaOpcode(c, "JUMP")
           x == Continue(Compile(Pop(c, "control"), <<jump, Control(c)>>))
<1>1. Again(c) = IF IsEmpty(c, "control") THEN Abort(c)
                 ELSE IF jump = 0 THEN Stop(c, "assert") ELSE x
  BY DEF Again
<1>2. jump \in Word /\ Still(c, Pop(c, "control")) /\ Control(c) \in Word
  BY ViaOpcodeTyped, PopTyped, PoppedWord DEF Sound, Stacks, Control
<1> HIDE DEF jump
<1>3. Stays(c, x)
  BY <1>2, TwoCells, CompiledStill
<1>4. Stays(c, Abort(c)) /\ Stays(c, Stop(c, "assert"))
  BY AbortStays, StopStays DEF Sound
<1> HIDE DEF x
<1> QED
  BY <1>1, <1>3, <1>4

\* Every word but ! and ALLOT.
LEMMA InstructionStays ==
  ASSUME NEW c, Sound(c), NEW w \in DOMAIN c.dict, NEW line \in Seq(Token),
         c.dict[w].code \notin {"STORE", "ALLOT"},
         c.dict[w].code \in {"THEN", "ELSE"} => Fills(c),
         Len(c.stacks["control"]) < StackSize["control"]
  PROVE  Stays(c, Instruction(c, w, line))
<1> DEFINE code == c.dict[w].code
           r == Instruction(c, w, line)
<1>1. CASE code \notin Building
  BY <1>1, InstructionIdle, IdleStays DEF Sound
<1>2. CASE code \in {"COMMA", "COLON", "SEMICOLON", "CREATE", "IMMEDIATE"}
  <2>1. r \in {Comma(c), Colon(c), Semicolon(c), Create(c, w), Immediate(c)}
    BY <1>2 DEF Instruction
  <2> HIDE DEF r, code
  <2>2. \A x \in {Comma(c), Colon(c), Semicolon(c), Create(c, w),
                  Immediate(c)} : Stays(c, x)
    BY CommaStays, ColonStays, SemicolonStays, CreateStays, ImmediateStays
  <2> QED
    BY <2>1, <2>2 DEF r
<1>3. CASE code \in {"LITERAL", "PLITERAL", "DOES", "DOES_RT", "IF", "AGAIN"}
  <2>1. r \in {CompileLiteral(c), Does(c), DoesRunTime(c), If(c), Again(c)}
    BY <1>3 DEF Instruction
  <2> HIDE DEF r, code
  <2>2. \A x \in {CompileLiteral(c), Does(c), DoesRunTime(c), If(c),
                  Again(c)} : Stays(c, x)
    BY CompileLiteralStays, DoesStays, DoesRunTimeStays, IfStays, AgainStays
  <2> QED
    BY <2>1, <2>2 DEF r
<1>4. CASE code \in {"THEN", "ELSE"}
  <2>1. r \in {Then(c), Else(c)}
    BY <1>4 DEF Instruction
  <2>2. Stays(c, Then(c)) /\ Stays(c, Else(c))
    BY <1>4, ThenStays, ElseStays
  <2> HIDE DEF r, code
  <2> QED
    BY <2>1, <2>2 DEF r
<1> QED
  BY <1>1, <1>2, <1>3, <1>4 DEF Building

LEMMA ExecuteStays ==
  ASSUME NEW c, Sound(c), NEW line \in Seq(Token),
         Opcode(c) = "EXECUTE",
         AtWork(c) \notin {"STORE", "ALLOT"}, FillsIn(c),
         Len(c.stacks["control"]) < StackSize["control"]
  PROVE  Stays(c, Execute(c, line))
<1> DEFINE k == Depth(c)
           w == Data(c)[k]
           q == SubSeq(Data(c), k + 1, Len(Data(c)))
           d == [c EXCEPT !.stacks["data"] = q]
           r == Instruction(d, w, line)
           a == Wrap(c.ip + 2)
<1>1. Data(c) \in Seq(Word) /\ Len(Data(c)) \in Nat
  <2>1. Data(c) \in Seq(Word)
    BY DEF Sound, IsContext, Data, Stacks
  <2> QED
    BY <2>1
<1>2. k \in 1 .. Len(Data(c)) + 1
  BY <1>1, DepthExists
<1>3. CASE k > Len(Data(c))
  <2>1. Execute(c, line) = Abort(c)
    BY <1>3 DEF Execute
  <2> QED
    BY <2>1, AbortStays DEF Sound
<1>4. CASE k \in 1 .. Len(Data(c)) /\ w \notin DOMAIN c.dict
  <2>1. Execute(c, line) = Stop(c, "wild")
    BY <1>1, <1>4 DEF Execute
  <2> QED
    BY <2>1, StopStays DEF Sound
<1>5. CASE k \in 1 .. Len(Data(c)) /\ w \in DOMAIN c.dict
  <2>0. ~ (k > Len(Data(c)))
    BY <1>1, <1>5
  <2>1. \/ Execute(c, line) = r
        \/ Execute(c, line) = [r EXCEPT !.ip = a]
    <3>2. CASE r.ip = c.recover
      <4>1. Execute(c, line) = r
        BY <1>5, <2>0, <3>2 DEF Execute, Data
      <4> QED
        BY <4>1
    <3>3. CASE r.ip # c.recover
      <4>1. Execute(c, line) =
              IF k = 1 /\ c.dict[w].code \in {"ENTER", "DOES_ENTER"} THEN r
              ELSE [r EXCEPT !.ip = a]
        BY <1>5, <2>0, <3>3 DEF Execute, Data
      <4> QED
        BY <4>1
    <3> QED
      BY <3>2, <3>3
  <2>2. q \in Seq(Word)
    <3>1. k + 1 \in Int /\ \A j \in k + 1 .. Len(Data(c)) : Data(c)[j] \in Word
      BY <1>1, <1>2
    <3> QED
      BY <1>1, <3>1, SubSeqProperties
  <2>3. AtWork(c) = c.dict[w].code
    BY <1>5, <2>0 DEF AtWork, CodeAt
  <2> HIDE DEF q, k
  <2>4. Still(c, d)
    BY <2>2, StackTyped DEF Sound, Stacks
  <2>5. d.stacks["control"] = c.stacks["control"]
    BY DEF Sound, IsContext, ContextField, Stacks
  <2>6. Sound(d) /\ w \in DOMAIN d.dict /\ d.dict = c.dict
    BY <1>5, <2>4, StillChanged DEF Still, Alike
  <2>7. Here(d) = Here(c) /\ Control(d) = Control(c)
    BY <2>4, <2>5, StillFree DEF Control, Popped, IsEmpty
  <2> HIDE DEF d, w, a
  <2>8. /\ d.dict[w].code \notin {"STORE", "ALLOT"}
        /\ d.dict[w].code \in {"THEN", "ELSE"} => Fills(d)
        /\ Len(d.stacks["control"]) < StackSize["control"]
    BY <2>3, <2>5, <2>6, <2>7 DEF FillsIn, Fills
  <2>9. Stays(d, r) /\ IsContext(r)
    BY <2>6, <2>8, InstructionStays, InstructionMoves DEF Changed, Sound
  <2> HIDE DEF r
  <2>10. Stays(c, r) /\ Stays(c, [r EXCEPT !.ip = a])
    BY <2>4, <2>9, StillThen, GoStays
  <2> QED
    BY <2>1, <2>10
<1> QED
  BY <1>1, <1>2, <1>3, <1>4, <1>5

LEMMA TurnStays ==
  ASSUME NEW c, Sound(c), NEW line \in Seq(Token),
         AtWork(c) \notin {"STORE", "ALLOT"}, FillsIn(c),
         Len(c.stacks["control"]) < StackSize["control"]
  PROVE  Stays(c, Turn(c, line))
<1> DEFINE w == CellAt(c, c.ip)
<1>1. CASE Opcode(c) = "none"
  <2>1. Turn(c, line) = Stop(c, "wild")
    BY <1>1 DEF Turn
  <2> QED
    BY <2>1, StopStays DEF Sound
<1>2. CASE Opcode(c) = "EXECUTE"
  <2>1. Turn(c, line) = Execute(c, line)
    BY <1>2 DEF Turn
  <2> QED
    BY <1>2, <2>1, ExecuteStays
<1>3. CASE Opcode(c) \notin {"none", "EXECUTE"}
  <2>1. Turn(c, line) = Instruction(c, w, line) /\ AtWork(c) = Opcode(c)
    BY <1>3 DEF Turn, AtWork
  <2>2. w \in DOMAIN c.dict /\ Opcode(c) = c.dict[w].code
    BY <1>3, OpcodeWord
  <2> HIDE DEF w
  <2>3. c.dict[w].code \in {"THEN", "ELSE"} => Fills(c)
    BY <2>1, <2>2 DEF FillsIn, Fills
  <2> QED
    BY <2>1, <2>2, <2>3, InstructionStays
<1> QED
  BY <1>1, <1>2, <1>3

LEMMA StepSound == Sound(context) /\ [Next]_vars => Sound(context)'
<1> SUFFICES ASSUME Sound(context), [Next]_vars PROVE Sound(context')
  OBVIOUS
<1>1. CASE Next
  BY <1>1, TurnOfNext, TurnMoves DEF Changed
<1>2. CASE UNCHANGED vars
  <2>1. context' = context
    BY <1>2 DEF vars
  <2> QED
    BY <2>1
<1> QED
  BY <1>1, <1>2

LEMMA AlwaysSound == Spec => []Sound(context)
<1>1. Init => Sound(context)
  BY DEF Init, Booted, Sound
<1> QED
  BY <1>1, StepSound, PTL DEF Spec

\* In a system that was booted with any dictionary and any program: no word
\* written in C, but ! and ALLOT, leaves compiled code where the next word will
\* be compiled, in a data space of any filling, up to its very end.
THEOREM CompiledIsKept == Spec => CompiledStays
<1> DEFINE A == (context'.mem # context.mem \/ context'.dict # context.dict)
                  /\ Running /\ HereIsFree(context)
                  /\ context'.status # "wild"
                  /\ AtWork(context) \notin {"STORE", "ALLOT"}
                  /\ FillsIn(context) => HereIsFree(context')
<1>1. ASSUME IInv, Sound(context), [Next]_vars PROVE [A]_vars
  <2>1. CASE Next
    <3> SUFFICES ASSUME HereIsFree(context), context'.status # "wild",
                        AtWork(context) \notin {"STORE", "ALLOT"},
                        FillsIn(context)
                 PROVE  HereIsFree(context')
      OBVIOUS
    <3>1. PICK line \in Seq(Token) : context' = Turn(context, line)
      BY <2>1, TurnOfNext
    <3>2. Len(context.stacks["control"]) < StackSize["control"]
      BY <1>1, <2>1, StepIsTurn, GuardedLength DEF Stacks
    <3>3. Stays(context, Turn(context, line))
      BY <1>1, <3>2, TurnStays
    <3> QED
      BY <3>1, <3>3 DEF Stays
  <2>2. CASE UNCHANGED vars
    BY <2>2
  <2> QED
    BY <1>1, <2>1, <2>2
<1> QED
  BY <1>1, Always, AlwaysSound, PTL DEF Spec, CompiledStays
=============================================================================
